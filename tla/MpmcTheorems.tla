---------------------------- MODULE MpmcTheorems ----------------------------
(***************************************************************************)
(* What the shared-consumer queue (MpmcQueue) guarantees, for any number   *)
(* of threads, any capacity, any number of blocks and both block sizes.    *)
(*                                                                         *)
(* First the indices: IndexInv (MpmcIndices), which speaks of positions    *)
(* only, and what follows from it.  Then the blocks: BlockInv (MpmcBlocks),*)
(* given IndexInv, with one lemma per action, or per group of actions that *)
(* change the same words; LapInv, TagInv and HeadInv speak of most of the  *)
(* state, and are kept by a few frame lemmas wherever no block's `start`   *)
(* is set, no slot is written and the head stays.  Then the refinement of  *)
(* FifoQueue.  Last, that nothing is lost: KeepInv, given MpmcInv.         *)
(***************************************************************************)
EXTENDS MpmcBlocks, PositionsTheorems, SequenceTheorems, FiniteSetTheorems

USE DEF PStep, SetPos, SetBlock, SetNew, CStep

----------------------------------------------------------------------------
(* Steps that leave a part of the invariant's variables alone.              *)

producerIndices == <<tail, ppc, ppos>>
consumerIndices == <<head, cpc, cpos>>

LEMMA TakeInvFrame ==
    ASSUME TakeInv, UNCHANGED consumerIndices
    PROVE  TakeInv'
BY DEF TakeInv, Moving, consumerIndices

LEMMA ClaimInvFrame ==
    ASSUME ModeInv, ClaimInv, UNCHANGED producerIndices
    PROVE  ModeInv' /\ ClaimInv'
BY DEF ModeInv, ClaimInv, producerIndices

\* A producer that owns its position keeps it while it finds its block,
\* installs the next one and writes its value.
LEMMA OwnerStep ==
    ASSUME IndexInv, NEW p \in Producers, NEW l \in ClaimedPCs,
           ppc[p] \in ClaimedPCs, ppc' = [ppc EXCEPT ![p] = l],
           UNCHANGED <<tail, cached, contended, head, claimLocals, consVars>>
    PROVE  IndexInv'
<1>1. IndexTypeOK'
  BY DEF IndexInv, IndexTypeOK, ProducerPCs, claimLocals, consVars
<1>2. ModeInv'
  BY DEF IndexInv, IndexTypeOK, ModeInv, UnboundedPCs, BoundedPCs, ClaimedPCs,
         FoundPCs
<1>3. ClaimInv'
  BY DEF IndexInv, IndexTypeOK, ClaimInv, ClaimedPCs, FoundPCs, claimLocals
<1>4. TakeInv'
  BY TakeInvFrame DEF IndexInv, consumerIndices, consVars
<1>5. CapInv'
  BY DEF IndexInv, IndexTypeOK, CapInv, CapacityHeld, ClaimedPCs, FoundPCs,
         claimLocals
<1>6. QED
  BY <1>1, <1>2, <1>3, <1>4, <1>5 DEF IndexInv

\* A producer that does not own a position, or gives up its position, goes
\* anywhere in its claim loop but past the capacity check.
LEMMA SeekStep ==
    ASSUME IndexInv, NEW p \in Producers,
           NEW l \in {"idle", "fa_load", "fa_add", "cas_load", "cas",
                      "cap_load", "cap"},
           NEW v \in Nat, v <= tail,
           l \in {"fa_load", "fa_add", "cas_load", "cas"} => Capacity = UNBOUNDED,
           l \in {"cap_load", "cap"} => Capacity # UNBOUNDED,
           ppc' = [ppc EXCEPT ![p] = l], ppos' = [ppos EXCEPT ![p] = v],
           pfailed' \in [Producers -> BOOLEAN],
           UNCHANGED <<tail, cached, contended, head, phead, consVars>>
    PROVE  IndexInv'
<1>1. IndexTypeOK'
  BY DEF IndexInv, IndexTypeOK, ProducerPCs, consVars
<1>2. ModeInv'
  BY DEF IndexInv, IndexTypeOK, ModeInv, UnboundedPCs, BoundedPCs
<1>3. ClaimInv'
  BY DEF IndexInv, IndexTypeOK, ClaimInv, ClaimedPCs, FoundPCs
<1>4. TakeInv'
  BY TakeInvFrame DEF IndexInv, consumerIndices, consVars
<1>5. CapInv'
  BY DEF IndexInv, IndexTypeOK, CapInv, CapacityHeld
<1>6. QED
  BY <1>1, <1>2, <1>3, <1>4, <1>5 DEF IndexInv

\* A producer moves the tail over a sentinel and keeps looking.
LEMMA SentinelStep ==
    ASSUME IndexInv, NEW p \in Producers,
           NEW l \in {"fa_load", "cas", "cap"}, NEW v \in {tail, tail + 1},
           l \in UnboundedPCs => Capacity = UNBOUNDED,
           l \in BoundedPCs   => Capacity # UNBOUNDED,
           IsSentinel(tail), tail' = tail + 1,
           ppc' = [ppc EXCEPT ![p] = l], ppos' = [ppos EXCEPT ![p] = v],
           contended' \in 0..CONTENTION_WINDOW,
           UNCHANGED <<cached, head, phead, pfailed, consVars>>
    PROVE  IndexInv'
<1>1. IndexTypeOK'
  BY DEF IndexInv, IndexTypeOK, ProducerPCs, consVars
<1>2. ModeInv'
  BY DEF IndexInv, IndexTypeOK, ModeInv, BoundedPCs, UnboundedPCs
<1>3. ClaimInv'
  BY DEF IndexInv, IndexTypeOK, ClaimInv, ClaimedPCs, FoundPCs
<1>4. TakeInv'
  BY TakeInvFrame DEF IndexInv, consumerIndices, consVars
<1>5. CapInv'
  BY SentinelAddsNothing DEF IndexInv, IndexTypeOK, CapInv, CapacityHeld
<1>6. QED
  BY <1>1, <1>2, <1>3, <1>4, <1>5 DEF IndexInv

\* A producer claims the position at the tail; in a bounded queue it has seen
\* that there is room.
LEMMA ClaimStep ==
    ASSUME IndexInv, NEW p \in Producers,
           ~IsSentinel(tail), tail' = tail + 1,
           Capacity # UNBOUNDED => ItemsBetween(head, tail) < Capacity,
           ppc' = [ppc EXCEPT ![p] = "find"], ppos' = [ppos EXCEPT ![p] = tail],
           contended' \in 0..CONTENTION_WINDOW,
           pfailed' \in [Producers -> BOOLEAN],
           UNCHANGED <<cached, head, phead, consVars>>
    PROVE  IndexInv'
<1>1. IndexTypeOK'
  <2>1. ppc' \in [Producers -> ProducerPCs] /\ ppos' \in [Producers -> Nat]
    BY DEF IndexInv, IndexTypeOK, ProducerPCs, ClaimedPCs
  <2>2. tail' \in Nat
    BY DEF IndexInv, IndexTypeOK
  <2>3. QED
    BY <2>1, <2>2 DEF IndexInv, IndexTypeOK, consVars
<1>2. ModeInv'
  BY DEF IndexInv, IndexTypeOK, ModeInv, BoundedPCs, UnboundedPCs
<1>3. ClaimInv'
  <2>1. \A q \in Producers : ppc'[q] \in ClaimedPCs =>
          q = p \/ (ppc[q] \in ClaimedPCs /\ ppos'[q] = ppos[q] /\ ppos[q] < tail)
    BY DEF IndexInv, IndexTypeOK, ClaimInv
  <2>2. QED
    BY <2>1 DEF IndexInv, IndexTypeOK, ClaimInv
<1>4. TakeInv'
  BY TakeInvFrame DEF IndexInv, consumerIndices, consVars
<1>5. CapInv'
  <2>1. head \in Nat /\ tail \in Nat
    BY DEF IndexInv, IndexTypeOK
  <2>2. /\ ItemsBetween(head, tail) \in Nat /\ ItemsBetween(head, tail + 1) \in Nat
        /\ ItemsBetween(head, tail + 1) <= ItemsBetween(head, tail) + 1
    <3>1. tail + 1 \in Nat
      BY <2>1
    <3>2. ItemsBetween(head, tail) \in Nat /\ ItemsBetween(head, tail + 1) \in Nat
      BY <2>1, <3>1, ItemsBetweenIsNat
    <3>3. QED
      BY <2>1, <3>2, ClaimAddsOne
  <2>3. Capacity # UNBOUNDED => ItemsBetween(head, tail + 1) <= Capacity
    BY <2>2, CapacityAssumption
  <2>4. QED
    BY <2>3 DEF IndexInv, IndexTypeOK, CapInv, CapacityHeld
<1>6. QED
  BY <1>1, <1>2, <1>3, <1>4, <1>5 DEF IndexInv

\* The capacity check: a cached head that says there is room is old, so there
\* is room; otherwise the head itself is read, and cached.
LEMMA CapacityStep ==
    ASSUME IndexInv, NEW p \in Producers,
           CheckCached(p) \/ ReadHead(p) \/ StoreCached(p)
    PROVE  IndexInv'
<1>0. /\ IndexTypeOK /\ Capacity \in Nat
      /\ UNCHANGED <<tail, contended, head, ppos, pfailed, consVars>>
  BY CapacityAssumption
     DEF IndexInv, ModeInv, BoundedPCs, CheckCached, ReadHead, StoreCached,
         indexVars, headVars, claimLocals
<1>1. IndexTypeOK' /\ ModeInv' /\ ClaimInv'
  <2>1. CASE CheckCached(p)
    BY <1>0, <2>1 DEF CheckCached, IndexInv, IndexTypeOK, ModeInv, ClaimInv,
       ProducerPCs, ClaimedPCs, FoundPCs, UnboundedPCs, BoundedPCs,
       indexVars, claimLocals, consVars
  <2>2. CASE ReadHead(p)
    BY <1>0, <2>2 DEF ReadHead, IndexInv, IndexTypeOK, ModeInv, ClaimInv,
       ProducerPCs, ClaimedPCs, FoundPCs, UnboundedPCs, BoundedPCs,
       indexVars, consVars
  <2>3. CASE StoreCached(p)
    BY <1>0, <2>3 DEF StoreCached, IndexInv, IndexTypeOK, ModeInv, ClaimInv,
       ProducerPCs, ClaimedPCs, FoundPCs, UnboundedPCs, BoundedPCs, consVars
  <2>4. QED
    BY <2>1, <2>2, <2>3
<1>2. TakeInv'
  BY <1>0, TakeInvFrame DEF IndexInv, consumerIndices, consVars
<1>3. CapInv'
  <2>1. CASE CheckCached(p)
    <3>1. ItemsBetween(head, ppos[p]) <= ItemsBetween(cached, ppos[p])
      BY <1>0, OlderHeadCountsMore DEF IndexInv, IndexTypeOK, CapInv
    <3>2. /\ ItemsBetween(head, ppos[p]) \in Nat
          /\ ItemsBetween(cached, ppos[p]) \in Nat
      BY <1>0, ItemsBetweenIsNat DEF IndexTypeOK
    <3>3. QED
      BY <1>0, <2>1, <3>1, <3>2 DEF CheckCached, IndexInv, IndexTypeOK, CapInv,
         CapacityHeld, indexVars, claimLocals
  <2>2. CASE ReadHead(p)
    BY <1>0, <2>2 DEF ReadHead, IndexInv, IndexTypeOK, CapInv, CapacityHeld,
       indexVars
  <2>3. CASE StoreCached(p)
    BY <1>0, <2>3 DEF StoreCached, IndexInv, IndexTypeOK, CapInv, CapacityHeld
  <2>4. QED
    BY <2>1, <2>2, <2>3
<1>4. QED
  BY <1>1, <1>2, <1>3 DEF IndexInv

----------------------------------------------------------------------------
(* Every step of a producer keeps the invariant.                            *)

LEMMA ProducerStep ==
    ASSUME IndexInv, NEW p \in Producers, Producer(p)
    PROVE  IndexInv'
<1>0. /\ ppc \in [Producers -> ProducerPCs] /\ ppos \in [Producers -> Nat]
      /\ tail \in Nat /\ head \in Nat /\ contended \in 0..CONTENTION_WINDOW
      /\ pfailed \in [Producers -> BOOLEAN]
      /\ ppos[p] \in Nat /\ ppos[p] <= tail
      /\ 0 \in Nat /\ 0 <= tail /\ tail <= tail
  BY DEF IndexInv, IndexTypeOK, ClaimInv
<1>1. CASE StartPush(p)
  <2>1. /\ ppos' = [ppos EXCEPT ![p] = ppos[p]]
        /\ UNCHANGED <<tail, cached, contended, head, phead, pfailed, consVars>>
    BY <1>0, <1>1 DEF StartPush, claimLocals, indexVars, headVars
  <2>2. CASE Capacity # UNBOUNDED
    <3>1. ppc' = [ppc EXCEPT ![p] = "cap_load"]
      BY <1>1, <2>2 DEF StartPush
    <3>2. QED
      BY <1>0, <2>1, <2>2, <3>1, SeekStep
  <2>3. CASE Capacity = UNBOUNDED /\ contended = 0
    <3>1. ppc' = [ppc EXCEPT ![p] = "fa_load"]
      BY <1>1, <2>3 DEF StartPush
    <3>2. QED
      BY <1>0, <2>1, <2>3, <3>1, SeekStep
  <2>4. CASE Capacity = UNBOUNDED /\ contended # 0
    <3>1. ppc' = [ppc EXCEPT ![p] = "cas_load"]
      BY <1>1, <2>4 DEF StartPush
    <3>2. QED
      BY <1>0, <2>1, <2>4, <3>1, SeekStep
  <2>5. QED
    BY <2>2, <2>3, <2>4
<1>2. CASE LoadTail(p)
  <2>1. PICK l \in {"fa_add", "cas", "cap"} :
          /\ ppc' = [ppc EXCEPT ![p] = l]
          /\ l \in UnboundedPCs => ppc[p] \in UnboundedPCs
          /\ l \in BoundedPCs => ppc[p] \in BoundedPCs
    BY <1>2 DEF LoadTail, UnboundedPCs, BoundedPCs
  <2>2. /\ l \in {"fa_add", "cas"} => Capacity = UNBOUNDED
        /\ l = "cap" => Capacity # UNBOUNDED
    BY <2>1 DEF IndexInv, ModeInv, UnboundedPCs, BoundedPCs
  <2>3. /\ ppos' = [ppos EXCEPT ![p] = tail]
        /\ UNCHANGED <<tail, cached, contended, head, phead, pfailed, consVars>>
    BY <1>2 DEF LoadTail, indexVars, headVars
  <2>4. QED
    BY <1>0, <2>1, <2>2, <2>3, SeekStep
<1>3. CASE FetchAdd(p)
  <2>1. /\ contended' \in 0..CONTENTION_WINDOW
        /\ Capacity = UNBOUNDED
    BY <1>0, <1>3, WindowAssumption
       DEF FetchAdd, IndexInv, ModeInv, UnboundedPCs
  <2>2. CASE IsSentinel(tail)
    BY <1>3, <2>1, <2>2, SentinelStep DEF FetchAdd, headVars, BoundedPCs
  <2>3. CASE ~IsSentinel(tail)
    <3>1. /\ tail' = tail + 1 /\ ppc' = [ppc EXCEPT ![p] = "find"]
          /\ ppos' = [ppos EXCEPT ![p] = tail]
          /\ UNCHANGED <<cached, head, phead, pfailed, consVars>>
      BY <1>3, <2>3 DEF FetchAdd, headVars
    <3>2. pfailed' \in [Producers -> BOOLEAN]
      BY <3>1 DEF IndexInv, IndexTypeOK
    <3>3. QED
      BY <2>1, <2>3, <3>1, <3>2, ClaimStep
  <2>4. QED
    BY <2>2, <2>3
<1>4. CASE CasClaim(p)
  <2>1. Capacity = UNBOUNDED
    BY <1>4 DEF CasClaim, IndexInv, ModeInv, UnboundedPCs
  <2>2. CASE IsSentinel(tail)
    <3>1. /\ tail' = tail + 1 /\ ppc' = [ppc EXCEPT ![p] = "cas"]
          /\ ppos' = [ppos EXCEPT ![p] = tail + 1]
          /\ UNCHANGED <<cached, contended, head, phead, pfailed, consVars>>
      BY <1>0, <1>4, <2>2 DEF CasClaim, headVars
    <3>2. QED
      BY <1>0, <1>4, <2>1, <2>2, <3>1, SentinelStep DEF BoundedPCs
  <2>3. CASE ~IsSentinel(tail)
    <3>0. pfailed' \in [Producers -> BOOLEAN]
      BY <1>0, <1>4, <2>3 DEF CasClaim
    <3>1. contended' \in 0..CONTENTION_WINDOW
      <4>1. CASE pfailed[p]
        BY <1>4, <2>3, <4>1, WindowAssumption DEF CasClaim
      <4>2. CASE ~pfailed[p] /\ contended > 0
        BY <1>0, <1>4, <2>3, <4>2, WindowAssumption DEF CasClaim
      <4>3. CASE ~pfailed[p] /\ ~(contended > 0)
        BY <1>0, <1>4, <2>3, <4>3 DEF CasClaim
      <4>4. QED
        BY <4>1, <4>2, <4>3
    <3>2. ppos' = [ppos EXCEPT ![p] = tail]
      BY <1>0, <1>4, <2>3 DEF CasClaim
    <3>3. QED
      BY <1>4, <2>1, <2>3, <3>0, <3>1, <3>2, ClaimStep DEF CasClaim, headVars
  <2>4. QED
    BY <2>2, <2>3
<1>5. CASE CasFail(p)
  <2>1. Capacity = UNBOUNDED
    BY <1>5 DEF CasFail, IndexInv, ModeInv, UnboundedPCs
  <2>2. pfailed' \in [Producers -> BOOLEAN]
    BY <1>0, <1>5 DEF CasFail
  <2>3. /\ ppc' = [ppc EXCEPT ![p] = "cas"] /\ ppos' = [ppos EXCEPT ![p] = tail]
        /\ UNCHANGED <<tail, cached, contended, head, phead, consVars>>
    BY <1>5 DEF CasFail, indexVars, headVars
  <2>4. QED
    BY <1>0, <2>1, <2>2, <2>3, SeekStep
<1>6. CASE SkipSentinel(p)
  <2>1. Capacity # UNBOUNDED
    BY <1>6 DEF SkipSentinel, IndexInv, ModeInv, BoundedPCs
  <2>2. QED
    BY <1>0, <1>6, <2>1, SentinelStep DEF SkipSentinel, headVars, UnboundedPCs
<1>7. CASE SkipSentinelFail(p) \/ CapFail(p)
  <2>1. Capacity # UNBOUNDED
    BY <1>7 DEF SkipSentinelFail, CapFail, IndexInv, ModeInv, BoundedPCs
  <2>2. QED
    BY <1>0, <1>7, <2>1, SeekStep
       DEF SkipSentinelFail, CapFail, indexVars, headVars, UnboundedPCs
<1>8. CASE ReturnFull(p) \/ Publish(p)
  <2>1. /\ ppc' = [ppc EXCEPT ![p] = "idle"] /\ ppos' = [ppos EXCEPT ![p] = 0]
        /\ UNCHANGED <<tail, cached, contended, head, phead, pfailed, consVars>>
    BY <1>8 DEF ReturnFull, Publish, indexVars, headVars
  <2>2. QED
    BY <1>0, <2>1, SeekStep
<1>9. CASE CapClaim(p)
  <2>1. ppos' = [ppos EXCEPT ![p] = tail]
    BY <1>0, <1>9 DEF CapClaim, claimLocals
  <2>2. ~IsSentinel(tail) /\ ItemsBetween(head, tail) < Capacity
    BY <1>9 DEF CapClaim, IndexInv, ClaimInv, CapInv
  <2>3. QED
    BY <1>0, <1>9, <2>1, <2>2, ClaimStep DEF CapClaim, headVars, claimLocals
<1>10. CASE CheckCached(p) \/ ReadHead(p) \/ StoreCached(p)
  BY <1>10, CapacityStep
<1>11. CASE \/ LoadTailBlock(p) \/ FastCheck(p) \/ WalkCheck(p) \/ FollowPrev(p)
            \/ TakeSpare(p) \/ TakeReady(p) \/ TakeRetired(p) \/ Allocate(p)
            \/ ResetTaken(p) \/ Link(p) \/ SetStart(p) \/ SetNext(p)
            \/ SetTailBlock(p) \/ WriteValue(p)
  <2>1. /\ ppc[p] \in ClaimedPCs
        /\ \E l \in ClaimedPCs : ppc' = [ppc EXCEPT ![p] = l]
    BY <1>11
       DEF LoadTailBlock, FastCheck, WalkCheck, FollowPrev, TakeSpare,
           TakeReady, TakeRetired, Allocate, ResetTaken, Link, SetStart,
           SetNext, SetTailBlock, WriteValue, AfterFound, ClaimedPCs, FoundPCs
  <2>2. UNCHANGED <<tail, cached, contended, head, claimLocals, consVars>>
    BY <1>11
       DEF LoadTailBlock, FastCheck, WalkCheck, FollowPrev, TakeSpare,
           TakeReady, TakeRetired, Allocate, ResetTaken, Link, SetStart,
           SetNext, SetTailBlock, WriteValue, searchFrame, takeFrame,
           installFrame, indexVars, headVars
  <2>3. QED
    BY <2>1, <2>2, OwnerStep
<1>12. QED
  BY <1>1, <1>2, <1>3, <1>4, <1>5, <1>6, <1>7, <1>8, <1>9, <1>10, <1>11
     DEF Producer

----------------------------------------------------------------------------
(* Every step of a consumer keeps the invariant.                            *)

\* A producer's part of the invariant needs only that the head does not go
\* back: what it knows about the head is then still true of an older head.
LEMMA CapInvFrame ==
    ASSUME IndexTypeOK, CapInv, head' \in Nat, head <= head',
           UNCHANGED <<indexVars, prodVars>>
    PROVE  CapInv'
<1>1. Capacity # UNBOUNDED => Capacity \in Nat
  BY CapacityAssumption
<1>2. \A t \in Nat : /\ ItemsBetween(head', t) <= ItemsBetween(head, t)
                     /\ ItemsBetween(head', t) \in Nat
                     /\ ItemsBetween(head, t) \in Nat
  BY OlderHeadCountsMore, ItemsBetweenIsNat DEF IndexTypeOK
<1>3. \A p \in Producers :
        ppc[p] \in {"cap_store", "cap_cas"} =>
          ItemsBetween(head', ppos[p]) < Capacity
  <2>1. SUFFICES ASSUME NEW p \in Producers,
                        ppc[p] \in {"cap_store", "cap_cas"}
                 PROVE  ItemsBetween(head', ppos[p]) < Capacity
    OBVIOUS
  <2>2. ItemsBetween(head, ppos[p]) < Capacity /\ ppos[p] \in Nat
    BY <2>1 DEF IndexTypeOK, CapInv
  <2>3. Capacity \in Nat \cup {UNBOUNDED}
    BY CapacityAssumption
  <2>4. QED
    BY <1>2, <2>2, <2>3 DEF UNBOUNDED
<1>4. CapacityHeld'
  BY <1>1, <1>2 DEF IndexTypeOK, CapInv, CapacityHeld, indexVars
<1>5. QED
  BY <1>3, <1>4 DEF IndexTypeOK, CapInv, indexVars, prodVars, claimLocals

\* A consumer that holds no position, or gives up its position, goes anywhere
\* in pop but past its claim.
LEMMA LookStep ==
    ASSUME IndexInv, NEW c \in Consumers,
           NEW l \in {"idle", "block", "spin", "slot", "recheck", "cas"},
           NEW v \in Nat, v <= head,
           l \in {"slot", "recheck", "cas"} => ~IsSentinel(v),
           cpc' = [cpc EXCEPT ![c] = l], cpos' = [cpos EXCEPT ![c] = v],
           ccount' \in [Consumers -> 0..SNOOZE_LIMIT],
           UNCHANGED <<indexVars, head, prodVars>>
    PROVE  IndexInv'
<1>1. IndexTypeOK'
  BY DEF IndexInv, IndexTypeOK, ConsumerPCs, indexVars, prodVars, claimLocals
<1>2. ModeInv' /\ ClaimInv'
  BY ClaimInvFrame
     DEF IndexInv, producerIndices, indexVars, prodVars, claimLocals
<1>3. TakeInv'
  <2>1. \A d \in Consumers : d # c => cpc'[d] = cpc[d] /\ cpos'[d] = cpos[d]
    BY DEF IndexInv, IndexTypeOK
  <2>2. cpc'[c] = l /\ cpos'[c] = v
    BY DEF IndexInv, IndexTypeOK
  <2>3. QED
    BY <2>1, <2>2 DEF IndexInv, IndexTypeOK, TakeInv, Moving, TakenPCs
<1>4. CapInv'
  BY CapInvFrame DEF IndexInv, IndexTypeOK
<1>5. QED
  BY <1>1, <1>2, <1>3, <1>4 DEF IndexInv

\* A consumer keeps its position until it returns; it begins to move the head
\* only if the position is the last slot of its block.
LEMMA HolderStep ==
    ASSUME IndexInv, NEW c \in Consumers, NEW l \in TakenPCs \ {"read"},
           cpc[c] \in TakenPCs, l \in {"next", "advance"} => Moving(c),
           cpc' = [cpc EXCEPT ![c] = l],
           UNCHANGED <<indexVars, head, prodVars, cpos, ccount>>
    PROVE  IndexInv'
<1>1. IndexTypeOK'
  BY DEF IndexInv, IndexTypeOK, ConsumerPCs, TakenPCs, indexVars, prodVars,
         claimLocals
<1>2. ModeInv' /\ ClaimInv'
  BY ClaimInvFrame
     DEF IndexInv, producerIndices, indexVars, prodVars, claimLocals
<1>3. TakeInv'
  <2>1. \A d \in Consumers : d # c => cpc'[d] = cpc[d]
    BY DEF IndexInv, IndexTypeOK
  <2>2. cpc'[c] = l
    BY DEF IndexInv, IndexTypeOK
  <2>3. QED
    BY <2>1, <2>2 DEF IndexInv, IndexTypeOK, TakeInv, Moving, TakenPCs
<1>4. CapInv'
  BY CapInvFrame DEF IndexInv, IndexTypeOK
<1>5. QED
  BY <1>1, <1>2, <1>3, <1>4 DEF IndexInv

\* The CAS takes the position at the head.  No one is moving the head then:
\* the head would rest on a sentinel.
LEMMA TakeStep ==
    ASSUME IndexInv, NEW c \in Consumers, ClaimHead(c)
    PROVE  IndexInv' /\ head' = head + 1
<1>0. /\ IndexTypeOK /\ TakeInv
      /\ cpc[c] = "cas" /\ cpc' = [cpc EXCEPT ![c] = "read"]
      /\ head = cpos[c] /\ head' = head + 1 /\ cpos' = cpos
      /\ UNCHANGED <<indexVars, prodVars, ccount>>
  BY DEF IndexInv, ClaimHead
<1>1. IndexTypeOK'
  BY <1>0 DEF IndexTypeOK, ConsumerPCs, TakenPCs, indexVars, prodVars,
              claimLocals
<1>2. ModeInv' /\ ClaimInv'
  BY <1>0, ClaimInvFrame
     DEF IndexInv, producerIndices, indexVars, prodVars, claimLocals
<1>3. TakeInv'
  <2>1. \A d \in Consumers : ~Moving(d)
    <3>1. ~IsSentinel(head)
      BY <1>0 DEF TakeInv
    <3>2. ASSUME NEW d \in Consumers, Moving(d)
          PROVE  FALSE
      <4>1. head = cpos[d] + 1 /\ IsLastSlot(cpos[d]) /\ cpos[d] \in Nat
        BY <1>0, <3>2 DEF TakeInv, Moving, IndexTypeOK
      <4>2. QED
        BY <3>1, <4>1, SentinelFollowsLastSlot
    <3>3. QED
      BY <3>2
  <2>2. \A d \in Consumers : d # c => cpc'[d] = cpc[d]
    BY <1>0 DEF IndexTypeOK
  <2>3. cpc'[c] = "read"
    BY <1>0 DEF IndexTypeOK
  <2>4. \A d \in Consumers : Moving(d)' => d = c
    BY <1>0, <2>1, <2>2 DEF Moving
  <2>5. QED
    BY <1>0, <2>2, <2>3, <2>4 DEF IndexTypeOK, TakeInv, Moving, TakenPCs
<1>4. CapInv'
  BY <1>0, CapInvFrame DEF IndexInv, IndexTypeOK
<1>5. QED
  BY <1>0, <1>1, <1>2, <1>3, <1>4 DEF IndexInv

\* finish_block moves the head by one, off the sentinel; only one consumer
\* can be at it.
LEMMA MoveStep ==
    ASSUME IndexInv, NEW c \in Consumers, MoveHeadIndex(c)
    PROVE  IndexInv' /\ head' = head + 1
<1>0. /\ IndexTypeOK /\ TakeInv
      /\ cpc[c] = "advance" /\ cpc' = [cpc EXCEPT ![c] = "readers"]
      /\ head' = cpos[c] + 2 /\ cpos' = cpos
      /\ UNCHANGED <<indexVars, prodVars, ccount>>
  BY DEF IndexInv, MoveHeadIndex
<1>1. head = cpos[c] + 1 /\ cpos[c] \in Nat /\ head' = head + 1
  BY <1>0 DEF TakeInv, Moving, IndexTypeOK
<1>2. IndexTypeOK'
  BY <1>0, <1>1 DEF IndexTypeOK, ConsumerPCs, TakenPCs, indexVars, prodVars,
              claimLocals
<1>3. ModeInv' /\ ClaimInv'
  BY <1>0, ClaimInvFrame
     DEF IndexInv, producerIndices, indexVars, prodVars, claimLocals
<1>4. TakeInv'
  <2>1. \A d \in Consumers : d # c => cpc'[d] = cpc[d]
    BY <1>0 DEF IndexTypeOK
  <2>2. cpc'[c] = "readers"
    BY <1>0 DEF IndexTypeOK
  <2>3. ASSUME NEW d \in Consumers, Moving(d)
        PROVE  d = c
    <3>1. cpos[d] = cpos[c]
      <4>1. head = cpos[d] + 1 /\ cpos[d] \in Nat
        BY <1>0, <2>3 DEF IndexTypeOK, TakeInv
      <4>2. QED
        BY <1>1, <4>1
    <3>2. cpc[c] \in TakenPCs /\ cpc[d] \in TakenPCs
      BY <1>0, <2>3 DEF Moving, TakenPCs
    <3>3. QED
      BY <1>0, <3>1, <3>2 DEF TakeInv
  <2>4. \A d \in Consumers : ~Moving(d)'
    BY <1>0, <2>1, <2>2, <2>3 DEF Moving
  <2>5. QED
    BY <1>0, <1>1, <2>1, <2>2, <2>4 DEF IndexTypeOK, TakeInv, Moving, TakenPCs
<1>5. CapInv'
  BY <1>0, <1>1, CapInvFrame DEF IndexInv, IndexTypeOK
<1>6. QED
  BY <1>1, <1>2, <1>3, <1>4, <1>5 DEF IndexInv

LEMMA ConsumerStep ==
    ASSUME IndexInv, NEW c \in Consumers, Consumer(c)
    PROVE  IndexInv'
<1>0. /\ cpc \in [Consumers -> ConsumerPCs] /\ cpos \in [Consumers -> Nat]
      /\ ccount \in [Consumers -> 0..SNOOZE_LIMIT]
      /\ head \in Nat /\ 0 \in Nat /\ 0 <= head /\ head <= head
      /\ cpos[c] \in Nat /\ cpos[c] <= head
      /\ 0 \in 0..SNOOZE_LIMIT
  BY SnoozeAssumption DEF IndexInv, IndexTypeOK, TakeInv
<1>1. CASE StartPop(c) \/ PollSentinel(c) \/ LookAgain(c) \/ ClaimFail(c)
  <2>1. /\ cpc' = [cpc EXCEPT ![c] = "block"] /\ cpos' = [cpos EXCEPT ![c] = head]
        /\ UNCHANGED <<indexVars, head, prodVars>>
    BY <1>1 DEF StartPop, PollSentinel, LookAgain, ClaimFail, lookFrame, headVars
  <2>2. ccount' \in [Consumers -> 0..SNOOZE_LIMIT]
    BY <1>0, <1>1, SnoozeAssumption
       DEF StartPop, PollSentinel, LookAgain, ClaimFail
  <2>3. QED
    BY <1>0, <2>1, <2>2, LookStep
<1>2. CASE LoadHeadBlock(c)
  <2>1. /\ cpos' = [cpos EXCEPT ![c] = cpos[c]]
        /\ UNCHANGED <<indexVars, head, prodVars, ccount>>
    BY <1>0, <1>2 DEF LoadHeadBlock, lookFrame, headVars
  <2>2. CASE IsSentinel(cpos[c])
    <3>1. cpc' = [cpc EXCEPT ![c] = "spin"]
      BY <1>2, <2>2 DEF LoadHeadBlock
    <3>2. QED
      BY <1>0, <2>1, <3>1, LookStep
  <2>3. CASE ~IsSentinel(cpos[c])
    <3>1. cpc' = [cpc EXCEPT ![c] = "slot"]
      BY <1>2, <2>3 DEF LoadHeadBlock
    <3>2. QED
      BY <1>0, <2>1, <2>3, <3>1, LookStep
  <2>4. QED
    BY <2>2, <2>3
<1>3. CASE CheckSlot(c)
  <2>1. /\ cpos' = [cpos EXCEPT ![c] = cpos[c]]
        /\ UNCHANGED <<indexVars, head, prodVars, ccount>>
        /\ ~IsSentinel(cpos[c])
    BY <1>0, <1>3 DEF CheckSlot, lookFrame, headVars, IndexInv, TakeInv
  <2>2. \/ cpc' = [cpc EXCEPT ![c] = "cas"]
        \/ cpc' = [cpc EXCEPT ![c] = "recheck"]
    BY <1>3 DEF CheckSlot
  <2>3. QED
    BY <1>0, <2>1, <2>2, LookStep
<1>4. CASE \/ GiveUpOnSentinel(c) \/ ReturnNone(c) \/ MarkRead(c) \/ Retire(c)
           \/ Recycle(c) \/ RecycleSlow(c)
  <2>1. /\ cpc' = [cpc EXCEPT ![c] = "idle"] /\ cpos' = [cpos EXCEPT ![c] = 0]
        /\ UNCHANGED <<indexVars, head, prodVars>>
    BY <1>4 DEF GiveUpOnSentinel, ReturnNone, MarkRead, Retire, Recycle,
                RecycleSlow, ForgetLocals, headVars
  <2>2. ccount' \in [Consumers -> 0..SNOOZE_LIMIT]
    BY <1>0, <1>4 DEF GiveUpOnSentinel, ReturnNone, MarkRead, Retire, Recycle,
                      RecycleSlow, ForgetLocals
  <2>3. QED
    BY <1>0, <2>1, <2>2, LookStep
<1>5. CASE ClaimHead(c)
  BY <1>5, TakeStep
<1>6. CASE MoveHeadIndex(c)
  BY <1>6, MoveStep
<1>7. CASE ReadValue(c) \/ MoveHeadBlock(c)
  <2>1. /\ cpc[c] \in TakenPCs /\ UNCHANGED <<indexVars, head, prodVars, cpos, ccount>>
    BY <1>7 DEF ReadValue, MoveHeadBlock, TakenPCs, headVars
  <2>2. CASE Moving(c)
    <3>1. \/ cpc' = [cpc EXCEPT ![c] = "next"]
          \/ cpc' = [cpc EXCEPT ![c] = "advance"]
      BY <1>7, <2>2 DEF ReadValue, MoveHeadBlock, Moving
    <3>2. QED
      BY <2>1, <2>2, <3>1, HolderStep DEF TakenPCs
  <2>3. CASE ~Moving(c)
    <3>1. cpc' = [cpc EXCEPT ![c] = "mark"]
      BY <1>7, <2>3 DEF ReadValue, MoveHeadBlock, Moving
    <3>2. QED
      BY <2>1, <3>1, HolderStep DEF TakenPCs
  <2>4. QED
    BY <2>2, <2>3
<1>8. CASE CheckReaders(c) \/ Reset(c) \/ RecycleFail(c)
  <2>1. /\ cpc[c] \in TakenPCs /\ UNCHANGED <<indexVars, head, prodVars, cpos, ccount>>
    BY <1>8 DEF CheckReaders, Reset, RecycleFail, TakenPCs, headVars
  <2>2. \E l \in {"reset", "retire", "recycle", "recycle_slow"} :
          cpc' = [cpc EXCEPT ![c] = l]
    BY <1>8 DEF CheckReaders, Reset, RecycleFail
  <2>3. QED
    BY <2>1, <2>2, HolderStep DEF TakenPCs
<1>9. QED
  BY <1>1, <1>2, <1>3, <1>4, <1>5, <1>6, <1>7, <1>8 DEF Consumer

----------------------------------------------------------------------------
(* Theorems.                                                                *)

LEMMA InitEstablishes == Init => IndexInv
<1> SUFFICES ASSUME Init PROVE IndexInv
  OBVIOUS
<1>1. IndexTypeOK
  BY WindowAssumption, SnoozeAssumption
     DEF Init, IndexTypeOK, ProducerPCs, ConsumerPCs
<1>2. ModeInv /\ ClaimInv
  BY DEF Init, ModeInv, ClaimInv, UnboundedPCs, BoundedPCs, ClaimedPCs, FoundPCs
<1>3. TakeInv
  BY DEF Init, TakeInv, Moving, TakenPCs
<1>4. CapInv
  BY CapacityAssumption DEF Init, CapInv, CapacityHeld, ItemsBetween
<1>5. QED
  BY <1>1, <1>2, <1>3, <1>4 DEF IndexInv

LEMMA NextKeeps == IndexInv /\ [Next]_vars => IndexInv'
<1> SUFFICES ASSUME IndexInv, [Next]_vars PROVE IndexInv'
  OBVIOUS
<1>1. CASE UNCHANGED vars
  <2>1. IndexTypeOK'
    BY <1>1 DEF IndexInv, IndexTypeOK, vars, indexVars, headVars, prodVars,
       claimLocals, consVars
  <2>2. ModeInv' /\ ClaimInv'
    BY <1>1, ClaimInvFrame DEF IndexInv, producerIndices, vars, indexVars,
       prodVars, claimLocals
  <2>3. TakeInv'
    BY <1>1, TakeInvFrame DEF IndexInv, consumerIndices, vars, headVars, consVars
  <2>4. CapInv'
    BY <1>1, CapInvFrame DEF IndexInv, IndexTypeOK, vars, headVars
  <2>5. QED
    BY <2>1, <2>2, <2>3, <2>4 DEF IndexInv
<1>2. CASE Next
  BY <1>2, ProducerStep, ConsumerStep DEF Next
<1>3. QED
  BY <1>1, <1>2

\* The indices, counters and program counters keep their types, and every claim
\* excludes every other (push and pop, queue.rs:536-675, 784-852, 969-995).
THEOREM IndexInvariant == Spec => []IndexInv
<1>1. QED
  BY InitEstablishes, NextKeeps, PTL DEF Spec

\* A bounded queue never holds more values than its capacity, for any capacity
\* and any number of producers that race past the check (queue.rs:632-675).
THEOREM CapacityIsHeld == Spec => []CapacityHeld
<1>1. IndexInv => CapacityHeld
  BY DEF IndexInv, CapInv
<1>2. QED
  BY <1>1, IndexInvariant, PTL

\* No two producers own one position, nor do two consumers, and none owns a
\* sentinel: a claim is exclusive (queue.rs:580-675, 822).
ClaimsAreExclusive ==
    /\ \A p, q \in Producers :
         (p # q /\ ppc[p] \in ClaimedPCs /\ ppc[q] \in ClaimedPCs)
            => ppos[p] # ppos[q]
    /\ \A c, d \in Consumers :
         (c # d /\ cpc[c] \in TakenPCs /\ cpc[d] \in TakenPCs)
            => cpos[c] # cpos[d]
    /\ \A p \in Producers : ppc[p] \in ClaimedPCs => ~IsSentinel(ppos[p])

THEOREM ExclusiveClaims == Spec => []ClaimsAreExclusive
<1>1. IndexInv => ClaimsAreExclusive
  BY DEF IndexInv, ClaimInv, TakeInv, ClaimsAreExclusive
<1>2. QED
  BY <1>1, IndexInvariant, PTL

\* The only way from the capacity check back to the caller is ReturnFull.
LEMMA OnlyFullReturns ==
    ASSUME IndexTypeOK, NEW p \in Producers, NEW q \in Producers, Producer(q),
           ppc[p] \in {"cap", "cap_head", "cap_cas"}, ppc'[p] = "idle"
    PROVE  ReturnFull(p)
<1>1. \E from, to \in ProducerPCs : PStep(q, from, to)
  BY DEF Producer, StartPush, LoadTail, FetchAdd, CasClaim, CasFail,
     SkipSentinel, SkipSentinelFail, CheckCached, ReturnFull, ReadHead,
     StoreCached, CapClaim, CapFail, LoadTailBlock, FastCheck, WalkCheck,
     FollowPrev, TakeSpare, TakeReady, TakeRetired, Allocate, ResetTaken, Link,
     SetStart, SetNext, SetTailBlock, WriteValue, Publish, AfterFound,
     ProducerPCs, ClaimedPCs, FoundPCs
<1>2. q = p
  BY <1>1 DEF IndexTypeOK
<1>3. \/ SkipSentinel(p) \/ SkipSentinelFail(p) \/ CheckCached(p)
      \/ ReturnFull(p) \/ ReadHead(p) \/ CapClaim(p) \/ CapFail(p)
  BY <1>2 DEF Producer, StartPush, LoadTail, FetchAdd, CasClaim, CasFail,
     StoreCached, LoadTailBlock, FastCheck, WalkCheck,
     FollowPrev, TakeSpare, TakeReady, TakeRetired, Allocate, ResetTaken, Link,
     SetStart, SetNext, SetTailBlock, WriteValue, Publish
<1>4. QED
  BY <1>3 DEF IndexTypeOK, SkipSentinel, SkipSentinelFail, CheckCached,
     ReadHead, CapClaim, CapFail

LEMMA ConsumersLeaveProducers ==
    ASSUME NEW c \in Consumers, Consumer(c)
    PROVE  UNCHANGED prodVars
BY DEF Consumer, StartPop, LoadHeadBlock, PollSentinel, GiveUpOnSentinel,
   CheckSlot, ReturnNone, LookAgain, ClaimFail, ClaimHead, ReadValue, MarkRead,
   MoveHeadBlock, MoveHeadIndex, CheckReaders, Retire, Reset, Recycle,
   RecycleFail, RecycleSlow, lookFrame

\* Full is never reported of a queue that has room: the tail a producer
\* compares is at most the real one (queue.rs:650-661).
THEOREM FullVerdict == Spec => FullVerdictIsExact
<1>1. ASSUME IndexInv, [Next]_vars, NEW p \in Producers,
             ppc[p] \in {"cap", "cap_head", "cap_cas"}, ppc'[p] = "idle"
      PROVE  ItemsBetween(head, tail) >= Capacity
  <2>1. PICK q \in Producers : Producer(q)
    BY <1>1, ConsumersLeaveProducers DEF Next, vars, prodVars
  <2>2. ReturnFull(p)
    BY <1>1, <2>1, OnlyFullReturns DEF IndexInv
  <2>3. ItemsBetween(head, ppos[p]) >= Capacity
    BY <2>2 DEF ReturnFull
  <2>4. /\ ItemsBetween(head, ppos[p]) <= ItemsBetween(head, tail)
        /\ ItemsBetween(head, ppos[p]) \in Nat /\ ItemsBetween(head, tail) \in Nat
    BY <1>1, NewerTailCountsMore, ItemsBetweenIsNat
       DEF IndexInv, IndexTypeOK, ClaimInv
  <2>5. Capacity \in Nat \cup {-1}
    BY CapacityAssumption DEF UNBOUNDED
  <2>6. QED
    BY <2>3, <2>4, <2>5
<1>2. IndexInv /\ [Next]_vars =>
        [\A p \in Producers :
           (ppc[p] \in {"cap", "cap_head", "cap_cas"} /\ ppc'[p] = "idle")
             => ItemsBetween(head, tail) >= Capacity]_vars
  BY <1>1
<1>3. QED
  BY <1>2, IndexInvariant, PTL DEF Spec, FullVerdictIsExact

LEMMA ConsumersStepHead ==
    ASSUME IndexInv, NEW c \in Consumers, Consumer(c)
    PROVE  head' \in {head, head + 1}
<1>1. CASE ClaimHead(c)
  BY <1>1, TakeStep
<1>2. CASE MoveHeadIndex(c)
  BY <1>2, MoveStep
<1>3. CASE ~ClaimHead(c) /\ ~MoveHeadIndex(c)
  BY <1>3 DEF Consumer, StartPop, LoadHeadBlock, PollSentinel,
     GiveUpOnSentinel, CheckSlot, ReturnNone, LookAgain, ClaimFail, ReadValue,
     MarkRead, MoveHeadBlock, CheckReaders, Retire, Reset, Recycle,
     RecycleFail, RecycleSlow, lookFrame, headVars
<1>4. QED
  BY <1>1, <1>2, <1>3

LEMMA ProducersLeaveHead ==
    ASSUME NEW p \in Producers, Producer(p)
    PROVE  head' = head
BY DEF Producer, StartPush, LoadTail, FetchAdd, CasClaim, CasFail,
   SkipSentinel, SkipSentinelFail, CheckCached, ReturnFull, ReadHead,
   StoreCached, CapClaim, CapFail, LoadTailBlock, FastCheck, WalkCheck,
   FollowPrev, TakeSpare, TakeReady, TakeRetired, Allocate, ResetTaken, Link,
   SetStart, SetNext, SetTailBlock, WriteValue, Publish, searchFrame,
   takeFrame, installFrame, headVars

\* The head never goes back and never skips a position, although the move over
\* a sentinel is a swap that does not look at the old index (queue.rs:983).
THEOREM HeadStepsByOne == Spec => [][head' \in {head, head + 1}]_vars
<1>1. IndexInv /\ [Next]_vars => [head' \in {head, head + 1}]_vars
  BY ConsumersStepHead, ProducersLeaveHead DEF Next
<1>2. QED
  BY <1>1, IndexInvariant, PTL DEF Spec

----------------------------------------------------------------------------
\* The frames of the actions, and the steps they are written with.
USE DEF ForgetLocals, vars, indexVars, headVars, linkVars, slotVars, poolVars,
        blockVars, claimLocals, prodVars, consVars, searchFrame, takeFrame,
        installFrame, lookFrame

----------------------------------------------------------------------------
(* What every step leaves true of the claims, and what follows from it.     *)

\* Claims are made at the tail, kept until the push is over, and never fall
\* behind the store of the next block's start.
ClaimsKept ==
    /\ tail' \in {tail, tail + 1}
    /\ \A q \in Producers : ppc'[q] \in ClaimedPCs =>
         \/ /\ ppc[q] \in ClaimedPCs /\ ppos'[q] = ppos[q]
            /\ ppc[q] \in StartedPCs => ppc'[q] \in StartedPCs
         \/ ~IsSentinel(tail) /\ ppos'[q] = tail /\ tail' = tail + 1

\* The steps of the claim loops.
Loops(p) ==
    \/ StartPush(p) \/ LoadTail(p) \/ FetchAdd(p) \/ CasClaim(p) \/ CasFail(p)
    \/ SkipSentinel(p) \/ SkipSentinelFail(p) \/ CheckCached(p)
    \/ ReturnFull(p) \/ ReadHead(p) \/ StoreCached(p)
    \/ CapClaim(p) \/ CapFail(p)

\* A claim loop moves only the tail and its own locals; it ends with a claim.
LoopFrame(p) ==
    /\ ClaimsKept
    /\ ppc[p] \notin ClaimedPCs
    /\ \E l \in (ProducerPCs \ ClaimedPCs) \cup {"find"} :
         ppc' = [ppc EXCEPT ![p] = l]
    /\ \E i \in Nat : ppos' = [ppos EXCEPT ![p] = i]
    /\ UNCHANGED <<tailBlock, headVars, blockVars, poolVars, pblk, pnew, consVars>>

LEMMA LoopClaims ==
    ASSUME IndexInv, NEW p \in Producers, Loops(p)
    PROVE  LoopFrame(p)
BY DEF LoopFrame, Loops, StartPush, LoadTail, FetchAdd, CasClaim, CasFail, SkipSentinel,
       SkipSentinelFail, CheckCached, ReturnFull, ReadHead, StoreCached,
       CapClaim, CapFail, ClaimsKept, IndexInv, IndexTypeOK, ClaimInv,
       ProducerPCs, ClaimedPCs, FoundPCs, StartedPCs

\* The owner of a position goes on without touching the tail.
LEMMA OwnerClaims ==
    ASSUME IndexTypeOK, NEW p \in Producers, NEW l, UNCHANGED <<tail, ppos>>,
           ppc' = [ppc EXCEPT ![p] = l], ppc[p] \in ClaimedPCs,
           ppc[p] \in StartedPCs => l \in StartedPCs \cup {"idle"}
    PROVE  ClaimsKept
BY DEF IndexTypeOK, ClaimsKept, StartedPCs, ClaimedPCs, FoundPCs

\* Nor does a consumer.
LEMMA ConsumerClaims ==
    ASSUME UNCHANGED <<indexVars, prodVars>>
    PROVE  ClaimsKept
BY DEF ClaimsKept

\* A lap that has begun stays so: no position of it is claimed again.
LEMMA BegunStays ==
    ASSUME IndexTypeOK, ClaimsKept, NEW s \in Nat, LapBegun(s)
    PROVE  LapBegun(s)'
BY DEF IndexTypeOK, ClaimsKept, LapBegun, ClaimedPCs, FoundPCs, StartedPCs

\* No block is given to a new lap.
LEMMA LapFrame ==
    ASSUME IndexTypeOK, LapInv, ClaimsKept,
           \A b \in Blocks : start'[b] \in {start[b], POOLED}
    PROVE  LapInv'
BY BegunStays DEF LapInv

\* No slot is written, and no block is given to a new lap.
LEMMA TagFrame ==
    ASSUME IndexTypeOK, TagInv, ClaimsKept, UNCHANGED slotVars,
           \A b \in Blocks : start'[b] \in {start[b], POOLED}
    PROVE  TagInv'
<1>1. SUFFICES ASSUME NEW b \in Blocks, NEW s \in Slots, state'[b][s] # 0
               PROVE  \E pos \in 0..(tail' - 1) : StandsFor(b, s, pos)'
  BY DEF TagInv
<1>2. PICK pos \in 0..(tail - 1) : StandsFor(b, s, pos)
  BY <1>1 DEF TagInv
<1>3. pos \in Nat /\ pos < tail /\ pos \in 0..(tail' - 1)
  <2>1. tail \in Nat
    BY DEF IndexTypeOK
  <2>2. pos \in Nat /\ pos < tail
    BY <2>1
  <2>3. tail' \in Nat /\ pos < tail'
    BY <2>1, <2>2 DEF ClaimsKept
  <2>4. QED
    BY <2>2, <2>3, BelowTail
<1>4. LapStart(pos) \in Nat
  BY <1>3, OffsetsAndLaps
<1>5. LapBegun(LapStart(pos))'
  BY <1>2, <1>4, BegunStays DEF StandsFor
<1>6. \A p \in Producers : ppc'[p] \in ClaimedPCs => ppos'[p] # pos
  BY <1>2, <1>3 DEF IndexTypeOK, ClaimsKept, StandsFor
<1>7. start'[b] = LapStart(pos) => value'[b][s] = pos
  BY <1>2, <1>4 DEF POOLED, StandsFor
<1>8. QED
  BY <1>2, <1>3, <1>5, <1>6, <1>7 DEF StandsFor

\* The head stays, and so does its block.
LEMMA HeadFrame ==
    ASSUME IndexTypeOK, HeadInv, ClaimsKept, UNCHANGED headVars,
           start'[headBlock] = start[headBlock],
           \A c \in Consumers : cpc'[c] = "advance" <=> cpc[c] = "advance"
    PROVE  HeadInv'
<1>1. head' <= tail' \/ (head' = tail' + 1 /\ IsSentinel(tail)')
  <2>1. CASE tail' = tail
    BY <2>1 DEF HeadInv, IsSentinel, Offset
  <2>2. CASE tail' = tail + 1
    BY <2>2 DEF IndexTypeOK, HeadInv
  <2>3. QED
    BY <2>1, <2>2 DEF ClaimsKept
<1>2. \A p \in Producers : ppc'[p] \in ClaimedPCs => head' <= ppos'[p]
  <2>1. SUFFICES ASSUME NEW p \in Producers, ppc'[p] \in ClaimedPCs
                 PROVE  head <= ppos'[p]
    OBVIOUS
  <2>2. CASE ppc[p] \in ClaimedPCs /\ ppos'[p] = ppos[p]
    BY <2>2 DEF HeadInv
  <2>3. CASE ~IsSentinel(tail) /\ ppos'[p] = tail
    BY <2>3 DEF HeadInv
  <2>4. QED
    BY <2>1, <2>2, <2>3 DEF ClaimsKept
<1>3. start'[headBlock'] = IF \E c \in Consumers : cpc'[c] = "advance"
                           THEN head' + 1 ELSE LapStart(head')
  BY DEF HeadInv
<1>4. QED
  BY <1>1, <1>2, <1>3 DEF HeadInv, LapStart, Offset

----------------------------------------------------------------------------
(* Facts of one state.                                                      *)

\* The head is in a block that serves a lap.
LEMMA HeadServes ==
    ASSUME IndexInv, BlockInv
    PROVE  /\ headBlock \in Blocks /\ start[headBlock] \in Nat
           /\ Offset(start[headBlock]) = 0
<1>1. head \in Nat /\ LapStart(head) \in Nat
  BY OffsetsAndLaps DEF IndexInv, IndexTypeOK
<1>2. start[headBlock] \in Nat
  BY <1>1 DEF BlockInv, HeadInv
<1>3. QED
  BY <1>2 DEF BlockInv, BlockTypeOK, LapInv, POOLED

\* The block of a claimed position is not behind the head's.
LEMMA ClaimedAhead ==
    ASSUME IndexInv, BlockInv, NEW p \in Producers, ppc[p] \in ClaimedPCs
    PROVE  start[headBlock] <= LapStart(ppos[p])
<1>1. /\ ppos[p] \in Nat /\ head \in Nat /\ head <= ppos[p] /\ ~IsSentinel(ppos[p])
  BY DEF IndexInv, IndexTypeOK, ClaimInv, BlockInv, HeadInv
<1>2. CASE \E c \in Consumers : cpc[c] = "advance"
  <2>1. PICK c \in Consumers : cpc[c] = "advance"
    BY <1>2
  <2>2. head = cpos[c] + 1 /\ cpos[c] \in Nat /\ IsLastSlot(cpos[c])
    BY <2>1 DEF IndexInv, IndexTypeOK, TakeInv, Moving
  <2>3. IsSentinel(head)
    BY <2>2, SentinelFollowsLastSlot
  <2>4. QED
    BY <1>1, <1>2, <2>3, LapsInOrder DEF BlockInv, HeadInv
<1>3. CASE ~\E c \in Consumers : cpc[c] = "advance"
  BY <1>1, <1>3, LapsInOrder DEF BlockInv, HeadInv
<1>4. QED
  BY <1>2, <1>3

----------------------------------------------------------------------------
(* The claim loops touch no block.                                          *)

\* Whatever the loop goes by.
LEMMA LoopFrameKeeps ==
    ASSUME IndexTypeOK, BlockInv, NEW p \in Producers, LoopFrame(p)
    PROVE  BlockInv'
<1>1. /\ IndexTypeOK /\ ClaimsKept /\ ppc[p] \notin ClaimedPCs
      /\ UNCHANGED <<tailBlock, headVars, blockVars, poolVars, pblk, pnew,
                     consVars>>
  BY DEF LoopFrame
<1>2. PICK l \in (ProducerPCs \ ClaimedPCs) \cup {"find"} :
        ppc' = [ppc EXCEPT ![p] = l]
  BY DEF LoopFrame
<1>3. \A q \in Producers \ {p} : ppos'[q] = ppos[q]
  BY DEF LoopFrame, IndexTypeOK
<1>4. BlockTypeOK' /\ PointerInv'
  BY <1>1, <1>2, <1>3
     DEF BlockInv, BlockTypeOK, PointerInv, PointerPCs, InstallPCs, NewPCs,
         ProducerPCs, ClaimedPCs, FoundPCs, IndexTypeOK
<1>5. LapInv' /\ TagInv' /\ HeadInv'
  BY <1>1, LapFrame, TagFrame, HeadFrame DEF BlockInv
<1>6. ChainInv' /\ FindInv'
  BY <1>1, <1>2, <1>3
     DEF BlockInv, ChainInv, FindInv, Live, Linked, ProducerPCs, ClaimedPCs,
         FoundPCs, IndexTypeOK
<1>7. ReadInv' /\ PoolInv' /\ OwnerInv'
  BY <1>1, <1>2
     DEF BlockInv, ReadInv, PoolInv, OwnerInv, InPool, Left, Installs, Finishes,
         ReadersDone, ProducerPCs, ClaimedPCs, FoundPCs, IndexTypeOK
<1>8. QED
  BY <1>4, <1>5, <1>6, <1>7 DEF BlockInv

\* The steps of the claim loops.
LEMMA LoopKeeps ==
    ASSUME IndexInv, BlockInv, NEW p \in Producers, Loops(p)
    PROVE  BlockInv'
BY LoopClaims, LoopFrameKeeps DEF IndexInv

----------------------------------------------------------------------------
(* A producer that looks for its block changes nothing but its own pointer. *)

\* A step of the search: the pointer, and where the search goes on.
LEMMA PointerStep ==
    ASSUME IndexInv, BlockInv, NEW p \in Producers, NEW b \in Blocks,
           NEW l \in {"fast", "walk", "prev", "reload", "take", "write"},
           ppc[p] \in ClaimedPCs \ FoundPCs,
           ppc' = [ppc EXCEPT ![p] = l], pblk' = [pblk EXCEPT ![p] = b],
           l \in {"take", "write"} => start[b] = LapStart(ppos[p]),
           l = "take" <=> l \in {"take", "write"} /\ IsLastSlot(ppos[p]),
           l = "prev" => start[b] > LapStart(ppos[p]),
           UNCHANGED <<tailBlock, headVars, blockVars, poolVars, indexVars,
                       claimLocals, pnew, consVars>>
    PROVE  BlockInv'
<1>1. ClaimsKept /\ IndexTypeOK
  BY OwnerClaims DEF IndexInv, FoundPCs, StartedPCs
<1>2. BlockTypeOK' /\ PointerInv' /\ FindInv'
  <2>1. BlockTypeOK'
    BY DEF BlockInv, BlockTypeOK
  <2>2. /\ ppc'[p] = l /\ pblk'[p] = b /\ b # Null
        /\ \A q \in Producers \ {p} : ppc'[q] = ppc[q] /\ pblk'[q] = pblk[q]
    BY <1>1 DEF BlockInv, BlockTypeOK, IndexTypeOK, Blocks, Null
  <2>3. PointerInv'
    BY <2>2 DEF BlockInv, PointerInv, PointerPCs, InstallPCs, NewPCs, FoundPCs
  <2>4. FindInv'
    BY <2>2 DEF BlockInv, FindInv, FoundPCs
  <2>5. QED
    BY <2>1, <2>3, <2>4
<1>3. LapInv' /\ TagInv' /\ HeadInv'
  BY <1>1, LapFrame, TagFrame, HeadFrame DEF BlockInv
<1>4. ChainInv'
  BY <1>1 DEF BlockInv, ChainInv, Live, Linked, ClaimedPCs, FoundPCs, IndexTypeOK
<1>5. ReadInv' /\ PoolInv' /\ OwnerInv'
  BY <1>1 DEF BlockInv, ReadInv, PoolInv, OwnerInv, InPool, Left, Installs, Finishes,
              ReadersDone, ClaimedPCs, FoundPCs, IndexTypeOK
<1>6. QED
  BY <1>2, <1>3, <1>4, <1>5 DEF BlockInv

\* What the walk rests on: a block ahead of a claimed position is live, and
\* linked back to the block of the lap before.
LEMMA WalkFindsPrev == IndexInv /\ BlockInv => WalkStaysOnChain
<1> SUFFICES ASSUME IndexInv, BlockInv, NEW p \in Producers, ppc[p] = "prev"
             PROVE  /\ prev[pblk[p]] # Null
                    /\ start[pblk[p]] > LapStart(ppos[p])
                    /\ start[prev[pblk[p]]] = start[pblk[p]] - LAP
  BY DEF WalkStaysOnChain
<1>1. /\ start[pblk[p]] > LapStart(ppos[p]) /\ pblk[p] \in Blocks
      /\ LapStart(ppos[p]) \in Nat /\ start[pblk[p]] \in Nat \cup {POOLED}
      /\ start[headBlock] \in Nat
  <2>1. start[headBlock] \in Nat
    BY HeadServes DEF IndexInv, BlockInv
  <2>2. LapStart(ppos[p]) \in Nat
    BY OffsetsAndLaps DEF IndexInv, IndexTypeOK
  <2>3. pblk[p] \in Blocks
    BY DEF BlockInv, BlockTypeOK, PointerInv, PointerPCs
  <2>4. start[pblk[p]] > LapStart(ppos[p]) /\ start[pblk[p]] \in Nat \cup {POOLED}
    BY <2>3 DEF BlockInv, BlockTypeOK, FindInv
  <2>5. QED
    BY <2>1, <2>2, <2>3, <2>4
<1>2. start[headBlock] <= LapStart(ppos[p])
  BY ClaimedAhead DEF ClaimedPCs
<1>3. start[pblk[p]] > start[headBlock]
  BY <1>1, <1>2 DEF POOLED
<1>4. QED
  BY <1>1, <1>3 DEF BlockInv, ChainInv

\* find_block and find_block_slow.
LEMMA SearchKeeps ==
    ASSUME IndexInv, BlockInv, NEW p \in Producers,
           \/ LoadTailBlock(p) \/ FastCheck(p) \/ WalkCheck(p) \/ FollowPrev(p)
    PROVE  BlockInv'
<1>1. /\ ppc[p] \in ClaimedPCs \ FoundPCs
      /\ tailBlock \in Blocks /\ pblk \in [Producers -> Blocks \cup {Null}]
      /\ ppc[p] \in {"fast", "walk", "prev"} => pblk[p] \in Blocks
      /\ UNCHANGED <<tailBlock, headVars, blockVars, poolVars, indexVars,
                     claimLocals, pnew, consVars>>
  BY DEF BlockInv, BlockTypeOK, PointerInv, PointerPCs, ClaimedPCs, FoundPCs,
         LoadTailBlock, FastCheck, WalkCheck, FollowPrev
<1>2. CASE LoadTailBlock(p)
  <2>1. PICK l \in {"fast", "walk"} : ppc' = [ppc EXCEPT ![p] = l]
    BY <1>2 DEF LoadTailBlock
  <2>2. QED
    BY <1>1, <1>2, <2>1, PointerStep DEF LoadTailBlock
<1>3. CASE FastCheck(p) \/ WalkCheck(p)
  <2>1. PICK l \in {"prev", "reload", "take", "write"} :
          /\ ppc' = [ppc EXCEPT ![p] = l]
          /\ l \in {"take", "write"} => start[pblk[p]] = LapStart(ppos[p])
          /\ l = "take" <=> l \in {"take", "write"} /\ IsLastSlot(ppos[p])
          /\ l = "prev" => start[pblk[p]] > LapStart(ppos[p])
    BY <1>3 DEF FastCheck, WalkCheck, AfterFound
  <2>2. pblk[p] \in Blocks /\ pblk' = [pblk EXCEPT ![p] = pblk[p]]
    BY <1>1, <1>3 DEF FastCheck, WalkCheck
  <2>3. QED
    BY <1>1, <2>1, <2>2, PointerStep
<1>4. CASE FollowPrev(p)
  <2>1. prev[pblk[p]] \in Blocks
    BY <1>1, <1>4, WalkFindsPrev
       DEF FollowPrev, WalkStaysOnChain, BlockInv, BlockTypeOK
  <2>2. QED
    BY <1>1, <1>4, <2>1, PointerStep DEF FollowPrev
<1>5. QED
  BY <1>2, <1>3, <1>4

----------------------------------------------------------------------------
(* take_block takes a block out of the pool, or none out of an empty spare  *)
(* cell.                                                                    *)

\* A step of take_block: the pool shrinks, and the installer has what left it.
LEMMA PoolStep ==
    ASSUME IndexInv, BlockInv, NEW p \in Producers, NEW b \in Blocks \cup {Null},
           NEW l \in {"take_slow", "reset", "link"},
           ppc[p] \in {"take", "take_slow"},
           ppc' = [ppc EXCEPT ![p] = l], pnew' = [pnew EXCEPT ![p] = b],
           spare' \in {spare, Null}, ready' \subseteq ready,
           retired' \subseteq retired, fresh' \in {fresh, fresh + 1},
           fresh' <= MaxBlocks + 1,
           l # "take_slow" => b # Null /\ InPool(b) /\ ~InPool(b)',
           l = "link" => start[b] = POOLED,
           l = "reset" => Left(b) /\ ReadersDone(b),
           UNCHANGED <<takeFrame, marks>>
    PROVE  BlockInv'
<1>1. ClaimsKept /\ IndexTypeOK /\ BlockTypeOK
  BY OwnerClaims DEF IndexInv, BlockInv, StartedPCs, ClaimedPCs, FoundPCs
<1>2. BlockTypeOK' /\ PointerInv' /\ FindInv'
  BY <1>1 DEF BlockInv, BlockTypeOK, PointerInv, FindInv, PointerPCs,
              InstallPCs, NewPCs, FoundPCs, IndexTypeOK, Null
<1>3. LapInv' /\ TagInv' /\ HeadInv'
  BY <1>1, LapFrame, TagFrame, HeadFrame DEF BlockInv
<1>4. ChainInv'
  BY <1>1 DEF BlockInv, ChainInv, Live, Linked, IndexTypeOK, BlockTypeOK
<1>5. ReadInv'
  BY <1>1 DEF BlockInv, ReadInv, ReadersDone, IndexTypeOK, BlockTypeOK
<1>6. PoolInv'
  <2>1. \A d \in Blocks : d >= fresh' => d >= fresh
    BY <1>1 DEF BlockTypeOK, Blocks
  <2>2. \A q \in Producers : q # p => ppc'[q] = ppc[q] /\ pnew'[q] = pnew[q]
    BY <1>1 DEF IndexTypeOK, BlockTypeOK
  <2>3. /\ spare' # Null => start[spare'] = POOLED
        /\ \A d \in Blocks : d \in ready' \/ d >= fresh' => start[d] = POOLED
        /\ \A d \in retired' : Left(d)
    BY <1>1, <2>1 DEF BlockInv, PoolInv
  <2>4. ppc'[p] = l /\ pnew'[p] = b
    BY <1>1 DEF IndexTypeOK, BlockTypeOK
  <2>5. \A q \in Producers :
          /\ ppc'[q] \in {"link", "start"} => start[pnew'[q]] = POOLED
          /\ ppc'[q] = "reset" => Left(pnew'[q])
    BY <2>2, <2>4 DEF BlockInv, PoolInv
  <2>6. QED
    BY <2>3, <2>5 DEF BlockInv, PoolInv, Left, Finishes
<1>7. OwnerInv'
  <2>1. /\ spare' < fresh' /\ ready' \cup retired' \subseteq 1..(fresh' - 1)
        /\ spare' \notin ready'
    <3>1. /\ fresh \in Nat /\ fresh >= 1 /\ fresh' \in Nat /\ fresh' >= fresh
          /\ spare \in Nat /\ spare < fresh
          /\ ready \cup retired \subseteq 1..(fresh - 1) /\ spare \notin ready
      BY <1>1, BoundsAssumption DEF BlockInv, BlockTypeOK, OwnerInv, Null, Blocks
    <3>2. spare' < fresh'
      BY <3>1 DEF Null
    <3>3. ready' \cup retired' \subseteq 1..(fresh' - 1)
      BY <3>1
    <3>4. spare' \notin ready'
      BY <3>1 DEF Null
    <3>5. QED
      BY <3>2, <3>3, <3>4
  <2>2. \A d \in Blocks : ~InPool(d) => ~InPool(d)'
    BY <1>1 DEF InPool, BlockTypeOK, Null, Blocks
  <2>3. \A q \in Producers : q # p => ppc'[q] = ppc[q] /\ pnew'[q] = pnew[q]
    BY <1>1 DEF IndexTypeOK, BlockTypeOK
  <2>4. ppc'[p] = l /\ pnew'[p] = b
    BY <1>1 DEF IndexTypeOK, BlockTypeOK
  <2>5. \A q \in Producers \ {p} : Installs(q) => pnew[q] \in Blocks
    BY <1>1 DEF BlockInv, BlockTypeOK, PointerInv, NewPCs, InstallPCs, Installs
  <2>6. \A c \in Consumers : Finishes(c) => cblk[c] \in Blocks
    BY <1>1 DEF BlockInv, BlockTypeOK, PointerInv, TakenPCs, FinishingPCs, Finishes
  <2>7. \A q \in Producers \ {p} : Installs(q) =>
          /\ ~InPool(pnew[q])'
          /\ \A r \in Producers \ {p, q} : Installs(r) => pnew[r] # pnew[q]
          /\ \A c \in Consumers : Finishes(c) => cblk[c] # pnew[q]
          /\ l # "take_slow" => pnew[q] # b
    BY <2>2, <2>5 DEF BlockInv, OwnerInv
  <2>8. \A c \in Consumers : Finishes(c) =>
          /\ ~InPool(cblk[c])'
          /\ \A d \in Consumers \ {c} : Finishes(d) => cblk[d] # cblk[c]
          /\ l # "take_slow" => cblk[c] # b
    BY <2>2, <2>6 DEF BlockInv, OwnerInv
  <2>9. QED
    BY <2>1, <2>3, <2>4, <2>7, <2>8 DEF OwnerInv, Installs, Finishes
<1>8. QED
  BY <1>2, <1>3, <1>4, <1>5, <1>6, <1>7 DEF BlockInv

\* take_block and take_block_slow.
LEMMA TakeKeeps ==
    ASSUME IndexInv, BlockInv, NEW p \in Producers,
           TakeSpare(p) \/ TakeReady(p) \/ TakeRetired(p) \/ Allocate(p)
    PROVE  BlockInv'
<1>1. /\ fresh \in Nat /\ spare \in Nat /\ spare < fresh /\ spare \notin ready
      /\ fresh <= MaxBlocks + 1 /\ spare \in Blocks \cup {Null}
      /\ ready \cup retired \subseteq 1..(fresh - 1)
      /\ ready \subseteq Blocks /\ retired \subseteq Blocks
      /\ \A b \in ready : start[b] = POOLED
      /\ spare # Null => start[spare] = POOLED
      /\ \A b \in retired : Left(b) /\ b \notin ready /\ b # spare
      /\ fresh \in Blocks => start[fresh] = POOLED
  BY BoundsAssumption
     DEF BlockInv, BlockTypeOK, OwnerInv, PoolInv, Left, Null, Blocks
<1>2. CASE TakeSpare(p)
  <2>1. PICK l \in {"take_slow", "link"} :
          ppc' = [ppc EXCEPT ![p] = l] /\ (l = "link" => spare # Null)
    BY <1>2 DEF TakeSpare
  <2>2. PICK b \in Blocks \cup {Null} : b = spare
    BY <1>1
  <2>3. b # Null => InPool(b) /\ ~InPool(b)'
    BY <1>1, <1>2, <2>2 DEF TakeSpare, InPool
  <2>4. QED
    BY <1>1, <1>2, <2>1, <2>2, <2>3, PoolStep DEF TakeSpare
<1>3. CASE TakeReady(p)
  <2>1. PICK b \in ready : SetNew(p, b) /\ ready' = ready \ {b}
    BY <1>3 DEF TakeReady
  <2>2. b # Null /\ InPool(b) /\ ~InPool(b)'
    BY <1>1, <1>3, <2>1 DEF TakeReady, InPool, Null
  <2>3. QED
    BY <1>1, <1>3, <2>1, <2>2, PoolStep DEF TakeReady
<1>4. CASE TakeRetired(p)
  <2>1. PICK b \in retired :
          ReadersDone(b) /\ SetNew(p, b) /\ retired' = retired \ {b}
    BY <1>4 DEF TakeRetired
  <2>2. b # Null /\ InPool(b) /\ ~InPool(b)'
    BY <1>1, <1>4, <2>1 DEF TakeRetired, InPool, Null
  <2>3. QED
    BY <1>1, <1>4, <2>1, <2>2, PoolStep DEF TakeRetired
<1>5. CASE Allocate(p)
  <2>1. fresh \in Blocks /\ fresh # Null /\ fresh' = fresh + 1 /\ fresh' <= MaxBlocks + 1
    BY <1>1, <1>5, BoundsAssumption DEF Allocate, Blocks, Null
  <2>2. PICK b \in Blocks : b = fresh
    BY <2>1
  <2>3. InPool(b) /\ ~InPool(b)'
    BY <1>1, <1>5, <2>1, <2>2 DEF Allocate, InPool
  <2>4. QED
    BY <1>1, <1>5, <2>1, <2>2, <2>3, PoolStep DEF Allocate
<1>6. QED
  BY <1>2, <1>3, <1>4, <1>5

----------------------------------------------------------------------------
(* Where the head is.                                                       *)

\* The head's block serves the lap of the head, or the next one while the
\* consumer of the last slot moves the head over the sentinel.
LEMMA HeadLap ==
    ASSUME IndexInv, BlockInv
    PROVE  /\ ~IsSentinel(head) => start[headBlock] = LapStart(head)
           /\ \A c \in Consumers : Moving(c) =>
                start[headBlock] = IF cpc[c] = "advance" THEN cpos[c] + 2
                                   ELSE LapStart(cpos[c])
<1>1. /\ head \in Nat /\ cpos \in [Consumers -> Nat]
      /\ \A c \in Consumers : Moving(c) => IsLastSlot(cpos[c]) /\ head = cpos[c] + 1
      /\ \A c, d \in Consumers : Moving(c) /\ Moving(d) => c = d
  BY DEF IndexInv, IndexTypeOK, TakeInv, Moving, TakenPCs
<1>2. \A c \in Consumers : Moving(c) => IsSentinel(head) /\ LapStart(head) = LapStart(cpos[c])
  BY <1>1, SentinelFollowsLastSlot, LapsInOrder
<1>3. CASE \E c \in Consumers : cpc[c] = "advance"
  <2>1. PICK c \in Consumers : cpc[c] = "advance"
    BY <1>3
  <2>2. Moving(c) /\ \A d \in Consumers : Moving(d) => d = c
    BY <1>1, <2>1 DEF Moving
  <2>3. start[headBlock] = cpos[c] + 2
    BY <1>1, <1>3, <2>2 DEF BlockInv, HeadInv
  <2>4. QED
    BY <1>2, <2>1, <2>2, <2>3
<1>4. CASE ~\E c \in Consumers : cpc[c] = "advance"
  BY <1>2, <1>4 DEF BlockInv, HeadInv
<1>5. QED
  BY <1>3, <1>4

----------------------------------------------------------------------------
(* Block::reset, of a block that the head has left and whose readers are    *)
(* done: no one who relies on the lap of a block relies on this one.        *)

\* The readers of the block are done, or no one reads at all.
NoReaderIn(x) ==
    ReadersDone(x) \/ \A c \in Consumers : cpc[c] \notin {"read", "mark"}

\* Whoever relies on a lap relies on another block.
LEMMA LeftAlone ==
    ASSUME IndexInv, BlockInv, NEW x \in Blocks, Left(x), NoReaderIn(x)
    PROVE  /\ headBlock # x
           /\ \A b \in Blocks : Live(b) => b # x
           /\ \A b \in Blocks : start[b] > start[headBlock] => prev[b] # x
           /\ \A b \in Blocks : Live(b) /\ Linked(b) => next[b] # x
           /\ \A p \in Producers :
                /\ ppc[p] \in FoundPCs \cup {"prev"} => pblk[p] # x
                /\ ppc[p] \in {"next", "tail"} => pnew[p] # x
           /\ \A c \in Consumers :
                /\ (cpc[c] \in {"slot", "recheck", "cas"} /\ head = cpos[c])
                     => cblk[c] # x
                /\ cpc[c] \in {"read", "mark", "next"} => cblk[c] # x
<1>1. /\ start[x] \in Nat /\ start[headBlock] \in Nat /\ start[x] < start[headBlock]
      /\ Offset(start[headBlock]) = 0 /\ LAP \in Nat
      /\ start \in [Blocks -> Nat \cup {POOLED}]
  BY HeadServes, LapAssumption DEF BlockInv, BlockTypeOK, Left
<1>2. headBlock # x /\ \A b \in Blocks : Live(b) => b # x
  BY <1>1 DEF Live
<1>3. \A b \in Blocks : start[b] > start[headBlock] => prev[b] # x
  <2>1. SUFFICES ASSUME NEW b \in Blocks, start[b] > start[headBlock]
                 PROVE  prev[b] # x
    OBVIOUS
  <2>2. start[b] \in Nat /\ Offset(start[b]) = 0
    BY <1>1, <2>1 DEF BlockInv, LapInv, POOLED
  <2>3. start[headBlock] + LAP <= start[b]
    BY <1>1, <2>1, <2>2, LapsApart
  <2>4. start[prev[b]] = start[b] - LAP
    BY <2>1 DEF BlockInv, ChainInv
  <2>5. QED
    BY <1>1, <2>2, <2>3, <2>4
<1>4. \A b \in Blocks : Live(b) /\ Linked(b) => next[b] # x
  BY <1>1 DEF Live, Linked, POOLED
<1>5. ASSUME NEW p \in Producers
      PROVE  /\ ppc[p] \in FoundPCs \cup {"prev"} => pblk[p] # x
             /\ ppc[p] \in {"next", "tail"} => pnew[p] # x
  <2>1. ppc[p] \in ClaimedPCs =>
          start[headBlock] <= LapStart(ppos[p]) /\ LapStart(ppos[p]) \in Nat
    BY ClaimedAhead, OffsetsAndLaps DEF IndexInv, IndexTypeOK
  <2>2. ppc[p] \in FoundPCs \cup {"prev"} => pblk[p] # x
    BY <1>1, <2>1 DEF BlockInv, FindInv, ClaimedPCs
  <2>3. ppc[p] \in {"next", "tail"} => pnew[p] # x
    BY <1>1, <2>1 DEF BlockInv, ChainInv, ClaimedPCs, FoundPCs
  <2>4. QED
    BY <2>2, <2>3
<1>6. ASSUME NEW c \in Consumers
      PROVE  /\ (cpc[c] \in {"slot", "recheck", "cas"} /\ head = cpos[c])
                  => cblk[c] # x
             /\ cpc[c] \in {"read", "mark", "next"} => cblk[c] # x
  <2>1. cpc[c] \in {"slot", "recheck", "cas"} /\ head = cpos[c] => cblk[c] # x
    BY <1>1, HeadLap DEF IndexInv, TakeInv, BlockInv, ReadInv
  <2>2. CASE Moving(c) /\ cpc[c] # "advance"
    BY <1>1, <2>2, HeadLap DEF BlockInv, ReadInv, TakenPCs, Moving
  <2>3. CASE cpc[c] \in {"read", "mark"} /\ ~IsLastSlot(cpos[c])
    <3>1. cpos[c] \in Nat /\ ~IsSentinel(cpos[c])
      BY <2>3 DEF IndexInv, IndexTypeOK, BlockInv, PointerInv, TakenPCs
    <3>2. Offset(cpos[c]) \in 0..(BLOCK_CAP - 1) /\ Offset(cpos[c]) # BLOCK_CAP - 1
      BY <2>3, <3>1, PositionInLap, LapAssumption DEF IsLastSlot, BLOCK_CAP
    <3>3. QED
      BY <2>3, <3>2 DEF NoReaderIn, BlockInv, ReadInv, ReadersDone, Slots
  <2>4. cpc[c] = "mark" => ~IsLastSlot(cpos[c])
    BY DEF BlockInv, PointerInv
  <2>5. QED
    BY <2>1, <2>2, <2>3, <2>4 DEF Moving
<1>7. QED
  BY <1>2, <1>3, <1>4, <1>5, <1>6

\* Block::reset, by an installer or by the consumer that finished the block.
LEMMA ResetStep ==
    ASSUME IndexInv, BlockInv, NEW x \in Blocks, Left(x), NoReaderIn(x),
           ~InPool(x), ClaimsKept,
           marks' = [marks EXCEPT ![x] = {}],
           start' = [start EXCEPT ![x] = POOLED],
           ppc' \in [Producers -> ProducerPCs], cpc' \in [Consumers -> ConsumerPCs],
           \A q \in Producers :
             \/ ppc'[q] = ppc[q] /\ (Installs(q) => pnew[q] # x)
             \/ ppc[q] = "reset" /\ ppc'[q] = "link" /\ pnew[q] = x,
           \A c \in Consumers :
             \/ cpc'[c] = cpc[c] /\ (Finishes(c) => cblk[c] # x)
             \/ cpc[c] \in {"readers", "reset"} /\ cpc'[c] = "recycle" /\ cblk[c] = x,
           UNCHANGED <<indexVars, tailBlock, headVars, next, prev, slotVars,
                       poolVars, claimLocals, pblk, pnew, cpos, cblk, cval, ccount>>
    PROVE  BlockInv'
<1>1. IndexTypeOK /\ BlockTypeOK /\ PointerInv
  BY DEF IndexInv, BlockInv
<1>2. /\ headBlock # x /\ start'[x] = POOLED /\ start[x] < start[headBlock]
      /\ \A b \in Blocks : b # x => start'[b] = start[b] /\ marks'[b] = marks[b]
      /\ \A b \in Blocks : start'[b] \in {start[b], POOLED}
      /\ start[headBlock] \in Nat /\ start'[headBlock] = start[headBlock]
  BY <1>1, LeftAlone, HeadServes DEF BlockTypeOK, Left
<1>3. BlockTypeOK' /\ PointerInv'
  <2>1. BlockTypeOK'
    BY <1>1, <1>2 DEF BlockTypeOK, POOLED
  <2>2. PointerInv'
    BY <1>1, <1>2 DEF PointerInv, PointerPCs, InstallPCs, NewPCs, TakenPCs,
       FinishingPCs, FoundPCs
  <2>3. QED
    BY <2>1, <2>2
<1>4. LapInv' /\ TagInv' /\ HeadInv'
  BY <1>1, <1>2, LapFrame, TagFrame, HeadFrame DEF BlockInv
<1>5. ChainInv'
  <2>1. \A b \in Blocks : start'[b] > start'[headBlock] =>
          prev[b] # Null /\ start'[prev[b]] = start'[b] - LAP
    BY <1>1, <1>2, LeftAlone DEF BlockInv, BlockTypeOK, ChainInv, POOLED
  <2>2. \A b \in Blocks : Live(b)' => Live(b) /\ b # x
    BY <1>1, <1>2 DEF Live, POOLED
  <2>3. \A b \in Blocks : Live(b) /\ Linked(b) => Linked(b)'
    BY <1>1, <1>2, LeftAlone DEF Linked, BlockTypeOK
  <2>4. \A q \in Producers : ppc[q] \in FoundPCs => Live(pblk[q])
    BY <1>1, ClaimedAhead DEF BlockInv, FindInv, Live, ClaimedPCs
  <2>5. \A q \in Producers :
          /\ ppc'[q] \in {"tail", "write", "publish"} /\ IsLastSlot(ppos[q])
               => Linked(pblk[q])'
          /\ ppc'[q] = "start" => prev[pnew[q]] = pblk[q]
          /\ ppc'[q] \in {"next", "tail"} => start'[pnew[q]] = LapStart(ppos[q]) + LAP
    <3>1. SUFFICES ASSUME NEW q \in Producers, ppc'[q] = ppc[q]
                   PROVE  /\ ppc[q] \in {"tail", "write", "publish"} /\ IsLastSlot(ppos[q])
                               => Linked(pblk[q])'
                          /\ ppc[q] = "start" => prev[pnew[q]] = pblk[q]
                          /\ ppc[q] \in {"next", "tail"} => start'[pnew[q]] = LapStart(ppos[q]) + LAP
      OBVIOUS
    <3>2. ppc[q] \in {"tail", "write", "publish"} /\ IsLastSlot(ppos[q]) => Linked(pblk[q])'
      BY <1>1, <2>3, <2>4 DEF BlockInv, ChainInv, FoundPCs, BlockTypeOK, PointerInv, PointerPCs
    <3>3. ppc[q] \in {"next", "tail"} => start'[pnew[q]] = LapStart(ppos[q]) + LAP
      BY <1>1, <1>2, LeftAlone DEF BlockInv, ChainInv, BlockTypeOK, PointerInv, NewPCs, InstallPCs
    <3>4. QED
      BY <3>2, <3>3 DEF BlockInv, ChainInv
  <2>6. \A b \in Blocks :
          Live(b)' /\ state[b][BLOCK_CAP - 1] = WrittenTag(Lap(start'[b])) => Linked(b)'
    BY <1>2, <2>2, <2>3 DEF BlockInv, ChainInv
  <2>7. QED
    BY <2>1, <2>5, <2>6 DEF ChainInv, Lap, WrittenTag, BLOCK_CAP, LapStart, Offset, IsLastSlot
<1>6. FindInv'
  <2>1. \A q \in Producers :
          /\ ppc'[q] \in FoundPCs => ppc[q] \in FoundPCs
          /\ ppc'[q] \in {"prev", "publish"} => ppc'[q] = ppc[q]
    BY DEF FoundPCs
  <2>2. \A q \in Producers :
          ppc[q] \in FoundPCs \cup {"prev"} => start'[pblk[q]] = start[pblk[q]]
    BY <1>1, <1>2, LeftAlone DEF BlockTypeOK, PointerInv, PointerPCs
  <2>3. UNCHANGED <<pblk, ppos, value>>
    OBVIOUS
  <2>4. QED
    BY <2>1, <2>2, <2>3 DEF BlockInv, FindInv, LapStart, Offset
<1>7. ReadInv'
  <2>1. ASSUME NEW c \in Consumers
        PROVE  LET written == state[cblk[c]][Offset(cpos[c])] = WrittenTag(Lap(cpos[c]))
               IN /\ (cpc'[c] \in {"slot", "recheck", "cas"} /\ head = cpos[c]) =>
                       /\ start'[cblk[c]] = LapStart(cpos[c])
                       /\ cpc'[c] = "cas" => written
                  /\ cpc'[c] \in TakenPCs \ {"recycle", "recycle_slow"} =>
                       /\ start'[cblk[c]] = LapStart(cpos[c])
                       /\ cpc'[c] \in {"read", "next"} => written
                  /\ cpc'[c] \in {"read", "mark"} => Offset(cpos[c]) \notin marks'[cblk[c]]
                  /\ cpc'[c] = "reset" => Slots \ {BLOCK_CAP - 1} \subseteq marks'[cblk[c]]
    <3>1. \/ cpc'[c] = cpc[c] /\ (Finishes(c) => cblk[c] # x)
          \/ cpc'[c] = "recycle"
      OBVIOUS
    <3>2. CASE cpc'[c] = "recycle"
      BY <3>2
    <3>3. CASE /\ cpc'[c] = cpc[c] /\ (Finishes(c) => cblk[c] # x)
               /\ (cpc[c] \in {"slot", "recheck", "cas"} /\ head = cpos[c])
      BY <1>1, <1>2, <3>3, LeftAlone
         DEF BlockInv, ReadInv, BlockTypeOK, PointerInv, TakenPCs
    <3>4. CASE cpc'[c] = cpc[c] /\ (Finishes(c) => cblk[c] # x) /\ cpc[c] \in TakenPCs
      <4>1. cblk[c] \in Blocks
        BY <1>1, <3>4 DEF BlockTypeOK, PointerInv
      <4>2. cblk[c] # x
        BY <3>4, LeftAlone DEF TakenPCs, Finishes, FinishingPCs
      <4>3. start'[cblk[c]] = start[cblk[c]] /\ marks'[cblk[c]] = marks[cblk[c]]
        BY <1>2, <4>1, <4>2
      <4>4. QED
        BY <3>4, <4>3 DEF BlockInv, ReadInv, ReadersDone, TakenPCs
    <3>5. QED
      BY <3>1, <3>2, <3>3, <3>4 DEF TakenPCs
  <2>2. \A q \in Producers : ppc'[q] = "reset" => Slots \ {BLOCK_CAP - 1} \subseteq marks'[pnew[q]]
    <3>1. SUFFICES ASSUME NEW q \in Producers, ppc'[q] = "reset"
                   PROVE  Slots \ {BLOCK_CAP - 1} \subseteq marks'[pnew[q]]
      OBVIOUS
    <3>2. ppc[q] = "reset" /\ pnew[q] # x /\ pnew[q] \in Blocks
      BY <1>1, <3>1 DEF BlockTypeOK, PointerInv, NewPCs, InstallPCs, Installs
    <3>3. QED
      BY <1>2, <3>2 DEF BlockInv, ReadInv, ReadersDone
  <2>3. \A b \in Blocks : \A s \in marks'[b] : start'[b] # POOLED /\ start'[b] + s < head
    BY <1>1, <1>2 DEF BlockInv, ReadInv, BlockTypeOK
  <2>4. QED
    BY <2>1, <2>2, <2>3 DEF ReadInv, ReadersDone, Slots, BLOCK_CAP, Offset, LapStart, Lap, WrittenTag
<1>8. PoolInv'
  <2>1. /\ spare # Null => start'[spare] = POOLED
        /\ \A b \in Blocks : b \in ready \/ b >= fresh => start'[b] = POOLED
        /\ \A b \in retired : Left(b)'
    BY <1>1, <1>2 DEF BlockInv, PoolInv, BlockTypeOK, InPool, Left
  <2>2. ASSUME NEW q \in Producers
        PROVE  /\ ppc'[q] \in {"link", "start"} => start'[pnew[q]] = POOLED
               /\ ppc'[q] = "reset" => Left(pnew[q])'
    <3>1. CASE ppc'[q] = "link" /\ pnew[q] = x
      BY <1>2, <3>1
    <3>2. CASE ppc'[q] = ppc[q] /\ (Installs(q) => pnew[q] # x)
      BY <1>1, <1>2, <3>2
         DEF BlockInv, PoolInv, Left, BlockTypeOK, PointerInv, NewPCs, InstallPCs, Installs
    <3>3. QED
      BY <3>1, <3>2
  <2>3. ASSUME NEW c \in Consumers
        PROVE  /\ cpc'[c] \in {"recycle", "recycle_slow"} => start'[cblk[c]] = POOLED
               /\ cpc'[c] \in FinishingPCs /\ start'[cblk[c]] # POOLED => Left(cblk[c])'
    <3>1. CASE cpc'[c] = "recycle" /\ cblk[c] = x
      BY <1>2, <3>1
    <3>2. CASE cpc'[c] = cpc[c] /\ (Finishes(c) => cblk[c] # x)
      BY <1>1, <1>2, <3>2
         DEF BlockInv, PoolInv, Left, BlockTypeOK, PointerInv, TakenPCs, FinishingPCs, Finishes
    <3>3. QED
      BY <3>1, <3>2
  <2>4. QED
    BY <2>1, <2>2, <2>3 DEF PoolInv, Finishes
<1>9. OwnerInv'
  <2>1. /\ \A q \in Producers : Installs(q)' <=> Installs(q)
        /\ \A c \in Consumers : Finishes(c)' <=> Finishes(c)
        /\ UNCHANGED <<pnew, cblk, poolVars>>
    BY DEF Installs, Finishes, FinishingPCs
  <2>2. QED
    BY <2>1 DEF BlockInv, OwnerInv, InPool
<1>10. QED
  BY <1>3, <1>4, <1>5, <1>6, <1>7, <1>8, <1>9 DEF BlockInv

\* reset in take_block_slow.
LEMMA ResetTakenKeeps ==
    ASSUME IndexInv, BlockInv, NEW p \in Producers, ResetTaken(p)
    PROVE  BlockInv'
<1>1. /\ pnew[p] \in Blocks /\ Left(pnew[p]) /\ ReadersDone(pnew[p]) /\ ~InPool(pnew[p])
      /\ Installs(p) /\ ppc[p] = "reset"
      /\ \A q \in Producers \ {p} : Installs(q) => pnew[q] # pnew[p]
      /\ \A c \in Consumers : Finishes(c) => cblk[c] # pnew[p]
  BY DEF ResetTaken, BlockInv, BlockTypeOK, PointerInv, NewPCs, InstallPCs, PoolInv,
         ReadInv, OwnerInv, Installs
<1>2. ClaimsKept
  BY OwnerClaims DEF IndexInv, ResetTaken, ClaimedPCs, FoundPCs, StartedPCs
<1>3. /\ ppc' \in [Producers -> ProducerPCs] /\ ppc'[p] = "link"
      /\ \A q \in Producers \ {p} : ppc'[q] = ppc[q]
      /\ cpc' \in [Consumers -> ConsumerPCs]
  BY DEF ResetTaken, IndexInv, IndexTypeOK, ProducerPCs, ClaimedPCs, FoundPCs
<1>4. QED
  BY <1>1, <1>2, <1>3, ResetStep DEF NoReaderIn, ResetTaken

\* A consumer resets the block it has left.
ResetsBlock(c) ==
    /\ cpc[c] \in {"readers", "reset"} /\ cpc' = [cpc EXCEPT ![c] = "recycle"]
    /\ NoReaderIn(cblk[c])
    /\ marks' = [marks EXCEPT ![cblk[c]] = {}]
    /\ start' = [start EXCEPT ![cblk[c]] = POOLED]
    /\ UNCHANGED <<indexVars, tailBlock, headVars, next, prev, slotVars, poolVars,
                   prodVars, cpos, cblk, cval, ccount>>

LEMMA ResetFrameKeeps ==
    ASSUME IndexInv, BlockInv, NEW c \in Consumers, ResetsBlock(c)
    PROVE  BlockInv'
<1>1. /\ cblk[c] \in Blocks /\ start[cblk[c]] = LapStart(cpos[c]) /\ cpos[c] \in Nat
      /\ NoReaderIn(cblk[c]) /\ ~InPool(cblk[c])
      /\ Finishes(c) /\ cpc[c] \in {"readers", "reset"}
      /\ \A q \in Producers : Installs(q) => pnew[q] # cblk[c]
      /\ \A d \in Consumers \ {c} : Finishes(d) => cblk[d] # cblk[c]
  BY DEF ResetsBlock, BlockInv, BlockTypeOK, PointerInv, TakenPCs, FinishingPCs, IndexInv,
         IndexTypeOK, ReadInv, OwnerInv, Finishes
<1>2. Left(cblk[c])
  BY <1>1, OffsetsAndLaps DEF BlockInv, PoolInv, POOLED
<1>3. ClaimsKept
  BY ConsumerClaims DEF ResetsBlock
<1>4. /\ cpc' \in [Consumers -> ConsumerPCs] /\ cpc'[c] = "recycle"
      /\ \A d \in Consumers \ {c} : cpc'[d] = cpc[d]
      /\ ppc' \in [Producers -> ProducerPCs]
  BY DEF ResetsBlock, IndexInv, IndexTypeOK, ConsumerPCs, TakenPCs
<1>5. QED
  BY <1>1, <1>2, <1>3, <1>4, ResetStep DEF ResetsBlock

\* reset in finish_block.
LEMMA ResetIsReset ==
    ASSUME IndexInv, BlockInv, NEW c \in Consumers, Reset(c)
    PROVE  ResetsBlock(c)
BY DEF Reset, ResetsBlock, NoReaderIn, BlockInv, ReadInv, ReadersDone, IndexInv, IndexTypeOK, TakenPCs

LEMMA ResetKeeps ==
    ASSUME IndexInv, BlockInv, NEW c \in Consumers, Reset(c)
    PROVE  BlockInv'
BY ResetIsReset, ResetFrameKeeps

----------------------------------------------------------------------------
(* install_next, after take_block.                                          *)

\* The links of a block that serves no lap.
LEMMA LinkKeeps ==
    ASSUME IndexInv, BlockInv, NEW p \in Producers, Link(p)
    PROVE  BlockInv'
<1>1. /\ IndexTypeOK /\ BlockTypeOK /\ PointerInv
      /\ ppc[p] = "link" /\ pnew[p] \in Blocks /\ start[pnew[p]] = POOLED
      /\ pblk[p] \in Blocks
      /\ \A q \in Producers \ {p} : Installs(q) => pnew[q] # pnew[p]
  BY DEF Link, IndexInv, BlockInv, BlockTypeOK, PointerInv, PoolInv, OwnerInv, Installs,
         NewPCs, InstallPCs, PointerPCs, FoundPCs
<1>2. ClaimsKept
  BY OwnerClaims, <1>1 DEF Link, ClaimedPCs, FoundPCs, StartedPCs
<1>3. BlockTypeOK' /\ PointerInv'
  BY <1>1 DEF Link, BlockTypeOK, PointerInv, PointerPCs, InstallPCs, NewPCs, FoundPCs,
              IndexTypeOK
<1>4. LapInv' /\ TagInv' /\ HeadInv'
  BY <1>1, <1>2, LapFrame, TagFrame, HeadFrame DEF BlockInv, Link
<1>5. ChainInv'
  <2>1. start[headBlock] \in Nat
    BY HeadServes
  <2>2. \A b \in Blocks : start[b] \in Nat => next'[b] = next[b] /\ prev'[b] = prev[b]
    BY <1>1 DEF Link, BlockTypeOK, POOLED
  <2>3. \A q \in Producers : ppc[q] \in FoundPCs => start[pblk[q]] \in Nat /\ pblk[q] \in Blocks
    BY <1>1, OffsetsAndLaps DEF BlockInv, FindInv, IndexTypeOK, BlockTypeOK, PointerInv, PointerPCs
  <2>4. /\ \A q \in Producers : q # p => ppc'[q] = ppc[q]
        /\ ppc'[p] = "start" /\ prev'[pnew[p]] = pblk[p]
    BY <1>1 DEF Link, IndexTypeOK, BlockTypeOK
  <2>5. \A b \in Blocks : start[b] > start[headBlock] => prev'[b] = prev[b]
    BY <1>1, <2>1, <2>2 DEF BlockTypeOK, POOLED
  <2>6. \A b \in Blocks : Live(b) => next'[b] = next[b]
    <3>1. \A b \in Blocks : start[b] >= start[headBlock] => start[b] \in Nat
      BY <1>1, <2>1 DEF BlockTypeOK, POOLED
    <3>2. QED
      BY <2>2, <3>1 DEF Live
  <2>7. UNCHANGED <<start, state, pblk, pnew, ppos, headBlock>>
    BY DEF Link
  <2>8. \A q \in Producers : q # p /\ ppc[q] = "start" => prev'[pnew[q]] = pblk[q]
    BY <1>1 DEF Link, BlockInv, ChainInv, Installs, BlockTypeOK
  <2>9. \A q \in Producers : q # p /\ ppc[q] \in FoundPCs /\ Linked(pblk[q]) => Linked(pblk[q])'
    BY <2>2, <2>3, <2>7 DEF Linked
  <2>10. \A b \in Blocks : Live(b) /\ Linked(b) => Linked(b)'
    BY <2>6, <2>7 DEF Linked
  <2>11. QED
    BY <2>4, <2>5, <2>7, <2>8, <2>9, <2>10
       DEF BlockInv, ChainInv, Live, FoundPCs, IsLastSlot, Offset, LapStart, Lap, WrittenTag, BLOCK_CAP
<1>6. FindInv' /\ ReadInv'
  BY <1>1 DEF Link, BlockInv, FindInv, ReadInv, FoundPCs, ReadersDone, IndexTypeOK
<1>7. PoolInv' /\ OwnerInv'
  BY <1>1 DEF Link, BlockInv, PoolInv, OwnerInv, InPool, Left, Installs, Finishes, IndexTypeOK
<1>8. QED
  BY <1>3, <1>4, <1>5, <1>6, <1>7 DEF BlockInv

\* Nothing rests on tail.block.
LEMMA SetTailBlockKeeps ==
    ASSUME IndexInv, BlockInv, NEW p \in Producers, SetTailBlock(p)
    PROVE  BlockInv'
<1>1. /\ IndexTypeOK /\ BlockTypeOK /\ PointerInv
      /\ ppc[p] = "tail" /\ pnew[p] \in Blocks
  BY DEF SetTailBlock, IndexInv, BlockInv, BlockTypeOK, PointerInv, NewPCs, InstallPCs
<1>2. ClaimsKept
  BY OwnerClaims, <1>1 DEF SetTailBlock, ClaimedPCs, FoundPCs, StartedPCs
<1>3. BlockTypeOK'
  BY <1>1 DEF SetTailBlock, BlockTypeOK
<1>4. PointerInv' /\ FindInv'
  BY <1>1 DEF SetTailBlock, BlockInv, BlockTypeOK, PointerInv, FindInv, PointerPCs,
              InstallPCs, NewPCs, FoundPCs, IndexTypeOK
<1>5. LapInv' /\ TagInv' /\ HeadInv'
  BY <1>1, <1>2, LapFrame, TagFrame, HeadFrame DEF BlockInv, SetTailBlock
<1>6. ChainInv' /\ ReadInv'
  BY <1>1 DEF SetTailBlock, BlockInv, ChainInv, ReadInv, Live, Linked, ReadersDone,
              IndexTypeOK, BlockTypeOK
<1>7. PoolInv' /\ OwnerInv'
  BY <1>1 DEF SetTailBlock, BlockInv, PoolInv, OwnerInv, InPool, Left, Installs, Finishes,
              IndexTypeOK, BlockTypeOK
<1>8. QED
  BY <1>3, <1>4, <1>5, <1>6, <1>7 DEF BlockInv

\* The chain grows by the block whose `start` has been set.
LEMMA SetNextKeeps ==
    ASSUME IndexInv, BlockInv, NEW p \in Producers, SetNext(p)
    PROVE  BlockInv'
<1>1. /\ IndexTypeOK /\ BlockTypeOK /\ PointerInv
      /\ ppc[p] = "next" /\ pnew[p] \in Blocks /\ pblk[p] \in Blocks
  BY DEF SetNext, IndexInv, BlockInv, BlockTypeOK, PointerInv, NewPCs, InstallPCs,
         PointerPCs, FoundPCs
<1>2. start[pnew[p]] = start[pblk[p]] + LAP
  BY <1>1 DEF BlockInv, ChainInv, FindInv, FoundPCs
<1>3. ClaimsKept
  BY OwnerClaims, <1>1 DEF SetNext, ClaimedPCs, FoundPCs, StartedPCs
<1>4. BlockTypeOK' /\ PointerInv' /\ FindInv'
  BY <1>1 DEF SetNext, BlockInv, BlockTypeOK, PointerInv, FindInv, PointerPCs,
              InstallPCs, NewPCs, FoundPCs, IndexTypeOK
<1>5. LapInv' /\ TagInv' /\ HeadInv'
  BY <1>1, <1>3, LapFrame, TagFrame, HeadFrame DEF BlockInv, SetNext
<1>6. ChainInv'
  <2>1. UNCHANGED <<start, prev, state, pblk, pnew, ppos, headBlock>>
    BY DEF SetNext
  <2>2. Linked(pblk[p])' /\ \A b \in Blocks : Linked(b) => Linked(b)'
    BY <1>1, <1>2, <2>1 DEF SetNext, Linked, Null, Blocks, BlockTypeOK
  <2>3. /\ \A q \in Producers : q # p => ppc'[q] = ppc[q]
        /\ ppc'[p] = "tail"
    BY <1>1 DEF SetNext, IndexTypeOK
  <2>4. \A q \in Producers : ppc[q] \in {"tail", "write", "publish"} => pblk[q] \in Blocks
    BY <1>1 DEF BlockTypeOK, PointerInv, PointerPCs, FoundPCs
  <2>5. QED
    BY <1>1, <2>1, <2>2, <2>3, <2>4
       DEF BlockInv, ChainInv, Live, IsLastSlot, Offset, LapStart, Lap, WrittenTag, BLOCK_CAP
<1>7. ReadInv' /\ PoolInv' /\ OwnerInv'
  BY <1>1 DEF SetNext, BlockInv, ReadInv, PoolInv, OwnerInv, InPool, Left, Installs,
              Finishes, ReadersDone, IndexTypeOK
<1>8. QED
  BY <1>4, <1>5, <1>6, <1>7 DEF BlockInv

\* A lap begins with the store of its block's `start`: no tag of the lap and no
\* other block of it can be there before.
LEMMA SetStartKeeps ==
    ASSUME IndexInv, BlockInv, NEW p \in Producers, SetStart(p)
    PROVE  BlockInv'
<1>1. /\ IndexTypeOK /\ BlockTypeOK /\ PointerInv
      /\ ppc[p] = "start" /\ pnew[p] \in Blocks /\ start[pnew[p]] = POOLED
      /\ pblk[p] \in Blocks /\ ppos[p] \in Nat /\ ppos[p] < tail
      /\ ~InPool(pnew[p])
      /\ \A q \in Producers \ {p} : Installs(q) => pnew[q] # pnew[p]
      /\ \A c \in Consumers : Finishes(c) => cblk[c] # pnew[p]
      /\ \A q \in Producers \ {p} : ppc[q] \in ClaimedPCs => ppos[q] # ppos[p]
  <2>1. /\ IndexTypeOK /\ BlockTypeOK /\ PointerInv
        /\ ppc[p] = "start" /\ pnew[p] \in Blocks /\ pblk[p] \in Blocks
    BY DEF SetStart, IndexInv, BlockInv, BlockTypeOK, PointerInv, NewPCs,
           InstallPCs, PointerPCs, FoundPCs
  <2>2. /\ ppos[p] \in Nat /\ ppos[p] < tail
        /\ \A q \in Producers \ {p} : ppc[q] \in ClaimedPCs => ppos[q] # ppos[p]
    BY <2>1 DEF IndexInv, IndexTypeOK, ClaimInv, ClaimedPCs, FoundPCs
  <2>3. /\ start[pnew[p]] = POOLED /\ ~InPool(pnew[p])
        /\ \A q \in Producers \ {p} : Installs(q) => pnew[q] # pnew[p]
        /\ \A c \in Consumers : Finishes(c) => cblk[c] # pnew[p]
    BY <2>1 DEF BlockInv, PoolInv, OwnerInv, Installs
  <2>4. QED
    BY <2>1, <2>2, <2>3
<1>2. PICK t \in Nat : /\ t = LapStart(ppos[p]) + LAP /\ t = ppos[p] + 2
                       /\ Offset(t) = 0 /\ LapStart(t) = t
  BY <1>1, PositionInLap DEF PointerInv, InstallPCs, LapStart
<1>3. /\ ~LapBegun(t) /\ ClaimsKept
      /\ ppc'[p] = "next" /\ \A q \in Producers : q # p => ppc'[q] = ppc[q]
  <2>1. ppc[p] \in ClaimedPCs \ StartedPCs
    BY <1>1 DEF ClaimedPCs, FoundPCs, StartedPCs
  <2>2. ~LapBegun(t)
    BY <1>1, <1>2, <2>1 DEF LapBegun
  <2>3. ClaimsKept
    BY <1>1, <2>1, OwnerClaims DEF SetStart, StartedPCs
  <2>4. QED
    BY <1>1, <2>2, <2>3 DEF SetStart, IndexTypeOK
<1>4. /\ start'[pnew[p]] = t
      /\ \A b \in Blocks : b # pnew[p] => start'[b] = start[b]
      /\ UNCHANGED <<next, prev, marks, state, value, head, headBlock, tail, ppos,
                     pblk, pnew, cpc, cpos, cblk>>
  BY <1>1, <1>2 DEF SetStart, BlockTypeOK
<1>5. \A b \in Blocks : start[b] \in Nat => b # pnew[p] /\ start'[b] = start[b]
  BY <1>1, <1>4 DEF POOLED
<1>6. start[headBlock] \in Nat /\ headBlock \in Blocks
  BY HeadServes
<1>7. BlockTypeOK' /\ PointerInv'
  BY <1>1, <1>2, <1>3
     DEF SetStart, BlockTypeOK, PointerInv, PointerPCs, InstallPCs, NewPCs, FoundPCs
<1>8. LapInv'
  <2>1. LapBegun(t)'
    BY <1>1, <1>2, <1>3, <1>4 DEF LapBegun, StartedPCs, ClaimedPCs, FoundPCs, IndexTypeOK
  <2>2. \A b \in Blocks, u \in Nat : start[b] = u => LapBegun(u)' /\ u # t
    BY <1>1, <1>3, BegunStays DEF BlockInv, LapInv, POOLED
  <2>3. QED
    BY <1>1, <1>2, <1>4, <2>1, <2>2 DEF BlockInv, LapInv, Offset, POOLED
<1>9. TagInv'
  <2>1. SUFFICES ASSUME NEW b \in Blocks, NEW s \in Slots, state[b][s] # 0
                 PROVE  \E pos \in 0..(tail' - 1) : StandsFor(b, s, pos)'
    BY <1>4 DEF TagInv
  <2>2. PICK pos \in 0..(tail - 1) : StandsFor(b, s, pos)
    BY <2>1 DEF BlockInv, TagInv
  <2>3. pos \in Nat /\ pos < tail /\ pos \in 0..(tail' - 1) /\ LapStart(pos) \in Nat
    <3>1. pos \in Nat /\ pos < tail
      BY <1>1 DEF IndexTypeOK
    <3>2. tail' \in Nat /\ pos < tail'
      BY <1>1, <1>4, <3>1 DEF IndexTypeOK
    <3>3. QED
      BY <3>1, <3>2, BelowTail, OffsetsAndLaps
  <2>4. LapBegun(LapStart(pos))' /\ LapStart(pos) # t
    BY <1>1, <1>3, <2>2, <2>3, BegunStays DEF StandsFor
  <2>5. \A q \in Producers : ppc'[q] \in ClaimedPCs => ppos[q] # pos
    BY <1>1, <1>3, <2>2 DEF StandsFor, ClaimedPCs, FoundPCs
  <2>6. start'[b] = LapStart(pos) => value[b][s] = pos
    BY <1>4, <2>2, <2>4 DEF StandsFor
  <2>7. QED
    BY <1>4, <2>2, <2>3, <2>4, <2>5, <2>6 DEF StandsFor, Lap, LapStart, Offset, WrittenTag
<1>10. HeadInv'
  BY <1>1, <1>3, <1>4, <1>5, <1>6, HeadFrame DEF BlockInv, SetStart
<1>11. ChainInv'
  <2>1. \A q \in Producers : ppc[q] \in FoundPCs =>
          start[pblk[q]] = LapStart(ppos[q]) /\ start[pblk[q]] \in Nat /\ pblk[q] \in Blocks
    BY <1>1, OffsetsAndLaps DEF BlockInv, FindInv, IndexTypeOK, BlockTypeOK, PointerInv, PointerPCs
  <2>2. \A b \in Blocks : Linked(b) /\ start[b] \in Nat => Linked(b)'
    <3>1. SUFFICES ASSUME NEW b \in Blocks, Linked(b), start[b] \in Nat
                   PROVE  Linked(b)'
      OBVIOUS
    <3>2. next[b] \in Blocks /\ start[next[b]] = start[b] + LAP /\ start[next[b]] \in Nat
      BY <1>1, <3>1, LapAssumption DEF Linked, BlockTypeOK
    <3>3. QED
      BY <1>4, <1>5, <3>1, <3>2 DEF Linked
  <2>3. ASSUME NEW b \in Blocks, start'[b] > start[headBlock]
        PROVE  prev[b] # Null /\ start'[prev[b]] = start'[b] - LAP
    <3>1. CASE b = pnew[p]
      BY <1>1, <1>2, <1>4, <1>5, <2>1, <3>1, LapAssumption
         DEF BlockInv, ChainInv, FoundPCs, Null, Blocks
    <3>2. CASE b # pnew[p]
      <4>1. start'[b] = start[b] /\ start[b] \in Nat
        BY <1>1, <1>4, <1>6, <2>3, <3>2 DEF BlockTypeOK, POOLED
      <4>2. prev[b] # Null /\ start[prev[b]] = start[b] - LAP /\ prev[b] \in Blocks
        BY <1>1, <2>3, <4>1 DEF BlockInv, ChainInv, BlockTypeOK
      <4>3. start[b] >= LAP
        BY <1>6, <2>3, <4>1, HeadServes, LapsApart, LapAssumption
           DEF BlockInv, LapInv, POOLED
      <4>4. QED
        BY <1>5, <4>1, <4>2, <4>3, LapAssumption
    <3>3. QED
      BY <3>1, <3>2
  <2>4. ASSUME NEW b \in Blocks, start'[b] >= start[headBlock],
               state[b][BLOCK_CAP - 1] = WrittenTag(Lap(start'[b]))
        PROVE  Linked(b)'
    <3>1. CASE b = pnew[p]
      <4>1. BLOCK_CAP - 1 \in Slots /\ WrittenTag(Lap(t)) # 0
        BY <1>2, PositionInLap, LapAssumption DEF Slots, BLOCK_CAP
      <4>2. PICK pos \in 0..(tail - 1) : StandsFor(b, BLOCK_CAP - 1, pos)
        BY <1>4, <2>4, <3>1, <4>1 DEF BlockInv, TagInv
      <4>3. LapStart(pos) = LapStart(t)
        BY <1>1, <1>2, <1>4, <2>4, <3>1, <4>2, TagTellsLap DEF StandsFor
      <4>4. QED
        BY <1>2, <1>3, <4>2, <4>3 DEF StandsFor
    <3>2. CASE b # pnew[p]
      <4>1. start'[b] = start[b] /\ start[b] \in Nat
        BY <1>1, <1>4, <1>6, <2>4, <3>2 DEF BlockTypeOK, POOLED
      <4>2. QED
        BY <2>2, <2>4, <4>1 DEF BlockInv, ChainInv, Live
    <3>3. QED
      BY <3>1, <3>2
  <2>5. ASSUME NEW q \in Producers
        PROVE  /\ ppc'[q] \in {"tail", "write", "publish"} /\ IsLastSlot(ppos[q])
                    => Linked(pblk[q])'
               /\ ppc'[q] = "start" => prev[pnew[q]] = pblk[q]
               /\ ppc'[q] \in {"next", "tail"} => start'[pnew[q]] = LapStart(ppos[q]) + LAP
    <3>1. CASE q = p
      BY <1>2, <1>3, <1>4, <3>1
    <3>2. CASE q # p
      <4>1. ppc'[q] = ppc[q]
        BY <1>3, <3>2
      <4>2. ppc[q] \in {"tail", "write", "publish"} /\ IsLastSlot(ppos[q]) => Linked(pblk[q])'
        <5>1. ppc[q] \in {"tail", "write", "publish"} /\ IsLastSlot(ppos[q]) => Linked(pblk[q])
          BY DEF BlockInv, ChainInv
        <5>2. QED
          BY <1>4, <2>1, <2>2, <5>1 DEF FoundPCs
      <4>3. ppc[q] \in {"next", "tail"} => start'[pnew[q]] = LapStart(ppos[q]) + LAP
        <5>1. ppc[q] \in {"next", "tail"} =>
                /\ start[pnew[q]] = LapStart(ppos[q]) + LAP
                /\ pnew[q] \in Blocks /\ LapStart(ppos[q]) \in Nat
          BY <1>1, <2>1
             DEF BlockInv, ChainInv, PointerInv, NewPCs, InstallPCs, BlockTypeOK, FoundPCs
        <5>2. QED
          BY <1>5, <5>1, LapAssumption
      <4>4. QED
        BY <4>1, <4>2, <4>3 DEF BlockInv, ChainInv
    <3>3. QED
      BY <3>1, <3>2
  <2>6. QED
    BY <1>4, <1>5, <1>6, <2>3, <2>4, <2>5
       DEF ChainInv, Live, Lap, WrittenTag, BLOCK_CAP, LapStart, Offset, IsLastSlot
<1>12. FindInv'
  <2>1. \A q \in Producers : ppc[q] \in FoundPCs \cup {"prev"} =>
          start[pblk[q]] \in Nat /\ pblk[q] \in Blocks
    <3>1. SUFFICES ASSUME NEW q \in Producers, ppc[q] \in FoundPCs \cup {"prev"}
                   PROVE  start[pblk[q]] \in Nat /\ pblk[q] \in Blocks
      OBVIOUS
    <3>2. pblk[q] \in Blocks
      BY <1>1, <3>1 DEF BlockTypeOK, PointerInv, PointerPCs
    <3>3. LapStart(ppos[q]) \in Nat
      BY <1>1, OffsetsAndLaps DEF IndexTypeOK
    <3>4. QED
      BY <1>1, <3>1, <3>2, <3>3 DEF BlockInv, FindInv, BlockTypeOK, POOLED
  <2>2. QED
    BY <1>1, <1>3, <1>4, <1>5, <2>1 DEF BlockInv, FindInv, FoundPCs, LapStart, Offset
<1>13. ReadInv'
  <2>1. \A c \in Consumers :
          start[cblk[c]] = LapStart(cpos[c]) /\ cblk[c] # Null =>
          start'[cblk[c]] = LapStart(cpos[c])
    <3>1. \A c \in Consumers : LapStart(cpos[c]) \in Nat
      BY <1>1, OffsetsAndLaps DEF IndexTypeOK
    <3>2. QED
      BY <1>1, <1>5, <3>1 DEF BlockTypeOK
  <2>2. \A c \in Consumers : cpc[c] \in {"slot", "recheck", "cas"} \cup TakenPCs => cblk[c] # Null
    BY <1>1 DEF PointerInv
  <2>3. \A q \in Producers : ppc'[q] = "reset" => ppc[q] = "reset"
    BY <1>3
  <2>4. \A b \in Blocks : \A s \in marks[b] : start'[b] # POOLED /\ start'[b] + s < head
    BY <1>1, <1>4 DEF BlockInv, ReadInv
  <2>5. QED
    BY <1>4, <2>1, <2>2, <2>3, <2>4
       DEF BlockInv, ReadInv, ReadersDone, Slots, BLOCK_CAP, Offset, LapStart, Lap, WrittenTag, TakenPCs
<1>14. PoolInv'
  <2>1. UNCHANGED poolVars
    BY DEF SetStart, installFrame
  <2>2. /\ spare # Null => start'[spare] = POOLED
        /\ \A b \in Blocks : b \in ready \/ b >= fresh => start'[b] = POOLED
        /\ \A b \in retired : Left(b)'
    BY <1>1, <1>4, <1>5, <1>6 DEF BlockInv, PoolInv, BlockTypeOK, InPool, Left
  <2>3. \A q \in Producers :
          /\ ppc'[q] \in {"link", "start"} => start'[pnew[q]] = POOLED
          /\ ppc'[q] = "reset" => Left(pnew[q])'
    <3>1. SUFFICES ASSUME NEW q \in Producers, ppc'[q] \in {"link", "start", "reset"}
                   PROVE  /\ ppc'[q] \in {"link", "start"} => start'[pnew[q]] = POOLED
                          /\ ppc'[q] = "reset" => Left(pnew[q])'
      OBVIOUS
    <3>2. q # p /\ ppc'[q] = ppc[q] /\ Installs(q) /\ pnew[q] \in Blocks
      BY <1>1, <1>3, <3>1 DEF Installs, BlockTypeOK, PointerInv, NewPCs, InstallPCs
    <3>3. start'[pnew[q]] = start[pnew[q]]
      BY <1>1, <1>4, <3>2
    <3>4. QED
      BY <1>4, <1>5, <1>6, <3>2, <3>3 DEF BlockInv, PoolInv, Left
  <2>4. \A c \in Consumers :
          /\ cpc[c] \in {"recycle", "recycle_slow"} => start'[cblk[c]] = POOLED
          /\ Finishes(c) /\ start'[cblk[c]] # POOLED => Left(cblk[c])'
    BY <1>1, <1>4, <1>5, <1>6
       DEF BlockInv, PoolInv, BlockTypeOK, Left, Finishes, PointerInv, TakenPCs, FinishingPCs
  <2>5. QED
    BY <1>4, <2>1, <2>2, <2>3, <2>4 DEF PoolInv, Finishes
<1>15. OwnerInv'
  BY <1>1, <1>3, <1>4 DEF SetStart, BlockInv, OwnerInv, InPool, Installs, Finishes
<1>16. QED
  BY <1>7, <1>8, <1>9, <1>10, <1>11, <1>12, <1>13, <1>14, <1>15 DEF BlockInv

----------------------------------------------------------------------------
(* The end of push: the slot is the producer's, and the value it holds when *)
(* the tag is stored is the producer's.                                     *)

\* A slot of its block is the slot of one position.
LEMMA SlotIsOwn ==
    ASSUME IndexInv, BlockInv, NEW p \in Producers, ppc[p] \in {"write", "publish"}
    PROVE  /\ pblk[p] \in Blocks /\ Offset(ppos[p]) \in Slots
           /\ ppos[p] \in Nat /\ ppos[p] < tail
           /\ start[pblk[p]] = LapStart(ppos[p]) /\ start[pblk[p]] \in Nat
           /\ \A pos \in Nat : Offset(pos) = Offset(ppos[p])
                /\ LapStart(pos) = start[pblk[p]] => pos = ppos[p]
<1>1. /\ pblk[p] \in Blocks /\ ppos[p] \in Nat /\ ppos[p] < tail /\ ~IsSentinel(ppos[p])
      /\ start[pblk[p]] = LapStart(ppos[p])
  BY DEF IndexInv, IndexTypeOK, ClaimInv, BlockInv, BlockTypeOK, PointerInv, FindInv,
         PointerPCs, ClaimedPCs, FoundPCs
<1>2. QED
  BY <1>1, PositionInLap, OffsetsAndLaps, TagTellsLap DEF Slots

\* The store of the value.
LEMMA WriteValueKeeps ==
    ASSUME IndexInv, BlockInv, NEW p \in Producers, WriteValue(p)
    PROVE  BlockInv'
<1>1. /\ IndexTypeOK /\ BlockTypeOK /\ PointerInv /\ ppc[p] = "write"
      /\ ppc'[p] = "publish" /\ \A q \in Producers : q # p => ppc'[q] = ppc[q]
  BY DEF WriteValue, IndexInv, IndexTypeOK, BlockInv
<1>2. ClaimsKept
  BY <1>1, OwnerClaims DEF WriteValue, ClaimedPCs, FoundPCs, StartedPCs
<1>3. /\ value'[pblk[p]][Offset(ppos[p])] = ppos[p]
      /\ \A b \in Blocks, s \in Slots :
           b # pblk[p] \/ s # Offset(ppos[p]) => value'[b][s] = value[b][s]
      /\ value' \in [Blocks -> [Slots -> Nat \cup {NoValue}]]
      /\ UNCHANGED <<linkVars, state, marks, head, headBlock, tail, ppos, pblk, pnew,
                     cpc, cpos, cblk, poolVars>>
  BY <1>1, SlotIsOwn DEF WriteValue, BlockTypeOK
<1>4. BlockTypeOK' /\ PointerInv'
  BY <1>1, <1>3 DEF WriteValue, BlockTypeOK, PointerInv, PointerPCs, InstallPCs, NewPCs, FoundPCs
<1>5. LapInv' /\ HeadInv'
  BY <1>1, <1>2, <1>3, LapFrame, HeadFrame DEF BlockInv, WriteValue
<1>6. TagInv'
  <2>1. SUFFICES ASSUME NEW b \in Blocks, NEW s \in Slots, state[b][s] # 0
                 PROVE  \E pos \in 0..(tail - 1) : StandsFor(b, s, pos)'
    BY <1>3 DEF TagInv
  <2>2. PICK pos \in 0..(tail - 1) : StandsFor(b, s, pos)
    BY <2>1 DEF BlockInv, TagInv
  <2>3. pos \in Nat /\ LapStart(pos) \in Nat
    BY <1>1, OffsetsAndLaps DEF IndexTypeOK
  <2>4. LapBegun(LapStart(pos))'
    BY <1>1, <1>2, <2>2, <2>3, BegunStays DEF StandsFor
  <2>5. pos # ppos[p] /\ \A q \in Producers : ppc'[q] \in ClaimedPCs => ppos[q] # pos
    BY <1>1, <2>2 DEF StandsFor, ClaimedPCs, FoundPCs
  <2>6. start[b] = LapStart(pos) => value'[b][s] = pos
    BY <1>1, <1>3, <2>2, <2>3, <2>5, SlotIsOwn DEF StandsFor
  <2>7. QED
    BY <1>3, <2>2, <2>4, <2>5, <2>6 DEF StandsFor, Lap, LapStart, Offset, WrittenTag
<1>7. ChainInv'
  BY <1>1, <1>3 DEF BlockInv, ChainInv, Live, Linked
<1>8. FindInv'
  <2>1. \A q \in Producers : ppc[q] = "publish" => value'[pblk[q]][Offset(ppos[q])] = ppos[q]
    <3>1. SUFFICES ASSUME NEW q \in Producers, ppc[q] = "publish"
                   PROVE  value'[pblk[q]][Offset(ppos[q])] = ppos[q]
      OBVIOUS
    <3>2. ppos[q] # ppos[p]
      BY <1>1, <3>1 DEF IndexInv, ClaimInv, ClaimedPCs, FoundPCs
    <3>3. /\ pblk[q] \in Blocks /\ Offset(ppos[q]) \in Slots /\ ppos[q] \in Nat
          /\ start[pblk[q]] = LapStart(ppos[q])
      BY <3>1, SlotIsOwn
    <3>4. pblk[q] # pblk[p] \/ Offset(ppos[q]) # Offset(ppos[p])
      BY <1>1, <3>2, <3>3, SlotIsOwn
    <3>5. QED
      BY <1>3, <3>1, <3>3, <3>4 DEF BlockInv, FindInv
  <2>2. QED
    BY <1>1, <1>3, <2>1 DEF BlockInv, FindInv, FoundPCs, LapStart, Offset
<1>9. ReadInv' /\ PoolInv' /\ OwnerInv'
  BY <1>1, <1>3 DEF BlockInv, ReadInv, PoolInv, OwnerInv, InPool, Left, Installs, Finishes,
              ReadersDone
<1>10. QED
  BY <1>4, <1>5, <1>6, <1>7, <1>8, <1>9 DEF BlockInv

\* The store of the tag: the position is no longer claimed, and stands for its
\* value from now on.
LEMMA PublishKeeps ==
    ASSUME IndexInv, BlockInv, NEW p \in Producers, Publish(p)
    PROVE  BlockInv'
<1>1. /\ IndexTypeOK /\ BlockTypeOK /\ PointerInv /\ ppc[p] = "publish" /\ ppc'[p] = "idle"
      /\ \A q \in Producers : q # p =>
           ppc'[q] = ppc[q] /\ ppos'[q] = ppos[q] /\ pblk'[q] = pblk[q]
      /\ \A q \in Producers : q # p /\ ppc[q] \in ClaimedPCs => ppos[q] # ppos[p]
  BY DEF Publish, IndexInv, IndexTypeOK, ClaimInv, BlockInv, BlockTypeOK, ClaimedPCs, FoundPCs
<1>2. ClaimsKept
  BY <1>1 DEF Publish, ClaimsKept, ClaimedPCs, FoundPCs
<1>3. PICK w \in Nat : w = WrittenTag(Lap(ppos[p]))
  BY SlotIsOwn, OffsetsAndLaps, <1>1
<1>4. /\ state'[pblk[p]][Offset(ppos[p])] = w
      /\ \A b \in Blocks, s \in Slots :
           b # pblk[p] \/ s # Offset(ppos[p]) => state'[b][s] = state[b][s]
      /\ state' \in [Blocks -> [Slots -> Nat]]
      /\ UNCHANGED <<linkVars, value, marks, head, headBlock, tail, pnew,
                     cpc, cpos, cblk, poolVars>>
  BY <1>1, <1>3, SlotIsOwn DEF Publish, BlockTypeOK
<1>5. BlockTypeOK' /\ PointerInv'
  BY <1>1, <1>4 DEF Publish, BlockTypeOK, PointerInv, PointerPCs, InstallPCs, NewPCs, FoundPCs
<1>6. LapInv' /\ HeadInv'
  BY <1>1, <1>2, <1>4, LapFrame, HeadFrame DEF BlockInv, Publish
<1>7. TagInv'
  <2>1. SUFFICES ASSUME NEW b \in Blocks, NEW s \in Slots, state'[b][s] # 0
                 PROVE  \E pos \in 0..(tail - 1) : StandsFor(b, s, pos)'
    BY <1>4 DEF TagInv
  <2>2. CASE b = pblk[p] /\ s = Offset(ppos[p])
    <3>1. PICK pos \in 0..(tail - 1) : pos = ppos[p] /\ pos \in Nat
      BY <1>1, SlotIsOwn DEF IndexTypeOK
    <3>2. LapStart(pos) \in Nat /\ LapBegun(LapStart(pos))
      <4>1. pblk[p] \in Blocks /\ start[pblk[p]] \in Nat /\ start[pblk[p]] = LapStart(pos)
        BY <1>1, <3>1, SlotIsOwn
      <4>2. LapBegun(start[pblk[p]])
        BY <4>1 DEF BlockInv, LapInv, POOLED
      <4>3. QED
        BY <4>1, <4>2
    <3>3. LapBegun(LapStart(pos))'
      BY <1>1, <1>2, <3>2, BegunStays
    <3>4. \A q \in Producers : ppc'[q] \in ClaimedPCs => ppos'[q] # pos
      BY <1>1, <3>1 DEF ClaimedPCs, FoundPCs
    <3>5. value[b][s] = pos
      BY <1>1, <2>2, <3>1 DEF BlockInv, FindInv
    <3>6. QED
      BY <1>3, <1>4, <2>2, <3>1, <3>3, <3>4, <3>5 DEF StandsFor
  <2>3. CASE b # pblk[p] \/ s # Offset(ppos[p])
    <3>1. PICK pos \in 0..(tail - 1) : StandsFor(b, s, pos)
      BY <1>4, <2>1, <2>3 DEF BlockInv, TagInv
    <3>2. pos \in Nat /\ LapStart(pos) \in Nat
      BY <1>1, OffsetsAndLaps DEF IndexTypeOK
    <3>3. LapBegun(LapStart(pos))'
      BY <1>1, <1>2, <3>1, <3>2, BegunStays DEF StandsFor
    <3>4. \A q \in Producers : ppc'[q] \in ClaimedPCs => ppos'[q] # pos
      BY <1>1, <3>1 DEF StandsFor, ClaimedPCs, FoundPCs
    <3>5. QED
      BY <1>4, <2>3, <3>1, <3>3, <3>4 DEF StandsFor
  <2>4. QED
    BY <2>2, <2>3
<1>8. ChainInv'
  <2>1. \A b \in Blocks : Linked(b)' <=> Linked(b)
    BY <1>4 DEF Linked
  <2>2. ASSUME NEW b \in Blocks, Live(b),
               state'[b][BLOCK_CAP - 1] = WrittenTag(Lap(start[b]))
        PROVE  Linked(b)
    <3>1. BLOCK_CAP - 1 \in Slots
      BY LapAssumption DEF Slots, BLOCK_CAP
    <3>2. CASE b = pblk[p] /\ BLOCK_CAP - 1 = Offset(ppos[p])
      <4>1. IsLastSlot(ppos[p])
        BY <3>2, LapAssumption DEF IsLastSlot, BLOCK_CAP
      <4>2. QED
        BY <1>1, <3>2, <4>1 DEF BlockInv, ChainInv
    <3>3. CASE b # pblk[p] \/ BLOCK_CAP - 1 # Offset(ppos[p])
      BY <1>4, <2>2, <3>1, <3>3 DEF BlockInv, ChainInv
    <3>4. QED
      BY <3>2, <3>3
  <2>3. QED
    BY <1>1, <1>4, <2>1, <2>2 DEF BlockInv, ChainInv, Live, Linked, BLOCK_CAP
<1>9. FindInv'
  BY <1>1, <1>4 DEF BlockInv, FindInv, FoundPCs
<1>10. ReadInv'
  <2>1. ASSUME NEW c \in Consumers, cblk[c] \in Blocks, cpos[c] \in Nat, ~IsSentinel(cpos[c]),
               start[cblk[c]] = LapStart(cpos[c]),
               state[cblk[c]][Offset(cpos[c])] = WrittenTag(Lap(cpos[c]))
        PROVE  state'[cblk[c]][Offset(cpos[c])] = WrittenTag(Lap(cpos[c]))
    <3>1. Offset(cpos[c]) \in Slots
      BY <2>1, PositionInLap DEF Slots
    <3>2. CASE cblk[c] = pblk[p] /\ Offset(cpos[c]) = Offset(ppos[p])
      BY <1>1, <1>3, <1>4, <2>1, <3>2, SlotIsOwn
    <3>3. CASE cblk[c] # pblk[p] \/ Offset(cpos[c]) # Offset(ppos[p])
      BY <1>4, <2>1, <3>1, <3>3
    <3>4. QED
      BY <3>2, <3>3
  <2>2. \A c \in Consumers : cpc[c] \in {"cas"} \cup TakenPCs =>
          cblk[c] \in Blocks /\ cpos[c] \in Nat /\ ~IsSentinel(cpos[c])
    BY <1>1 DEF IndexInv, TakeInv, IndexTypeOK, BlockTypeOK, PointerInv
  <2>3. \A q \in Producers : ppc'[q] = "reset" => ppc[q] = "reset"
    BY <1>1
  <2>4. QED
    BY <1>4, <2>1, <2>2, <2>3 DEF BlockInv, ReadInv, ReadersDone, TakenPCs
<1>11. PoolInv' /\ OwnerInv'
  BY <1>1, <1>4 DEF BlockInv, PoolInv, OwnerInv, InPool, Left, Installs, Finishes
<1>12. QED
  BY <1>5, <1>6, <1>7, <1>8, <1>9, <1>10, <1>11 DEF BlockInv

----------------------------------------------------------------------------
(* The consumers, up to their claim, read only.                             *)

\* Loads of the index, and the look at the slot.
LEMMA LookKeeps ==
    ASSUME IndexInv, BlockInv, NEW c \in Consumers,
           \/ StartPop(c) \/ PollSentinel(c) \/ GiveUpOnSentinel(c)
           \/ CheckSlot(c) \/ ReturnNone(c) \/ LookAgain(c) \/ ClaimFail(c)
    PROVE  BlockInv'
<1>1. /\ IndexTypeOK /\ BlockTypeOK /\ PointerInv
      /\ cpc[c] \notin TakenPCs /\ cpc'[c] \in {"idle", "block", "cas", "recheck"}
      /\ cpc'[c] = "cas" => state[cblk[c]][Offset(cpos[c])] = WrittenTag(Lap(cpos[c]))
      /\ cpc'[c] \in {"cas", "recheck"} => /\ cpc[c] = "slot"
                                           /\ cblk'[c] = cblk[c] /\ cpos'[c] = cpos[c]
      /\ cblk'[c] \in {cblk[c], Null}
      /\ \A d \in Consumers : d # c =>
           cpc'[d] = cpc[d] /\ cpos'[d] = cpos[d] /\ cblk'[d] = cblk[d]
      /\ UNCHANGED <<indexVars, tailBlock, headVars, blockVars, poolVars, prodVars>>
  BY DEF StartPop, PollSentinel, GiveUpOnSentinel, CheckSlot, ReturnNone, LookAgain,
         ClaimFail, IndexInv, IndexTypeOK, BlockInv, BlockTypeOK, TakenPCs
<1>2. cblk' \in [Consumers -> Blocks \cup {Null}] /\ cval' \in [Consumers -> Nat \cup {NoValue}]
  BY <1>1 DEF StartPop, PollSentinel, GiveUpOnSentinel, CheckSlot, ReturnNone, LookAgain,
              ClaimFail, BlockTypeOK
<1>3. ClaimsKept
  BY <1>1, ConsumerClaims
<1>4. BlockTypeOK' /\ PointerInv'
  <2>1. BlockTypeOK'
    BY <1>1, <1>2 DEF BlockTypeOK
  <2>2. PointerInv'
    BY <1>1 DEF PointerInv, TakenPCs, FinishingPCs
  <2>3. QED
    BY <2>1, <2>2
<1>5. LapInv' /\ TagInv' /\ HeadInv'
  BY <1>1, <1>3, LapFrame, TagFrame, HeadFrame DEF BlockInv, TakenPCs
<1>6. ChainInv' /\ FindInv'
  BY <1>1 DEF BlockInv, ChainInv, FindInv, Live, Linked
<1>7. ReadInv'
  BY <1>1 DEF BlockInv, ReadInv, ReadersDone, TakenPCs
<1>8. PoolInv' /\ OwnerInv'
  BY <1>1 DEF BlockInv, PoolInv, OwnerInv, InPool, Left, Installs, Finishes, FinishingPCs, TakenPCs
<1>9. QED
  BY <1>4, <1>5, <1>6, <1>7, <1>8 DEF BlockInv

\* The load of head.block: the block of the lap, if the index is still current.
LEMMA LoadHeadBlockKeeps ==
    ASSUME IndexInv, BlockInv, NEW c \in Consumers, LoadHeadBlock(c)
    PROVE  BlockInv'
<1>1. /\ IndexTypeOK /\ BlockTypeOK /\ PointerInv /\ cpc[c] = "block"
      /\ \/ cpc'[c] = "spin" /\ cblk'[c] = Null
         \/ cpc'[c] = "slot" /\ cblk'[c] = headBlock /\ ~IsSentinel(cpos[c])
      /\ \A d \in Consumers : d # c => cpc'[d] = cpc[d] /\ cblk'[d] = cblk[d]
      /\ UNCHANGED <<indexVars, tailBlock, headVars, blockVars, poolVars, prodVars, cpos, cval>>
  BY DEF LoadHeadBlock, IndexInv, IndexTypeOK, BlockInv, BlockTypeOK
<1>2. ClaimsKept
  BY <1>1, ConsumerClaims
<1>3. BlockTypeOK'
  BY <1>1 DEF LoadHeadBlock, BlockTypeOK
<1>4. PointerInv'
  BY <1>1 DEF BlockTypeOK, PointerInv, TakenPCs, FinishingPCs, Blocks, Null
<1>5. LapInv' /\ TagInv' /\ HeadInv'
  BY <1>1, <1>2, LapFrame, TagFrame, HeadFrame DEF BlockInv
<1>6. ChainInv' /\ FindInv'
  BY <1>1 DEF BlockInv, ChainInv, FindInv, Live, Linked
<1>7. ReadInv'
  BY <1>1, HeadLap DEF BlockInv, ReadInv, ReadersDone, TakenPCs
<1>8. PoolInv' /\ OwnerInv'
  BY <1>1 DEF BlockInv, PoolInv, OwnerInv, InPool, Left, Installs, Finishes, FinishingPCs
<1>9. QED
  BY <1>3, <1>4, <1>5, <1>6, <1>7, <1>8 DEF BlockInv

----------------------------------------------------------------------------
(* The claim of the head, and the reader's steps.                           *)

\* A slot with the tag of the lap its block serves holds the value of its
\* position, whose push is over.
LEMMA WrittenSlot ==
    ASSUME IndexInv, BlockInv, NEW b \in Blocks, NEW pos \in Nat, ~IsSentinel(pos),
           start[b] = LapStart(pos), state[b][Offset(pos)] = WrittenTag(Lap(pos))
    PROVE  /\ pos < tail /\ value[b][Offset(pos)] = pos
           /\ \A p \in Producers : ppc[p] \in ClaimedPCs => ppos[p] # pos
<1>1. Offset(pos) \in Slots /\ state[b][Offset(pos)] # 0 /\ tail \in Nat
  BY PositionInLap DEF Slots, IndexInv, IndexTypeOK
<1>2. PICK qos \in 0..(tail - 1) : StandsFor(b, Offset(pos), qos)
  BY <1>1 DEF BlockInv, TagInv
<1>3. qos \in Nat /\ qos < tail
  BY <1>1
<1>4. qos = pos
  BY <1>2, <1>3, TagTellsLap DEF StandsFor
<1>5. QED
  BY <1>2, <1>3, <1>4 DEF StandsFor

\* The CAS of the head: its slot is written, so that its push is over.
LEMMA ClaimHeadKeeps ==
    ASSUME IndexInv, BlockInv, NEW c \in Consumers, ClaimHead(c)
    PROVE  BlockInv'
<1>1. /\ IndexTypeOK /\ BlockTypeOK /\ PointerInv /\ cpc[c] = "cas" /\ cpc'[c] = "read"
      /\ \A d \in Consumers : d # c => cpc'[d] = cpc[d]
      /\ cpos[c] = head /\ head \in Nat /\ head' = head + 1
      /\ ~IsSentinel(cpos[c]) /\ cblk[c] \in Blocks
      /\ start[cblk[c]] = LapStart(cpos[c])
      /\ state[cblk[c]][Offset(cpos[c])] = WrittenTag(Lap(cpos[c]))
      /\ UNCHANGED <<indexVars, tailBlock, headBlock, blockVars, poolVars, prodVars,
                     cpos, cblk, cval>>
  BY DEF ClaimHead, IndexInv, IndexTypeOK, TakeInv, BlockInv, BlockTypeOK, PointerInv, ReadInv
<1>2. ClaimsKept
  BY <1>1, ConsumerClaims
<1>3. /\ head < tail
      /\ \A p \in Producers : ppc[p] \in ClaimedPCs => ppos[p] # head
  BY <1>1, WrittenSlot
<1>4. BlockTypeOK' /\ PointerInv'
  BY <1>1 DEF BlockTypeOK, PointerInv, TakenPCs, FinishingPCs
<1>5. LapInv' /\ TagInv'
  BY <1>1, <1>2, LapFrame, TagFrame DEF BlockInv
<1>6. HeadInv'
  <2>1. start[headBlock] = LapStart(head) /\ LapStart(head') = LapStart(head)
    BY <1>1, HeadLap, LapsInOrder
  <2>2. \A d \in Consumers : cpc[d] # "advance"
    BY <1>1, SentinelFollowsLastSlot DEF IndexInv, IndexTypeOK, TakeInv, Moving
  <2>3. \A p \in Producers : ppc[p] \in ClaimedPCs => head' <= ppos[p]
    BY <1>1, <1>3 DEF BlockInv, HeadInv, IndexTypeOK
  <2>4. head' <= tail
    BY <1>1, <1>3 DEF IndexTypeOK
  <2>5. QED
    BY <1>1, <2>1, <2>2, <2>3, <2>4 DEF HeadInv, IsSentinel, Offset, LapStart
<1>7. ChainInv' /\ FindInv'
  BY <1>1 DEF BlockInv, ChainInv, FindInv, Live, Linked
<1>8. ReadInv'
  <2>1. Offset(cpos[c]) \notin marks[cblk[c]]
    <3>1. cpos[c] = LapStart(cpos[c]) + Offset(cpos[c]) /\ LapStart(cpos[c]) \in Nat
      BY <1>1, PositionInLap, OffsetsAndLaps
    <3>2. QED
      BY <1>1, <3>1 DEF BlockInv, ReadInv
  <2>2. \A d \in Consumers : head' # cpos[d]
    BY <1>1 DEF IndexInv, IndexTypeOK, TakeInv
  <2>3. \A b \in Blocks : \A s \in marks[b] : start[b] # POOLED /\ start[b] + s < head'
    BY <1>1, LapAssumption DEF BlockInv, ReadInv, BlockTypeOK, POOLED, Slots, BLOCK_CAP
  <2>4. QED
    BY <1>1, <2>1, <2>2, <2>3 DEF BlockInv, ReadInv, ReadersDone, TakenPCs
<1>9. PoolInv' /\ OwnerInv'
  BY <1>1 DEF BlockInv, PoolInv, OwnerInv, InPool, Left, Installs, Finishes, FinishingPCs
<1>10. QED
  BY <1>4, <1>5, <1>6, <1>7, <1>8, <1>9 DEF BlockInv

\* A step that this queue does not take, but the exclusive consumer does, seen
\* from here (MpscTheorems): while all consumers are idle, one of them takes the
\* value at the head at once, and leaves no mark.
TakesAtOnce(c) ==
    /\ \A d \in Consumers : cpc[d] = "idle"
    /\ ~IsSentinel(head) /\ state[headBlock][Offset(head)] = WrittenTag(Lap(head))
    /\ head' = head + 1
    /\ \/ IsLastSlot(head) /\ cpc' = [cpc EXCEPT ![c] = "next"]
            /\ cpos' = [cpos EXCEPT ![c] = head] /\ cblk' = [cblk EXCEPT ![c] = headBlock]
       \/ ~IsLastSlot(head) /\ UNCHANGED <<cpc, cpos, cblk>>
    /\ UNCHANGED <<indexVars, tailBlock, headBlock, blockVars, poolVars, prodVars,
                   cval, ccount>>

LEMMA TakeAtOnceKeeps ==
    ASSUME IndexInv, BlockInv, NEW c \in Consumers, TakesAtOnce(c)
    PROVE  BlockInv'
<1>1. /\ IndexTypeOK /\ BlockTypeOK /\ PointerInv /\ head \in Nat /\ head' = head + 1
      /\ \A d \in Consumers : cpc[d] = "idle"
      /\ ~IsSentinel(head) /\ headBlock \in Blocks
      /\ state[headBlock][Offset(head)] = WrittenTag(Lap(head))
      /\ UNCHANGED <<indexVars, tailBlock, headBlock, blockVars, poolVars, prodVars, cval>>
  BY DEF TakesAtOnce, IndexInv, IndexTypeOK, BlockInv, BlockTypeOK
<1>2. \A d \in Consumers :
        \/ cpc'[d] = "idle" /\ cblk'[d] = cblk[d]
        \/ /\ cpc'[d] = "next" /\ cpos'[d] = head /\ cblk'[d] = headBlock
           /\ IsLastSlot(head) /\ d = c
  BY <1>1 DEF TakesAtOnce, IndexTypeOK, BlockTypeOK
<1>3. ClaimsKept
  BY <1>1, ConsumerClaims
<1>4. start[headBlock] = LapStart(head) /\ LapStart(head + 1) = LapStart(head)
  BY <1>1, HeadLap, LapsInOrder
<1>5. /\ head < tail
      /\ \A p \in Producers : ppc[p] \in ClaimedPCs => ppos[p] # head
  BY <1>1, <1>4, WrittenSlot
<1>6. BlockTypeOK'
  BY <1>1 DEF TakesAtOnce, BlockTypeOK
<1>7. PointerInv'
  <2>1. headBlock # Null
    BY <1>1 DEF Blocks, Null
  <2>2. \A d \in Consumers :
          /\ cpc'[d] \in TakenPCs \cup {"slot", "recheck", "cas"} => cblk'[d] # Null
          /\ cpc'[d] \in TakenPCs => ~IsSentinel(cpos'[d])
          /\ cpc'[d] = "mark" => ~IsLastSlot(cpos'[d])
          /\ cpc'[d] \in FinishingPCs => IsLastSlot(cpos'[d])
    BY <1>1, <1>2, <2>1 DEF TakenPCs, FinishingPCs
  <2>3. QED
    BY <1>1, <2>2 DEF PointerInv, IsLastSlot, IsSentinel, Offset, BLOCK_CAP
<1>8. LapInv' /\ TagInv'
  BY <1>1, <1>3, LapFrame, TagFrame DEF BlockInv
<1>9. HeadInv'
  <2>1. \A d \in Consumers : cpc'[d] # "advance"
    BY <1>2
  <2>2. \A p \in Producers : ppc[p] \in ClaimedPCs => head' <= ppos[p]
    BY <1>1, <1>5 DEF BlockInv, HeadInv, IndexTypeOK
  <2>3. head' <= tail
    BY <1>1, <1>5 DEF IndexTypeOK
  <2>4. QED
    BY <1>1, <1>4, <2>1, <2>2, <2>3 DEF HeadInv, IsSentinel, Offset, LapStart
<1>10. ChainInv' /\ FindInv'
  BY <1>1 DEF BlockInv, ChainInv, FindInv, Live, Linked
<1>11. ReadInv'
  <2>1. \A b \in Blocks : \A s \in marks[b] : start[b] # POOLED /\ start[b] + s < head'
    BY <1>1, LapAssumption DEF BlockInv, ReadInv, BlockTypeOK, POOLED, Slots, BLOCK_CAP
  <2>2. \A d \in Consumers :
          /\ cpc'[d] \notin {"slot", "recheck", "cas", "read", "mark", "reset"}
          /\ cpc'[d] \in TakenPCs =>
               /\ start[cblk'[d]] = LapStart(cpos'[d])
               /\ state[cblk'[d]][Offset(cpos'[d])] = WrittenTag(Lap(cpos'[d]))
    BY <1>1, <1>2, <1>4 DEF TakenPCs
  <2>3. QED
    BY <1>1, <2>1, <2>2 DEF BlockInv, ReadInv, ReadersDone, TakenPCs, Offset, LapStart, Lap, WrittenTag
<1>12. PoolInv' /\ OwnerInv'
  <2>1. \A d \in Consumers : cpc'[d] \notin FinishingPCs
    BY <1>2 DEF FinishingPCs
  <2>2. QED
    BY <1>1, <2>1 DEF BlockInv, PoolInv, OwnerInv, InPool, Left, Installs, Finishes, FinishingPCs
<1>13. QED
  BY <1>6, <1>7, <1>8, <1>9, <1>10, <1>11, <1>12 DEF BlockInv

\* The move of the value out of the slot.
LEMMA ReadValueKeeps ==
    ASSUME IndexInv, BlockInv, NEW c \in Consumers, ReadValue(c)
    PROVE  BlockInv'
<1>1. /\ IndexTypeOK /\ BlockTypeOK /\ PointerInv /\ cpc[c] = "read"
      /\ \/ cpc'[c] = "next" /\ IsLastSlot(cpos[c])
         \/ cpc'[c] = "mark" /\ ~IsLastSlot(cpos[c])
      /\ \A d \in Consumers : d # c => cpc'[d] = cpc[d]
      /\ UNCHANGED <<indexVars, tailBlock, headVars, blockVars, poolVars, prodVars,
                     cpos, cblk>>
  BY DEF ReadValue, IndexInv, IndexTypeOK, BlockInv
<1>2. ClaimsKept
  BY <1>1, ConsumerClaims
<1>3. cblk[c] \in Blocks /\ Offset(cpos[c]) \in Slots
  BY <1>1, PositionInLap DEF IndexTypeOK, BlockTypeOK, PointerInv, TakenPCs, Slots
<1>4. BlockTypeOK'
  BY <1>1, <1>3 DEF ReadValue, BlockTypeOK
<1>5. PointerInv'
  BY <1>1 DEF PointerInv, TakenPCs, FinishingPCs, IsLastSlot, IsSentinel, Offset, BLOCK_CAP
<1>6. LapInv' /\ TagInv' /\ HeadInv'
  BY <1>1, <1>2, LapFrame, TagFrame, HeadFrame DEF BlockInv
<1>7. ChainInv' /\ FindInv'
  BY <1>1 DEF BlockInv, ChainInv, FindInv, Live, Linked
<1>8. ReadInv'
  BY <1>1 DEF BlockInv, ReadInv, ReadersDone, TakenPCs
<1>9. PoolInv' /\ OwnerInv'
  BY <1>1 DEF BlockInv, PoolInv, OwnerInv, InPool, Left, Installs, Finishes, FinishingPCs
<1>10. QED
  BY <1>4, <1>5, <1>6, <1>7, <1>8, <1>9 DEF BlockInv

\* mark_read.
LEMMA MarkReadKeeps ==
    ASSUME IndexInv, BlockInv, NEW c \in Consumers, MarkRead(c)
    PROVE  BlockInv'
<1>1. /\ IndexTypeOK /\ BlockTypeOK /\ PointerInv /\ cpc[c] = "mark"
      /\ cpc'[c] = "idle" /\ cblk'[c] = Null
      /\ \A d \in Consumers : d # c =>
           cpc'[d] = cpc[d] /\ cpos'[d] = cpos[d] /\ cblk'[d] = cblk[d]
      /\ UNCHANGED <<indexVars, tailBlock, headVars, linkVars, slotVars, poolVars, prodVars>>
  BY DEF MarkRead, IndexInv, IndexTypeOK, BlockInv, BlockTypeOK
<1>2. ClaimsKept
  BY <1>1, ConsumerClaims
<1>3. /\ cblk[c] \in Blocks /\ Offset(cpos[c]) \in Slots /\ cpos[c] \in Nat /\ cpos[c] < head
      /\ start[cblk[c]] = LapStart(cpos[c]) /\ LapStart(cpos[c]) \in Nat
      /\ cpos[c] = LapStart(cpos[c]) + Offset(cpos[c])
  <2>1. /\ cblk[c] \in Blocks /\ cpos[c] \in Nat /\ cpos[c] < head
        /\ start[cblk[c]] = LapStart(cpos[c]) /\ ~IsSentinel(cpos[c])
    BY <1>1 DEF IndexInv, IndexTypeOK, TakeInv, BlockInv, BlockTypeOK, PointerInv, ReadInv,
                TakenPCs
  <2>2. QED
    BY <2>1, PositionInLap, OffsetsAndLaps DEF Slots
<1>4. /\ marks'[cblk[c]] = marks[cblk[c]] \cup {Offset(cpos[c])}
      /\ \A b \in Blocks : b # cblk[c] => marks'[b] = marks[b]
      /\ marks' \in [Blocks -> SUBSET Slots]
  BY <1>1, <1>3 DEF MarkRead, BlockTypeOK
<1>5. BlockTypeOK' /\ PointerInv'
  BY <1>1, <1>4 DEF MarkRead, BlockTypeOK, PointerInv, TakenPCs, FinishingPCs
<1>6. LapInv' /\ TagInv' /\ HeadInv'
  BY <1>1, <1>2, LapFrame, TagFrame, HeadFrame DEF BlockInv
<1>7. ChainInv' /\ FindInv'
  BY <1>1 DEF BlockInv, ChainInv, FindInv, Live, Linked
<1>8. ReadInv'
  <2>1. \A b \in Blocks : marks[b] \subseteq marks'[b]
    BY <1>4
  <2>2. ASSUME NEW d \in Consumers, d # c, cpc[d] \in {"read", "mark"}
        PROVE  Offset(cpos[d]) \notin marks'[cblk[d]]
    <3>1. /\ cpos[d] # cpos[c] /\ cpos[d] \in Nat /\ cblk[d] \in Blocks
          /\ start[cblk[d]] = LapStart(cpos[d]) /\ Offset(cpos[d]) \notin marks[cblk[d]]
      <4>1. cpos[d] # cpos[c] /\ cpos[d] \in Nat
        BY <1>1, <2>2 DEF IndexInv, IndexTypeOK, TakeInv, TakenPCs
      <4>2. cblk[d] \in Blocks
        BY <2>2 DEF BlockInv, BlockTypeOK, PointerInv, TakenPCs
      <4>3. start[cblk[d]] = LapStart(cpos[d]) /\ Offset(cpos[d]) \notin marks[cblk[d]]
        BY <2>2 DEF BlockInv, ReadInv, TakenPCs
      <4>4. QED
        BY <4>1, <4>2, <4>3
    <3>2. cblk[d] # cblk[c] \/ Offset(cpos[d]) # Offset(cpos[c])
      BY <1>3, <3>1, TagTellsLap
    <3>3. QED
      BY <1>4, <3>1, <3>2
  <2>3. \A d \in Consumers : cpc[d] = "reset" => cblk[d] \in Blocks /\ ReadersDone(cblk[d])
    BY <1>1 DEF BlockInv, BlockTypeOK, PointerInv, ReadInv, TakenPCs
  <2>4. \A q \in Producers : ppc[q] = "reset" => pnew[q] \in Blocks /\ ReadersDone(pnew[q])
    BY <1>1 DEF BlockInv, BlockTypeOK, PointerInv, ReadInv, NewPCs, InstallPCs
  <2>5. \A b \in Blocks : \A s \in marks'[b] : start[b] # POOLED /\ start[b] + s < head
    BY <1>3, <1>4 DEF BlockInv, ReadInv, POOLED
  <2>6. QED
    BY <1>1, <2>1, <2>2, <2>3, <2>4, <2>5 DEF BlockInv, ReadInv, ReadersDone, TakenPCs
<1>9. PoolInv' /\ OwnerInv'
  BY <1>1 DEF BlockInv, PoolInv, OwnerInv, InPool, Left, Installs, Finishes, FinishingPCs
<1>10. QED
  BY <1>5, <1>6, <1>7, <1>8, <1>9 DEF BlockInv

----------------------------------------------------------------------------
(* finish_block and recycle.                                                *)

\* A block that the head has not left is no one's to reuse.
LEMMA LiveIsFree ==
    ASSUME IndexInv, BlockInv, NEW x \in Blocks, Live(x)
    PROVE  /\ ~InPool(x)
           /\ \A p \in Producers : Installs(p) => pnew[p] # x
           /\ \A c \in Consumers : Finishes(c) => cblk[c] # x
<1>1. start[x] # POOLED /\ ~Left(x)
  BY HeadServes DEF Live, Left, POOLED, BlockInv, BlockTypeOK
<1>2. x # Null
  BY DEF Blocks, Null
<1>3. QED
  BY <1>1, <1>2 DEF BlockInv, PoolInv, InPool, Installs, Finishes

\* Who takes the last slot of a block is still in the head's block, and the
\* producer of that slot has linked the next one.
LEMMA LastSlotTaken ==
    ASSUME IndexInv, BlockInv, NEW c \in Consumers, cpc[c] = "next"
    PROVE  /\ cblk[c] = headBlock /\ next[cblk[c]] \in Blocks
           /\ start[next[cblk[c]]] = start[headBlock] + LAP
           /\ start[next[cblk[c]]] = cpos[c] + 2
<1>1. /\ cblk[c] \in Blocks /\ cpos[c] \in Nat /\ IsLastSlot(cpos[c]) /\ Moving(c)
      /\ next \in [Blocks -> Blocks \cup {Null}]
  BY DEF IndexInv, IndexTypeOK, TakeInv, Moving, BlockInv, BlockTypeOK, PointerInv, TakenPCs
<1>2. /\ start[cblk[c]] = LapStart(cpos[c]) /\ LapStart(cpos[c]) \in Nat
      /\ state[cblk[c]][Offset(cpos[c])] = WrittenTag(Lap(cpos[c]))
  BY <1>1, OffsetsAndLaps DEF BlockInv, ReadInv, TakenPCs
<1>3. cblk[c] = headBlock
  BY <1>1, <1>2, HeadLap, HeadServes DEF BlockInv, LapInv, POOLED
<1>4. WrittenTag(Lap(start[cblk[c]])) = WrittenTag(Lap(cpos[c]))
  BY <1>1, <1>2, PositionInLap, TagTellsLap
<1>5. Offset(cpos[c]) = BLOCK_CAP - 1 /\ LapStart(cpos[c]) + LAP = cpos[c] + 2
  BY <1>1, PositionInLap
<1>6. Linked(cblk[c])
  BY <1>1, <1>2, <1>3, <1>4, <1>5, HeadServes DEF BlockInv, ChainInv, Live
<1>7. QED
  BY <1>1, <1>2, <1>3, <1>5, <1>6 DEF Linked

\* The store of head.block: from here on the consumer's block is left.
LEMMA MoveHeadBlockKeeps ==
    ASSUME IndexInv, BlockInv, NEW c \in Consumers, MoveHeadBlock(c)
    PROVE  BlockInv'
<1>1. /\ IndexTypeOK /\ BlockTypeOK /\ PointerInv /\ cpc[c] = "next"
      /\ cpc'[c] = "advance" /\ \A d \in Consumers : d # c => cpc'[d] = cpc[d]
      /\ cblk[c] \in Blocks /\ cpos[c] \in Nat /\ IsLastSlot(cpos[c]) /\ Moving(c)
      /\ head = cpos[c] + 1
      /\ headBlock' = next[cblk[c]]
      /\ UNCHANGED <<indexVars, tailBlock, head, blockVars, poolVars, prodVars,
                     cpos, cblk, cval>>
  BY DEF MoveHeadBlock, IndexInv, IndexTypeOK, TakeInv, Moving, BlockInv, BlockTypeOK,
         PointerInv, TakenPCs
<1>2. start[cblk[c]] = LapStart(cpos[c]) /\ LapStart(cpos[c]) \in Nat
  BY <1>1, OffsetsAndLaps DEF BlockInv, ReadInv, TakenPCs
<1>3. cblk[c] = headBlock
  BY <1>1, LastSlotTaken
<1>4. /\ headBlock' \in Blocks /\ start[headBlock'] = start[headBlock] + LAP
      /\ start[headBlock'] = head + 1
  BY <1>1, LastSlotTaken
<1>5. /\ start[headBlock'] > start[headBlock] /\ start[headBlock] \in Nat
      /\ start[headBlock'] \in Nat
  BY <1>4, HeadServes, LapAssumption
<1>6. ClaimsKept
  BY <1>1, ConsumerClaims
<1>7. BlockTypeOK' /\ PointerInv'
  BY <1>1, <1>4 DEF BlockTypeOK, PointerInv, TakenPCs, FinishingPCs
<1>8. LapInv' /\ TagInv'
  BY <1>1, <1>6, LapFrame, TagFrame DEF BlockInv
<1>9. HeadInv'
  BY <1>1, <1>4 DEF BlockInv, HeadInv, IsSentinel, Offset
<1>10. ChainInv' /\ FindInv'
  <2>1. \A b \in Blocks : start[b] >= start[headBlock'] => start[b] > start[headBlock]
    BY <1>1, <1>4, <1>5 DEF BlockTypeOK, POOLED
  <2>2. \A b \in Blocks : start[b] > start[headBlock'] => start[b] > start[headBlock]
    BY <1>1, <1>4, <1>5 DEF BlockTypeOK, POOLED
  <2>3. \A b \in Blocks : (Live(b)' => Live(b)) /\ (Linked(b)' <=> Linked(b))
    BY <1>1, <1>5, <2>1 DEF Live, Linked, BlockTypeOK, POOLED
  <2>4. QED
    BY <1>1, <2>2, <2>3 DEF BlockInv, ChainInv, FindInv, Linked, Lap, WrittenTag
<1>11. ReadInv'
  BY <1>1, <1>2 DEF BlockInv, ReadInv, ReadersDone, TakenPCs
<1>12. PoolInv'
  <2>1. \A b \in Blocks : Left(b) => Left(b)'
    BY <1>1, <1>5 DEF Left, BlockTypeOK, POOLED
  <2>2. Left(cblk[c])'
    BY <1>1, <1>2, <1>3, <1>5 DEF Left, POOLED
  <2>3. \A q \in Producers : ppc[q] = "reset" => pnew[q] \in Blocks
    BY <1>1 DEF BlockTypeOK, PointerInv, NewPCs, InstallPCs
  <2>4. \A d \in Consumers : Finishes(d) => cblk[d] \in Blocks
    BY <1>1 DEF BlockTypeOK, PointerInv, TakenPCs, Finishes, FinishingPCs
  <2>5. /\ \A b \in retired : Left(b)'
        /\ \A q \in Producers : ppc[q] = "reset" => Left(pnew[q])'
    BY <1>1, <2>1, <2>3 DEF BlockInv, PoolInv, BlockTypeOK
  <2>6. \A d \in Consumers :
          /\ cpc'[d] \in {"recycle", "recycle_slow"} => start[cblk[d]] = POOLED
          /\ cpc'[d] \in FinishingPCs /\ start[cblk[d]] # POOLED => Left(cblk[d])'
    BY <1>1, <2>1, <2>2, <2>4 DEF BlockInv, PoolInv, Finishes
  <2>7. QED
    BY <1>1, <2>5, <2>6 DEF BlockInv, PoolInv, Finishes
<1>13. OwnerInv'
  <2>1. Live(cblk[c])
    BY <1>3, HeadServes DEF Live
  <2>2. /\ ~InPool(cblk[c])
        /\ \A p \in Producers : Installs(p) => pnew[p] # cblk[c]
        /\ \A d \in Consumers : Finishes(d) => cblk[d] # cblk[c]
    BY <1>1, <2>1, LiveIsFree
  <2>3. QED
    BY <1>1, <2>2 DEF BlockInv, OwnerInv, InPool, Installs, Finishes
<1>14. QED
  BY <1>7, <1>8, <1>9, <1>10, <1>11, <1>12, <1>13 DEF BlockInv

\* The move of head.index over the sentinel.
LEMMA MoveHeadIndexKeeps ==
    ASSUME IndexInv, BlockInv, NEW c \in Consumers, MoveHeadIndex(c)
    PROVE  BlockInv'
<1>1. /\ IndexTypeOK /\ BlockTypeOK /\ PointerInv /\ cpc[c] = "advance"
      /\ cpc'[c] = "readers" /\ \A d \in Consumers : d # c => cpc'[d] = cpc[d]
      /\ cpos[c] \in Nat /\ IsLastSlot(cpos[c]) /\ Moving(c)
      /\ \A d \in Consumers : d # c => ~Moving(d)
      /\ head = cpos[c] + 1 /\ head' = head + 1 /\ head \in Nat
      /\ UNCHANGED <<indexVars, tailBlock, headBlock, blockVars, poolVars, prodVars,
                     cpos, cblk, cval>>
  <2>1. \A d \in Consumers : d # c => ~Moving(d)
    BY DEF MoveHeadIndex, IndexInv, IndexTypeOK, TakeInv, Moving, TakenPCs
  <2>2. QED
    BY <2>1 DEF MoveHeadIndex, IndexInv, IndexTypeOK, TakeInv, Moving, BlockInv
<1>2. ClaimsKept
  BY <1>1, ConsumerClaims
<1>3. IsSentinel(head) /\ ~IsSentinel(cpos[c])
  BY <1>1, SentinelFollowsLastSlot
<1>4. BlockTypeOK' /\ PointerInv'
  BY <1>1 DEF BlockTypeOK, PointerInv, TakenPCs, FinishingPCs
<1>5. LapInv' /\ TagInv'
  BY <1>1, <1>2, LapFrame, TagFrame DEF BlockInv
<1>6. HeadInv'
  <2>1. \A d \in Consumers : cpc'[d] # "advance"
    BY <1>1 DEF Moving
  <2>2. start[headBlock] = LapStart(head')
    BY <1>1, <1>3, HeadLap, LapsInOrder
  <2>3. head' <= tail \/ (head' = tail + 1 /\ IsSentinel(tail))
    BY <1>1, <1>3 DEF BlockInv, HeadInv, IndexTypeOK
  <2>4. \A p \in Producers : ppc[p] \in ClaimedPCs => head' <= ppos[p]
    BY <1>1, <1>3 DEF BlockInv, HeadInv, IndexInv, IndexTypeOK, ClaimInv
  <2>5. QED
    BY <1>1, <2>1, <2>2, <2>3, <2>4 DEF HeadInv, IsSentinel, Offset, LapStart
<1>7. ChainInv' /\ FindInv'
  BY <1>1 DEF BlockInv, ChainInv, FindInv, Live, Linked
<1>8. ReadInv'
  <2>1. \A d \in Consumers : head' # cpos[d]
    BY <1>1 DEF IndexInv, IndexTypeOK, TakeInv
  <2>2. \A b \in Blocks : \A s \in marks[b] : start[b] # POOLED /\ start[b] + s < head'
    <3>1. SUFFICES ASSUME NEW b \in Blocks, NEW s \in marks[b]
                   PROVE  start[b] # POOLED /\ start[b] + s < head'
      OBVIOUS
    <3>2. start[b] # POOLED /\ start[b] + s < head
      BY DEF BlockInv, ReadInv
    <3>3. start[b] \in Nat /\ s \in Nat
      BY <1>1, <3>2, LapAssumption DEF BlockTypeOK, Slots, BLOCK_CAP
    <3>4. QED
      BY <1>1, <3>2, <3>3
  <2>3. QED
    BY <1>1, <2>1, <2>2 DEF BlockInv, ReadInv, ReadersDone, TakenPCs
<1>9. PoolInv' /\ OwnerInv'
  BY <1>1 DEF BlockInv, PoolInv, OwnerInv, InPool, Left, Installs, Finishes, FinishingPCs
<1>10. QED
  BY <1>4, <1>5, <1>6, <1>7, <1>8, <1>9 DEF BlockInv

\* Steps that only choose where the block goes.
LEMMA CheckReadersKeeps ==
    ASSUME IndexInv, BlockInv, NEW c \in Consumers, CheckReaders(c) \/ RecycleFail(c)
    PROVE  BlockInv'
<1>1. /\ IndexTypeOK /\ BlockTypeOK /\ PointerInv /\ cpc[c] \in {"readers", "recycle"}
      /\ \/ cpc[c] = "readers" /\ cpc'[c] = "reset" /\ ReadersDone(cblk[c])
         \/ cpc[c] = "readers" /\ cpc'[c] = "retire"
         \/ cpc[c] = "recycle" /\ cpc'[c] = "recycle_slow"
      /\ \A d \in Consumers : d # c => cpc'[d] = cpc[d]
      /\ UNCHANGED <<indexVars, tailBlock, headVars, blockVars, poolVars, prodVars,
                     cpos, cblk, cval>>
  BY DEF CheckReaders, RecycleFail, IndexInv, IndexTypeOK, BlockInv
<1>2. ClaimsKept
  BY <1>1, ConsumerClaims
<1>3. BlockTypeOK' /\ PointerInv'
  BY <1>1 DEF BlockTypeOK, PointerInv, TakenPCs, FinishingPCs
<1>4. LapInv' /\ TagInv' /\ HeadInv'
  BY <1>1, <1>2, LapFrame, TagFrame, HeadFrame DEF BlockInv
<1>5. ChainInv' /\ FindInv'
  BY <1>1 DEF BlockInv, ChainInv, FindInv, Live, Linked
<1>6. ReadInv'
  BY <1>1 DEF BlockInv, ReadInv, ReadersDone, TakenPCs
<1>7. PoolInv' /\ OwnerInv'
  BY <1>1 DEF BlockInv, PoolInv, OwnerInv, InPool, Left, Installs, Finishes, FinishingPCs
<1>8. QED
  BY <1>3, <1>4, <1>5, <1>6, <1>7 DEF BlockInv

\* Retire, Recycle and RecycleSlow: the block goes to the pool.
LEMMA GiveBackKeeps ==
    ASSUME IndexInv, BlockInv, NEW c \in Consumers,
           Retire(c) \/ Recycle(c) \/ RecycleSlow(c)
    PROVE  BlockInv'
<1>1. /\ IndexTypeOK /\ BlockTypeOK /\ PointerInv /\ Finishes(c)
      /\ cpc[c] \in {"retire", "recycle", "recycle_slow"}
      /\ cpc'[c] = "idle" /\ cblk'[c] = Null
      /\ \A d \in Consumers : d # c =>
           cpc'[d] = cpc[d] /\ cpos'[d] = cpos[d] /\ cblk'[d] = cblk[d]
      /\ UNCHANGED <<indexVars, tailBlock, headVars, blockVars, fresh, prodVars>>
  BY DEF Retire, Recycle, RecycleSlow, IndexInv, IndexTypeOK, BlockInv, BlockTypeOK,
         Finishes, FinishingPCs
<1>2. PICK x \in Blocks : x = cblk[c]
  BY <1>1 DEF BlockTypeOK, PointerInv, TakenPCs, Finishes, FinishingPCs
<1>3. \/ retired' = retired \cup {x} /\ Left(x) /\ UNCHANGED <<spare, ready>>
      \/ spare = Null /\ spare' = x /\ start[x] = POOLED /\ UNCHANGED <<ready, retired>>
      \/ ready' = ready \cup {x} /\ start[x] = POOLED /\ UNCHANGED <<spare, retired>>
  <2>1. CASE Retire(c)
    <3>1. start[x] \in Nat
      <4>1. cpc[c] = "retire" /\ LapStart(cpos[c]) \in Nat
        BY <1>1, <2>1, OffsetsAndLaps DEF Retire, IndexTypeOK
      <4>2. QED
        BY <1>2, <4>1 DEF BlockInv, ReadInv, TakenPCs
    <3>2. Left(x)
      BY <1>1, <1>2, <3>1 DEF BlockInv, PoolInv, POOLED
    <3>3. QED
      BY <1>2, <2>1, <3>2 DEF Retire
  <2>2. CASE Recycle(c)
    BY <1>2, <2>2 DEF Recycle, BlockInv, PoolInv
  <2>3. CASE RecycleSlow(c)
    BY <1>2, <2>3 DEF RecycleSlow, BlockInv, PoolInv
  <2>4. QED
    BY <2>1, <2>2, <2>3
<1>4. /\ ~InPool(x) /\ x < fresh /\ x # Null
      /\ \A p \in Producers : Installs(p) => pnew[p] # x
      /\ \A d \in Consumers : d # c /\ Finishes(d) => cblk[d] # x
  BY <1>1, <1>2 DEF BlockInv, OwnerInv, InPool, BlockTypeOK, Blocks, Null
<1>5. ClaimsKept
  BY <1>1, ConsumerClaims
<1>6. BlockTypeOK'
  BY <1>1, <1>2, <1>3 DEF Retire, Recycle, RecycleSlow, BlockTypeOK
<1>7. PointerInv'
  BY <1>1 DEF PointerInv, TakenPCs, FinishingPCs
<1>8. LapInv' /\ TagInv' /\ HeadInv'
  BY <1>1, <1>5, LapFrame, TagFrame, HeadFrame DEF BlockInv
<1>9. ChainInv' /\ FindInv'
  BY <1>1 DEF BlockInv, ChainInv, FindInv, Live, Linked
<1>10. ReadInv'
  BY <1>1 DEF BlockInv, ReadInv, ReadersDone, TakenPCs
<1>11. PoolInv'
  BY <1>1, <1>3 DEF BlockInv, PoolInv, Left, Finishes, FinishingPCs
<1>12. OwnerInv'
  <2>1. /\ spare' < fresh /\ ready' \cup retired' \subseteq 1..(fresh - 1)
        /\ spare' \notin ready'
    BY <1>1, <1>2, <1>3, <1>4 DEF BlockInv, OwnerInv, InPool, BlockTypeOK, Blocks
  <2>2. \A b \in Blocks : b # x /\ ~InPool(b) => ~InPool(b)'
    BY <1>1, <1>3 DEF InPool
  <2>3. \A q \in Producers : Installs(q) => pnew[q] \in Blocks
    BY <1>1 DEF BlockTypeOK, PointerInv, NewPCs, InstallPCs, Installs
  <2>4. \A d \in Consumers : Finishes(d) => cblk[d] \in Blocks
    BY <1>1 DEF BlockTypeOK, PointerInv, TakenPCs, Finishes, FinishingPCs
  <2>5. \A d \in Consumers : Finishes(d)' <=> d # c /\ Finishes(d)
    BY <1>1 DEF Finishes, FinishingPCs
  <2>6. UNCHANGED <<ppc, pnew, fresh>> /\ \A q \in Producers : Installs(q)' <=> Installs(q)
    BY <1>1 DEF Installs
  <2>7. ASSUME NEW q \in Producers, Installs(q)
        PROVE  /\ ~InPool(pnew[q])'
               /\ \A r \in Producers \ {q} : Installs(r) => pnew[r] # pnew[q]
               /\ \A d \in Consumers : Finishes(d) => cblk[d] # pnew[q]
    BY <1>4, <2>2, <2>3, <2>6, <2>7 DEF BlockInv, OwnerInv
  <2>8. ASSUME NEW d \in Consumers, d # c, Finishes(d)
        PROVE  /\ ~InPool(cblk[d])'
               /\ \A e \in Consumers \ {d} : Finishes(e) => cblk[e] # cblk[d]
    BY <1>1, <1>4, <2>2, <2>4, <2>8 DEF BlockInv, OwnerInv
  <2>9. QED
    BY <1>1, <2>1, <2>5, <2>6, <2>7, <2>8 DEF OwnerInv
<1>13. QED
  BY <1>6, <1>7, <1>8, <1>9, <1>10, <1>11, <1>12 DEF BlockInv

----------------------------------------------------------------------------
(* The invariant.                                                           *)

\* Queue::new.
LEMMA InitEstablishesBlocks == Init => BlockInv
<1> SUFFICES ASSUME Init PROVE BlockInv
  OBVIOUS
<1>1. 1 \in Blocks /\ Offset(0) = 0 /\ LapStart(0) = 0 /\ ~IsSentinel(0)
  BY LapAssumption, BoundsAssumption DEF Blocks, Offset, LapStart, IsSentinel, BLOCK_CAP
<1>2. BlockTypeOK
  BY <1>1, BoundsAssumption DEF Init, BlockTypeOK, Blocks, Null, NoValue, POOLED
<1>3. PointerInv
  BY DEF Init, PointerInv, PointerPCs, InstallPCs, NewPCs, FoundPCs, TakenPCs, FinishingPCs
<1>4. LapInv
  BY <1>1 DEF Init, LapInv, LapBegun, POOLED
<1>5. HeadInv
  BY <1>1 DEF Init, HeadInv, ClaimedPCs, FoundPCs
<1>6. TagInv
  BY DEF Init, TagInv
<1>7. ChainInv
  <2>1. \A b \in Blocks : ~(start[b] > start[headBlock])
    BY <1>1 DEF Init, POOLED
  <2>2. BLOCK_CAP - 1 \in Slots /\ \A b \in Blocks : state[b][BLOCK_CAP - 1] = 0
    BY LapAssumption DEF Init, Slots, BLOCK_CAP
  <2>3. \A b \in Blocks : Live(b) => WrittenTag(Lap(start[b])) # 0
    BY <1>1, PositionInLap DEF Init, Live, POOLED
  <2>4. QED
    BY <2>1, <2>2, <2>3 DEF Init, ChainInv
<1>8. FindInv
  BY DEF Init, FindInv, FoundPCs
<1>9. ReadInv
  BY DEF Init, ReadInv, TakenPCs
<1>10. PoolInv /\ OwnerInv
  BY <1>1, BoundsAssumption
     DEF Init, PoolInv, OwnerInv, InPool, Left, Installs, Finishes, FinishingPCs, Blocks, Null, POOLED
<1>11. QED
  BY <1>2, <1>3, <1>4, <1>5, <1>6, <1>7, <1>8, <1>9, <1>10 DEF BlockInv

\* Every step of push and pop.
LEMMA NextKeepsBlocks == IndexInv /\ BlockInv /\ [Next]_vars => BlockInv'
<1> SUFFICES ASSUME IndexInv, BlockInv, [Next]_vars PROVE BlockInv'
  OBVIOUS
<1>1. ASSUME NEW p \in Producers, Producer(p) PROVE BlockInv'
  BY <1>1, LoopKeeps, SearchKeeps, TakeKeeps, ResetTakenKeeps, LinkKeeps, SetStartKeeps,
     SetNextKeeps, SetTailBlockKeeps, WriteValueKeeps, PublishKeeps
     DEF Producer, Loops
<1>2. ASSUME NEW c \in Consumers, Consumer(c) PROVE BlockInv'
  BY <1>2, LookKeeps, LoadHeadBlockKeeps, ClaimHeadKeeps, ReadValueKeeps, MarkReadKeeps,
     MoveHeadBlockKeeps, MoveHeadIndexKeeps, CheckReadersKeeps, GiveBackKeeps, ResetKeeps
     DEF Consumer
<1>3. CASE UNCHANGED vars
  <2>1. UNCHANGED <<tail, head, headBlock, tailBlock, start, next, prev, marks, state, value,
                    spare, ready, retired, fresh, ppc, ppos, pblk, pnew, cpc, cpos, cblk, cval>>
    BY <1>3
  <2>2. BlockTypeOK' /\ PointerInv' /\ FindInv' /\ ReadInv'
    BY <2>1 DEF BlockInv, BlockTypeOK, PointerInv, FindInv, ReadInv, ReadersDone
  <2>3. LapInv' /\ TagInv' /\ HeadInv'
    BY <1>3, LapFrame, TagFrame, HeadFrame, ConsumerClaims DEF BlockInv, IndexInv
  <2>4. ChainInv' /\ PoolInv' /\ OwnerInv'
    BY <2>1 DEF BlockInv, ChainInv, Live, Linked, PoolInv, Left, OwnerInv, InPool, Installs, Finishes
  <2>5. QED
    BY <2>2, <2>3, <2>4 DEF BlockInv
<1>4. QED
  BY <1>1, <1>2, <1>3 DEF Next

\* Blocks, links, tags and claims stay together as MpmcInv says: every block in
\* use serves one lap, no other block serves that lap, and a block that serves
\* none is in one place (push, pop, finish_block, queue.rs:536-995).
THEOREM BlockInvariant == Spec => []MpmcInv
<1>1. Init => BlockInv
  BY InitEstablishesBlocks
<1>2. IndexInv /\ BlockInv /\ [Next]_vars => BlockInv'
  BY NextKeepsBlocks
<1>3. Spec => []IndexInv
  BY IndexInvariant
<1>4. Spec => []BlockInv
  BY <1>1, <1>2, <1>3, PTL DEF Spec
<1>5. IndexInv /\ BlockInv => MpmcInv
  BY DEF MpmcInv
<1>6. QED
  BY <1>3, <1>4, <1>5, PTL

----------------------------------------------------------------------------
(* What follows from it.                                                    *)

\* Every variable of the queue keeps its type: `contended` stays in its window,
\* no followed block pointer leaves the allocated blocks (queue.rs:536-995).
THEOREM TypesHold == Spec => []TypeOK
<1>1. MpmcInv => TypeOK
  BY DEF MpmcInv, IndexInv, BlockInv, TypeOK
<1>2. QED
  BY <1>1, BlockInvariant, PTL

\* head.index and head.block, loaded separately, fit together whenever the
\* index is still the one that was loaded (queue.rs:810-812, 831-833).
THEOREM PairCoherence == Spec => []PairIsCoherent
<1>1. MpmcInv => PairIsCoherent
  BY DEF MpmcInv, BlockInv, ReadInv, PairIsCoherent
<1>2. QED
  BY <1>1, BlockInvariant, PTL

\* The consumer of the last slot of a block finds the next block linked, and it
\* serves the lap after: the debug_assert of finish_block (queue.rs:975-979).
THEOREM NextBlockLinked == Spec => []NextIsLinked
<1>1. MpmcInv => NextIsLinked
  BY LastSlotTaken DEF MpmcInv, NextIsLinked, Blocks, Null
<1>2. QED
  BY <1>1, BlockInvariant, PTL

\* find_block_slow never walks off the chain, whatever tail.block it started
\* from: its debug_assert holds (queue.rs:741-747).
THEOREM WalkStays == Spec => []WalkStaysOnChain
<1>1. MpmcInv => WalkStaysOnChain
  BY WalkFindsPrev DEF MpmcInv
<1>2. QED
  BY <1>1, BlockInvariant, PTL

\* A producer that has found its block is alone in its slot, and the block
\* serves its lap until the slot is published (queue.rs:556-567).
THEOREM SlotOwnership == Spec => []WritesOwnSlot
<1>1. ASSUME MpmcInv, NEW p \in Producers, ppc[p] \in FoundPCs
      PROVE  /\ start[pblk[p]] = LapStart(ppos[p])
             /\ ~IsSentinel(ppos[p]) /\ ~Published(ppos[p])
             /\ \A q \in Producers \ {p} : ppc[q] \in ClaimedPCs => ppos[q] # ppos[p]
  <2>1. /\ ppc[p] \in ClaimedPCs /\ ppos[p] \in Nat /\ ~IsSentinel(ppos[p])
        /\ \A q \in Producers \ {p} : ppc[q] \in ClaimedPCs => ppos[q] # ppos[p]
    BY <1>1 DEF MpmcInv, IndexInv, IndexTypeOK, ClaimInv, ClaimedPCs
  <2>2. ~Published(ppos[p])
    BY <1>1, <2>1, WrittenSlot DEF MpmcInv, Published
  <2>3. QED
    BY <1>1, <2>1, <2>2 DEF MpmcInv, BlockInv, FindInv
<1>2. MpmcInv => WritesOwnSlot
  BY <1>1 DEF WritesOwnSlot
<1>3. QED
  BY <1>2, BlockInvariant, PTL

\* The slot of a reader: of the lap of its position, and written.
LEMMA ReaderSlot ==
    ASSUME MpmcInv, NEW c \in Consumers, cpc[c] = "read"
    PROVE  /\ cblk[c] \in Blocks /\ cpos[c] \in Nat /\ start[cblk[c]] = LapStart(cpos[c])
           /\ value[cblk[c]][Offset(cpos[c])] = cpos[c]
           /\ \A p \in Producers : ppc[p] \in ClaimedPCs => ppos[p] # cpos[c]
<1>1. /\ cblk[c] \in Blocks /\ cpos[c] \in Nat /\ ~IsSentinel(cpos[c])
      /\ start[cblk[c]] = LapStart(cpos[c])
      /\ state[cblk[c]][Offset(cpos[c])] = WrittenTag(Lap(cpos[c]))
  BY DEF MpmcInv, IndexInv, IndexTypeOK, BlockInv, BlockTypeOK, PointerInv, ReadInv, TakenPCs
<1>2. QED
  BY <1>1, WrittenSlot DEF MpmcInv

\* A consumer reads the value that was pushed at the position it has claimed,
\* however long it is paused before it reads (queue.rs:830-835).
THEOREM ClaimedValue == Spec => []ClaimedValueStays
<1>1. MpmcInv => ClaimedValueStays
  BY ReaderSlot DEF ClaimedValueStays
<1>2. QED
  BY <1>1, BlockInvariant, PTL

\* No two threads access the value of one slot at once, if one block is reused
\* for lap after lap while readers of old laps are still paused
\* (queue.rs:985-992).
THEOREM NoDataRace == Spec => []DataRaceFree
<1>1. ASSUME MpmcInv, NEW p \in Producers, NEW q \in Producers, p # q,
             ppc[p] = "write", ppc[q] = "write"
      PROVE  <<pblk[p], Offset(ppos[p])>> # <<pblk[q], Offset(ppos[q])>>
  <2>1. ppos[p] # ppos[q]
    BY <1>1 DEF MpmcInv, IndexInv, ClaimInv, ClaimedPCs, FoundPCs
  <2>2. QED
    BY <1>1, <2>1, SlotIsOwn DEF MpmcInv
<1>2. ASSUME MpmcInv, NEW p \in Producers, NEW c \in Consumers,
             ppc[p] = "write", cpc[c] = "read"
      PROVE  <<pblk[p], Offset(ppos[p])>> # <<cblk[c], Offset(cpos[c])>>
  <2>1. ppos[p] # cpos[c]
    BY <1>2, ReaderSlot DEF ClaimedPCs, FoundPCs
  <2>2. QED
    BY <1>2, <2>1, SlotIsOwn, ReaderSlot DEF MpmcInv
<1>3. ASSUME MpmcInv, NEW c \in Consumers, NEW d \in Consumers, c # d,
             cpc[c] = "read", cpc[d] = "read"
      PROVE  <<cblk[c], Offset(cpos[c])>> # <<cblk[d], Offset(cpos[d])>>
  <2>1. cpos[c] # cpos[d]
    BY <1>3 DEF MpmcInv, IndexInv, TakeInv, TakenPCs
  <2>2. QED
    BY <1>3, <2>1, ReaderSlot, TagTellsLap
<1>4. MpmcInv => DataRaceFree
  <2>1. SUFFICES ASSUME MpmcInv, NEW a \in ValueAccesses, NEW b \in ValueAccesses, a[1] # b[1]
                 PROVE  <<a[2], a[3]>> # <<b[2], b[3]>>
    BY DEF DataRaceFree
  <2>2. \/ \E p \in Producers : ppc[p] = "write" /\ a = <<p, pblk[p], Offset(ppos[p])>>
        \/ \E c \in Consumers : cpc[c] = "read" /\ a = <<c, cblk[c], Offset(cpos[c])>>
    BY DEF ValueAccesses
  <2>3. \/ \E p \in Producers : ppc[p] = "write" /\ b = <<p, pblk[p], Offset(ppos[p])>>
        \/ \E c \in Consumers : cpc[c] = "read" /\ b = <<c, cblk[c], Offset(cpos[c])>>
    BY DEF ValueAccesses
  <2>4. QED
    BY <1>1, <1>2, <1>3, <2>1, <2>2, <2>3
<1>5. QED
  BY <1>4, BlockInvariant, PTL

\* Only the claim of a written slot and the move over a sentinel take the head
\* on, one position at a time: values leave in the order of their claims
\* (queue.rs:809-822, 969-983).
THEOREM HeadOrder == Spec => HeadStepsOverPublished
<1>1. ASSUME MpmcInv, NEW c \in Consumers, Consumer(c), head' # head
      PROVE  IsSentinel(head) \/ Published(head)
  <2>1. ClaimHead(c) \/ MoveHeadIndex(c)
    BY <1>1 DEF Consumer, StartPop, LoadHeadBlock, PollSentinel, GiveUpOnSentinel, CheckSlot,
       ReturnNone, LookAgain, ClaimFail, ReadValue, MarkRead, MoveHeadBlock, CheckReaders,
       Retire, Reset, Recycle, RecycleFail, RecycleSlow
  <2>2. CASE ClaimHead(c)
    BY <1>1, <2>2
       DEF ClaimHead, MpmcInv, BlockInv, BlockTypeOK, PointerInv, ReadInv, Published
  <2>3. CASE MoveHeadIndex(c)
    BY <1>1, <2>3, SentinelFollowsLastSlot
       DEF MoveHeadIndex, MpmcInv, IndexInv, IndexTypeOK, TakeInv, Moving
  <2>4. QED
    BY <2>1, <2>2, <2>3
<1>2. MpmcInv /\ [Next]_vars /\ head' # head =>
        head' = head + 1 /\ (IsSentinel(head) \/ Published(head))
  BY <1>1, ConsumersStepHead, ProducersLeaveHead DEF Next, MpmcInv
<1>3. MpmcInv /\ [Next]_vars =>
        [head' # head => /\ head' = head + 1
                         /\ IsSentinel(head) \/ Published(head)]_vars
  BY <1>2
<1>4. QED
  BY <1>3, BlockInvariant, PTL DEF Spec, HeadStepsOverPublished

\* What the pool rests on (queue.rs:349-352, 486-528): a block that the head has
\* not left is in no list of the pool and in no hand, and a block in the hands
\* of one thread that installs or finishes it is in no list and in no other hand.
BlocksAreNotShared ==
    /\ \A b \in Blocks : start[b] # POOLED /\ ~Left(b) =>
         /\ ~InPool(b)
         /\ \A p \in Producers : Installs(p) => pnew[p] # b
         /\ \A c \in Consumers : Finishes(c) => cblk[c] # b
    /\ \A p \in Producers : Installs(p) =>
         /\ ~InPool(pnew[p])
         /\ \A q \in Producers \ {p} : Installs(q) => pnew[q] # pnew[p]
         /\ \A c \in Consumers : Finishes(c) => cblk[c] # pnew[p]
    /\ \A c \in Consumers : Finishes(c) =>
         /\ ~InPool(cblk[c])
         /\ \A d \in Consumers \ {c} : Finishes(d) => cblk[d] # cblk[c]

\* A block is never handed out twice, nor while the chain still holds it.
THEOREM NoBlockShared == Spec => []BlocksAreNotShared
<1>1. ASSUME MpmcInv, NEW b \in Blocks, start[b] # POOLED, ~Left(b)
      PROVE  Live(b)
  BY <1>1, HeadServes DEF MpmcInv, BlockInv, BlockTypeOK, Left, Live
<1>2. MpmcInv => BlocksAreNotShared
  BY <1>1, LiveIsFree DEF MpmcInv, BlockInv, OwnerInv, BlocksAreNotShared
<1>3. QED
  BY <1>2, BlockInvariant, PTL

----------------------------------------------------------------------------
(* The values: a step is a stutter of the FIFO queue if it keeps the counts *)
(* of value positions below head and tail, and leaves published what it     *)
(* finds published.                                                         *)

\* What a pop has moved out: the value pushed at its position.
ValueInv ==
    \A c \in Consumers :
        cval[c] = IF cpc[c] \in TakenPCs \ {"read"} THEN cpos[c] ELSE NoValue

FifoInv == MpmcInv /\ ValueInv

\* A value is moved out once, and forgotten when the pop returns.
LEMMA ValueKept == MpmcInv /\ ValueInv /\ [Next]_vars => ValueInv'
<1> SUFFICES ASSUME MpmcInv, ValueInv, [Next]_vars PROVE ValueInv'
  OBVIOUS
<1>1. /\ cpc \in [Consumers -> ConsumerPCs] /\ cpos \in [Consumers -> Nat]
      /\ cval \in [Consumers -> Nat \cup {NoValue}]
  BY DEF MpmcInv, IndexInv, IndexTypeOK, BlockInv, BlockTypeOK
<1>2. CASE UNCHANGED consVars
  BY <1>2 DEF ValueInv
<1>3. ASSUME NEW p \in Producers, Producer(p) PROVE UNCHANGED consVars
  BY <1>3 DEF Producer, StartPush, LoadTail, FetchAdd, CasClaim, CasFail, SkipSentinel,
     SkipSentinelFail, CheckCached, ReturnFull, ReadHead, StoreCached, CapClaim, CapFail,
     LoadTailBlock, FastCheck, WalkCheck, FollowPrev, TakeSpare, TakeReady, TakeRetired,
     Allocate, ResetTaken, Link, SetStart, SetNext, SetTailBlock, WriteValue, Publish
<1>4. ASSUME NEW c \in Consumers, Consumer(c) PROVE ValueInv'
  <2>1. CASE ReadValue(c)
    <3>1. value[cblk[c]][Offset(cpos[c])] = cpos[c]
      BY <2>1, ReaderSlot DEF ReadValue
    <3>2. QED
      BY <1>1, <2>1, <3>1 DEF ReadValue, ValueInv, TakenPCs
  <2>2. CASE \/ StartPop(c) \/ LoadHeadBlock(c) \/ PollSentinel(c) \/ CheckSlot(c)
             \/ LookAgain(c) \/ ClaimFail(c) \/ ClaimHead(c)
    BY <1>1, <2>2 DEF StartPop, LoadHeadBlock, PollSentinel, CheckSlot, LookAgain,
       ClaimFail, ClaimHead, ValueInv, TakenPCs
  <2>3. CASE \/ MoveHeadBlock(c) \/ MoveHeadIndex(c) \/ CheckReaders(c) \/ Reset(c)
             \/ RecycleFail(c)
    BY <1>1, <2>3 DEF MoveHeadBlock, MoveHeadIndex, CheckReaders, Reset, RecycleFail,
       ValueInv, TakenPCs
  <2>4. CASE \/ GiveUpOnSentinel(c) \/ ReturnNone(c) \/ MarkRead(c) \/ Retire(c)
             \/ Recycle(c) \/ RecycleSlow(c)
    BY <1>1, <2>4 DEF GiveUpOnSentinel, ReturnNone, MarkRead, Retire, Recycle, RecycleSlow,
       ValueInv, TakenPCs
  <2>5. QED
    BY <1>4, <2>1, <2>2, <2>3, <2>4 DEF Consumer
<1>5. QED
  BY <1>2, <1>3, <1>4 DEF Next

----------------------------------------------------------------------------
(* The items.                                                               *)

\* The number of the items, and the position of each.
Unread   == ValuesBelow(tail) - ValuesBelow(head)
Place(i) == PositionOf(ValuesBelow(head) + i - 1)

\* The items are the value positions from head on that are below the tail.
LEMMA ItemsShape ==
    ASSUME MpmcInv
    PROVE  /\ Unread \in Nat /\ ItemsBetween(head, tail) = Unread
           /\ FifoItems = [i \in 1..Unread |->
                             [val |-> Place(i), ready |-> Published(Place(i))]]
           /\ \A i \in 1..Unread :
                /\ Place(i) \in Nat /\ head <= Place(i) /\ Place(i) < tail
                /\ ~IsSentinel(Place(i))
<1>1. /\ head \in Nat /\ tail \in Nat
      /\ head <= tail \/ (head = tail + 1 /\ IsSentinel(tail))
  BY DEF MpmcInv, IndexInv, IndexTypeOK, BlockInv, HeadInv
<1>2. ItemsBetween(head, tail) = Unread /\ Unread \in Nat
  BY <1>1, ItemsBetweenArePlaces, ItemsBetweenIsNat DEF Unread
<1>3. FifoItems = [i \in 1..Unread |->
                     [val |-> Place(i), ready |-> Published(Place(i))]]
  BY DEF FifoItems, PositionsBetween, Unread, Place
<1>4. \A i \in 1..Unread :
        /\ Place(i) \in Nat /\ head <= Place(i) /\ Place(i) < tail
        /\ ~IsSentinel(Place(i))
  BY <1>1, PlacesBetween DEF Unread, Place
<1>5. QED
  BY <1>2, <1>3, <1>4

\* A function on 1..n is a sequence of length n.
LEMMA FunctionIsSeq ==
    ASSUME NEW S, NEW n \in Nat, NEW f \in [1..n -> S]
    PROVE  f \in Seq(S) /\ Len(f) = n
<1>1. f \in Seq(S)
  BY SeqDef
<1>2. QED
  BY <1>1, LenProperties

\* The items are a sequence.
LEMMA ItemsAreSeq ==
    ASSUME MpmcInv
    PROVE  FifoItems \in Seq([val : Nat, ready : BOOLEAN]) /\ Len(FifoItems) = Unread
<1>1. \A i \in 1..Unread :
        [val |-> Place(i), ready |-> Published(Place(i))] \in [val : Nat, ready : BOOLEAN]
  BY ItemsShape DEF Published
<1>2. FifoItems \in [1..Unread -> [val : Nat, ready : BOOLEAN]] /\ Unread \in Nat
  BY <1>1, ItemsShape
<1>3. QED
  BY <1>2, FunctionIsSeq

\* Neither end moves over a value position, and none is published in between.
LEMMA ItemsKept ==
    ASSUME MpmcInv,
           ValuesBelow(head') = ValuesBelow(head),
           ValuesBelow(tail') = ValuesBelow(tail),
           \A pos \in Nat : (head <= pos /\ pos < tail /\ ~IsSentinel(pos))
               => (Published(pos)' = Published(pos))
    PROVE  FifoItems' = FifoItems
<1>1. /\ Unread' = Unread /\ \A i \in 1..Unread : Place(i)' = Place(i)
  BY DEF Unread, Place, ValuesBelow, Lap, PositionOf, BLOCK_CAP
<1>2. FifoItems' = [i \in 1..Unread' |->
                      [val |-> Place(i)', ready |-> Published(Place(i))']]
  BY DEF FifoItems, PositionsBetween, Unread, Place, PositionOf, ValuesBelow, Lap, BLOCK_CAP
<1>3. \A i \in 1..Unread : Published(Place(i))' = Published(Place(i))
  BY <1>1, ItemsShape DEF Published, LapStart, Offset, WrittenTag, Lap
<1>4. QED
  BY <1>1, <1>2, <1>3, ItemsShape

----------------------------------------------------------------------------
(* What is published.                                                       *)

\* No tag is stored, and no block serves another lap.
LEMMA PublishedFrame ==
    ASSUME UNCHANGED <<start, state>>, NEW pos \in Nat
    PROVE  Published(pos)' = Published(pos)
BY DEF Published, LapStart, Offset, WrittenTag, Lap

\* Nothing is published that is not claimed.
LEMMA UnclaimedUnpublished ==
    ASSUME MpmcInv, NEW pos \in Nat, ~IsSentinel(pos), Published(pos)
    PROVE  pos < tail
BY WrittenSlot DEF MpmcInv, Published

\* A block that is reset serves a lap the head has left.
LEMMA ResetUnpublishes ==
    ASSUME MpmcInv, NEW x \in Blocks, Left(x), UNCHANGED state,
           start' = [start EXCEPT ![x] = POOLED],
           NEW pos \in Nat, head <= pos, ~IsSentinel(pos)
    PROVE  Published(pos)' = Published(pos)
<1>1. /\ start \in [Blocks -> Nat \cup {POOLED}] /\ start[headBlock] \in Nat
      /\ head \in Nat /\ LapStart(pos) \in Nat
  BY HeadServes, OffsetsAndLaps DEF MpmcInv, IndexInv, IndexTypeOK, BlockInv, BlockTypeOK
<1>2. start[headBlock] <= LapStart(pos)
  <2>1. CASE \E c \in Consumers : cpc[c] = "advance"
    <3>1. PICK c \in Consumers : cpc[c] = "advance"
      BY <2>1
    <3>2. head = cpos[c] + 1 /\ cpos[c] \in Nat /\ IsLastSlot(cpos[c])
      BY <3>1 DEF MpmcInv, IndexInv, IndexTypeOK, TakeInv, Moving
    <3>3. IsSentinel(head)
      BY <3>2, SentinelFollowsLastSlot
    <3>4. QED
      BY <1>1, <2>1, <3>3, LapsInOrder DEF MpmcInv, BlockInv, HeadInv
  <2>2. CASE ~\E c \in Consumers : cpc[c] = "advance"
    BY <1>1, <2>2, LapsInOrder DEF MpmcInv, BlockInv, HeadInv
  <2>3. QED
    BY <2>1, <2>2
<1>3. start[x] # LapStart(pos) /\ start'[x] # LapStart(pos)
  BY <1>1, <1>2 DEF Left, POOLED
<1>4. \A b \in Blocks : start'[b] = LapStart(pos) <=> start[b] = LapStart(pos)
  BY <1>1, <1>3
<1>5. QED
  BY <1>4 DEF Published, LapStart, Offset, WrittenTag, Lap

\* A block that is installed has no slot written in its new lap.
LEMMA SetStartPublishes ==
    ASSUME MpmcInv, NEW p \in Producers, SetStart(p),
           NEW pos \in Nat, ~IsSentinel(pos)
    PROVE  Published(pos)' = Published(pos)
<1>1. /\ IndexTypeOK /\ BlockTypeOK /\ TagInv /\ ppc[p] = "start"
      /\ pnew[p] \in Blocks /\ start[pnew[p]] = POOLED
      /\ ppos[p] \in Nat /\ IsLastSlot(ppos[p])
  BY DEF SetStart, MpmcInv, IndexInv, IndexTypeOK, BlockInv, BlockTypeOK, PointerInv,
         PoolInv, NewPCs, InstallPCs
<1>2. PICK t \in Nat : t = LapStart(ppos[p]) + LAP /\ t = ppos[p] + 2
  BY <1>1, PositionInLap
<1>3. ~LapBegun(t)
  BY <1>1, <1>2 DEF LapBegun, ClaimedPCs, FoundPCs, StartedPCs
<1>4. /\ start' = [start EXCEPT ![pnew[p]] = t] /\ UNCHANGED state
      /\ start \in [Blocks -> Nat \cup {POOLED}] /\ LapStart(pos) \in Nat
  BY <1>1, <1>2, OffsetsAndLaps DEF SetStart, BlockTypeOK
<1>5. LapStart(pos) = t => state[pnew[p]][Offset(pos)] # WrittenTag(Lap(pos))
  <2>1. SUFFICES ASSUME LapStart(pos) = t,
                        state[pnew[p]][Offset(pos)] = WrittenTag(Lap(pos))
                 PROVE  FALSE
    OBVIOUS
  <2>2. Offset(pos) \in Slots /\ WrittenTag(Lap(pos)) # 0
    BY PositionInLap DEF Slots
  <2>3. PICK qos \in 0..(tail - 1) : StandsFor(pnew[p], Offset(pos), qos)
    BY <1>1, <2>1, <2>2 DEF TagInv
  <2>4. qos \in Nat
    BY <1>1 DEF IndexTypeOK
  <2>5. LapStart(qos) = t
    BY <2>1, <2>3, <2>4, TagTellsLap DEF StandsFor
  <2>6. QED
    BY <1>3, <2>3, <2>5 DEF StandsFor
<1>6. \A b \in Blocks :
        (start'[b] = LapStart(pos) /\ state[b][Offset(pos)] = WrittenTag(Lap(pos)))
        <=> (start[b] = LapStart(pos) /\ state[b][Offset(pos)] = WrittenTag(Lap(pos)))
  BY <1>1, <1>4, <1>5 DEF POOLED
<1>7. QED
  BY <1>4, <1>6 DEF Published, LapStart, Offset, WrittenTag, Lap

\* The store of a tag publishes its position, and no other.
LEMMA PublishPublishes ==
    ASSUME MpmcInv, NEW p \in Producers, Publish(p),
           NEW pos \in Nat, ~IsSentinel(pos)
    PROVE  Published(pos)' = IF pos = ppos[p] THEN TRUE ELSE Published(pos)
<1>1. /\ BlockTypeOK /\ ppc[p] = "publish" /\ UNCHANGED start
      /\ state' = [state EXCEPT ![pblk[p]][Offset(ppos[p])] = WrittenTag(Lap(ppos[p]))]
  BY DEF Publish, MpmcInv, BlockInv
<1>2. /\ pblk[p] \in Blocks /\ Offset(ppos[p]) \in Slots /\ ppos[p] \in Nat
      /\ start[pblk[p]] = LapStart(ppos[p])
      /\ Offset(pos) = Offset(ppos[p]) /\ LapStart(pos) = start[pblk[p]] => pos = ppos[p]
      /\ Offset(pos) \in Slots
  BY <1>1, SlotIsOwn, PositionInLap DEF MpmcInv, Slots
<1>3. CASE pos = ppos[p]
  <2>1. start'[pblk[p]] = LapStart(pos) /\ state'[pblk[p]][Offset(pos)] = WrittenTag(Lap(pos))
    BY <1>1, <1>2, <1>3 DEF BlockTypeOK
  <2>2. QED
    BY <1>2, <1>3, <2>1 DEF Published, LapStart, Offset, WrittenTag, Lap
<1>4. CASE pos # ppos[p]
  <2>1. \A b \in Blocks : start[b] = LapStart(pos) =>
          state'[b][Offset(pos)] = state[b][Offset(pos)]
    BY <1>1, <1>2, <1>4 DEF BlockTypeOK
  <2>2. QED
    BY <1>1, <1>4, <2>1 DEF Published, LapStart, Offset, WrittenTag, Lap
<1>5. QED
  BY <1>3, <1>4

----------------------------------------------------------------------------
(* The steps that are stutters, for the most part.                          *)

\* The claims are the same.
LEMMA SendingKept ==
    ASSUME \A p \in Producers :
             /\ ppc'[p] \in ClaimedPCs <=> ppc[p] \in ClaimedPCs
             /\ ppc[p] \in ClaimedPCs => ppos'[p] = ppos[p]
    PROVE  FifoSending' = FifoSending
BY DEF FifoSending, ClaimedPCs, FoundPCs, NoValue

\* The pops are left alone.
LEMMA TakenKept ==
    ASSUME UNCHANGED consVars
    PROVE  FifoTaken' = FifoTaken
BY DEF FifoTaken

\* A claim loop that goes on, or ends without a claim, moves the tail over a
\* sentinel at most; one that ends with a claim has found room.
LEMMA LoopMovesTail ==
    ASSUME IndexInv, NEW p \in Producers, Loops(p)
    PROVE  /\ ppc'[p] \in ClaimedPCs =>
                /\ ~IsSentinel(tail) /\ tail' = tail + 1
                /\ ppc' = [ppc EXCEPT ![p] = "find"]
                /\ ppos' = [ppos EXCEPT ![p] = tail]
                /\ Capacity # UNBOUNDED => ItemsBetween(head, tail) < Capacity
           /\ ppc'[p] \notin ClaimedPCs =>
                tail' = tail \/ (IsSentinel(tail) /\ tail' = tail + 1)
<1>1. /\ ppc \in [Producers -> ProducerPCs] /\ ppos \in [Producers -> Nat]
      /\ ModeInv /\ ClaimInv /\ CapInv /\ tail \in Nat
  BY DEF IndexInv, IndexTypeOK
<1>2. CASE FetchAdd(p)
  BY <1>1, <1>2 DEF FetchAdd, ModeInv, UnboundedPCs, ClaimedPCs, FoundPCs
<1>3. CASE CasClaim(p)
  BY <1>1, <1>3 DEF CasClaim, ModeInv, UnboundedPCs, ClaimedPCs, FoundPCs
<1>4. CASE CapClaim(p)
  BY <1>1, <1>4 DEF CapClaim, ClaimInv, CapInv, ClaimedPCs, FoundPCs
<1>5. CASE SkipSentinel(p)
  BY <1>1, <1>5 DEF SkipSentinel, ClaimedPCs, FoundPCs
<1>6. CASE \/ StartPush(p) \/ LoadTail(p) \/ CasFail(p) \/ SkipSentinelFail(p)
           \/ CheckCached(p) \/ ReturnFull(p) \/ ReadHead(p) \/ StoreCached(p) \/ CapFail(p)
  BY <1>1, <1>6 DEF StartPush, LoadTail, CasFail, SkipSentinelFail, CheckCached, ReturnFull,
     ReadHead, StoreCached, CapFail, ClaimedPCs, FoundPCs
<1>7. QED
  BY <1>2, <1>3, <1>4, <1>5, <1>6 DEF Loops

\* A claim loop that does not end with a claim.
LEMMA LoopFrameKeepsItems ==
    ASSUME MpmcInv, NEW p \in Producers, LoopFrame(p), ppc'[p] \notin ClaimedPCs,
           tail' = tail \/ (IsSentinel(tail) /\ tail' = tail + 1)
    PROVE  UNCHANGED <<FifoItems, FifoSending>>
<1>1. ppc \in [Producers -> ProducerPCs] /\ ppos \in [Producers -> Nat] /\ tail \in Nat
  BY DEF MpmcInv, IndexInv, IndexTypeOK
<1>2. /\ ppc[p] \notin ClaimedPCs
      /\ \A q \in Producers : q # p => ppc'[q] = ppc[q] /\ ppos'[q] = ppos[q]
      /\ UNCHANGED <<headVars, blockVars>>
  BY <1>1 DEF LoopFrame
<1>3. FifoSending' = FifoSending
  BY <1>2, SendingKept
<1>4. ValuesBelow(tail') = ValuesBelow(tail)
  BY <1>1, PlaceOfPosition
<1>5. FifoItems' = FifoItems
  BY <1>2, <1>4, ItemsKept, PublishedFrame DEF ValuesBelow, Lap
<1>6. QED
  BY <1>3, <1>5

LEMMA LoopStutters ==
    ASSUME MpmcInv, NEW p \in Producers, Loops(p), ppc'[p] \notin ClaimedPCs
    PROVE  UNCHANGED <<FifoItems, FifoSending, FifoTaken>>
<1>1. LoopFrame(p) /\ UNCHANGED consVars
  BY LoopClaims DEF LoopFrame, MpmcInv
<1>2. tail' = tail \/ (IsSentinel(tail) /\ tail' = tail + 1)
  BY LoopMovesTail DEF MpmcInv
<1>3. QED
  BY <1>1, <1>2, LoopFrameKeepsItems, TakenKept

\* A claim takes the last place, and has no value in it yet.
LEMMA ClaimAppends ==
    ASSUME MpmcInv, NEW p \in Producers, LoopFrame(p),
           ~IsSentinel(tail), tail' = tail + 1,
           ppc' = [ppc EXCEPT ![p] = "find"], ppos' = [ppos EXCEPT ![p] = tail]
    PROVE  /\ FifoSending[p] = NoValue /\ FifoSending'[p] = tail
           /\ FifoSending' = [FifoSending EXCEPT ![p] = tail]
           /\ FifoItems' = Append(FifoItems, [val |-> tail, ready |-> FALSE])
           /\ Len(FifoItems) = ItemsBetween(head, tail)
<1>1. /\ IndexInv /\ ppc \in [Producers -> ProducerPCs] /\ ppos \in [Producers -> Nat]
      /\ tail \in Nat /\ ppc[p] \notin ClaimedPCs
      /\ UNCHANGED <<headVars, blockVars>>
  BY DEF LoopFrame, MpmcInv, IndexInv, IndexTypeOK
<1>2. /\ ~IsSentinel(tail) /\ tail' = tail + 1
      /\ ppc' = [ppc EXCEPT ![p] = "find"] /\ ppos' = [ppos EXCEPT ![p] = tail]
  OBVIOUS
<1>3. /\ FifoSending[p] = NoValue /\ FifoSending'[p] = tail
      /\ FifoSending' = [FifoSending EXCEPT ![p] = tail]
  BY <1>1, <1>2 DEF FifoSending, ClaimedPCs, FoundPCs, NoValue
<1>4. /\ Unread \in Nat /\ Unread' = Unread + 1
      /\ \A i \in 1..Unread : Place(i)' = Place(i)
      /\ \A i \in Nat : i = Unread + 1 => Place(i)' = tail
  <2>1. ValuesBelow(tail') = ValuesBelow(tail) + 1 /\ PositionOf(ValuesBelow(tail)) = tail
    BY <1>1, <1>2, PlaceOfPosition
  <2>2. ValuesBelow(head') = ValuesBelow(head) /\ ValuesBelow(head) \in Int
    BY <1>1, PlaceOfPosition DEF ValuesBelow, Lap, IndexInv, IndexTypeOK
  <2>3. Unread \in Nat /\ Unread' = Unread + 1
    BY <2>1, <2>2, <1>1, ItemsShape, PlaceOfPosition DEF Unread
  <2>4. \A i \in Int : Place(i)' = Place(i)
    BY <2>2 DEF Place, PositionOf, BLOCK_CAP
  <2>5. Place(Unread + 1) = tail
    <3>1. ValuesBelow(head) + (Unread + 1) - 1 = ValuesBelow(tail)
      BY <1>1, <2>2, PlaceOfPosition DEF Unread
    <3>2. QED
      BY <2>1, <3>1 DEF Place
  <2>6. QED
    BY <2>3, <2>4, <2>5
<1>5. FifoItems' = [i \in 1..(Unread + 1) |->
                      [val |-> Place(i)', ready |-> Published(Place(i))']]
  BY <1>4 DEF FifoItems, PositionsBetween, Unread, Place, PositionOf, ValuesBelow, Lap, BLOCK_CAP
<1>6. \A i \in 1..Unread : Published(Place(i))' = Published(Place(i))
  BY <1>1, <1>4, ItemsShape DEF Published, LapStart, Offset, WrittenTag, Lap
<1>7. \A i \in Nat : i = Unread + 1 => Published(Place(i))' = FALSE
  <2>1. Published(tail) = FALSE
    BY <1>1, <1>2, UnclaimedUnpublished DEF Published
  <2>2. QED
    BY <1>1, <1>4, <2>1 DEF Published, LapStart, Offset, WrittenTag, Lap
<1>8. FifoItems' = Append(FifoItems, [val |-> tail, ready |-> FALSE])
  <2>1. FifoItems \in Seq([val : Nat, ready : BOOLEAN]) /\ Len(FifoItems) = Unread
    BY ItemsAreSeq
  <2>2. FifoItems' = [i \in 1..(Unread + 1) |->
                        IF i = Unread + 1 THEN [val |-> tail, ready |-> FALSE]
                        ELSE FifoItems[i]]
    <3>1. \A i \in 1..(Unread + 1) :
            [val |-> Place(i)', ready |-> Published(Place(i))']
            = IF i = Unread + 1 THEN [val |-> tail, ready |-> FALSE] ELSE FifoItems[i]
      <4>1. SUFFICES ASSUME NEW i \in 1..(Unread + 1)
                     PROVE  [val |-> Place(i)', ready |-> Published(Place(i))']
                            = IF i = Unread + 1 THEN [val |-> tail, ready |-> FALSE]
                              ELSE FifoItems[i]
        OBVIOUS
      <4>2. CASE i = Unread + 1
        <5>1. i \in Nat
          BY <1>4
        <5>2. Place(i)' = tail /\ Published(Place(i))' = FALSE
          BY <1>4, <1>7, <4>2, <5>1
        <5>3. QED
          BY <4>2, <5>2, Zenon
      <4>3. CASE i # Unread + 1
        BY <1>4, <1>6, <4>3, ItemsShape
      <4>4. QED
        BY <4>2, <4>3
    <3>2. QED
      BY <1>5, <3>1
  <2>3. QED
    BY <1>1, <1>4, <2>1, <2>2, AppendProperties
<1>9. Len(FifoItems) = ItemsBetween(head, tail)
  BY ItemsShape, ItemsAreSeq
<1>10. QED
  BY <1>3, <1>8, <1>9

LEMMA LoopRefinesClaim ==
    ASSUME MpmcInv, NEW p \in Producers, Loops(p), ppc'[p] \in ClaimedPCs
    PROVE  Abstract!Claim(p, FifoSending'[p])
<1>1. LoopFrame(p) /\ UNCHANGED consVars /\ tail \in Nat
  BY LoopClaims DEF LoopFrame, MpmcInv, IndexInv, IndexTypeOK
<1>2. /\ ~IsSentinel(tail) /\ tail' = tail + 1
      /\ ppc' = [ppc EXCEPT ![p] = "find"] /\ ppos' = [ppos EXCEPT ![p] = tail]
      /\ Capacity # UNBOUNDED => ItemsBetween(head, tail) < Capacity
  BY LoopMovesTail DEF MpmcInv
<1>3. /\ FifoSending[p] = NoValue /\ FifoSending'[p] = tail
      /\ FifoSending' = [FifoSending EXCEPT ![p] = tail]
      /\ FifoItems' = Append(FifoItems, [val |-> tail, ready |-> FALSE])
      /\ Len(FifoItems) = ItemsBetween(head, tail)
  BY <1>1, <1>2, ClaimAppends
<1>4. QED
  BY <1>1, <1>2, <1>3, TakenKept DEF Abstract!Claim

\* The steps of a producer that owns its position, up to the store of the tag.
Owner(p) ==
    \/ LoadTailBlock(p) \/ FastCheck(p) \/ WalkCheck(p) \/ FollowPrev(p)
    \/ TakeSpare(p) \/ TakeReady(p) \/ TakeRetired(p) \/ Allocate(p)
    \/ ResetTaken(p) \/ Link(p) \/ SetStart(p) \/ SetNext(p)
    \/ SetTailBlock(p) \/ WriteValue(p)

\* They keep the claim and both indices.
LEMMA OwnerKeepsClaim ==
    ASSUME MpmcInv, NEW p \in Producers, Owner(p)
    PROVE  /\ ppc[p] \in ClaimedPCs /\ ppc'[p] \in ClaimedPCs
           /\ \A q \in Producers : q # p => ppc'[q] = ppc[q]
           /\ UNCHANGED <<indexVars, headVars, ppos, state, consVars>>
           /\ ~(ResetTaken(p) \/ SetStart(p)) => UNCHANGED start
<1>1. ppc \in [Producers -> ProducerPCs]
  BY DEF MpmcInv, IndexInv, IndexTypeOK
<1>2. CASE LoadTailBlock(p) \/ FastCheck(p) \/ WalkCheck(p) \/ FollowPrev(p)
  <2>1. \E l \in ClaimedPCs : ppc' = [ppc EXCEPT ![p] = l]
    BY <1>2 DEF LoadTailBlock, FastCheck, WalkCheck, FollowPrev, AfterFound, ClaimedPCs, FoundPCs
  <2>2. QED
    BY <1>1, <1>2, <2>1
       DEF LoadTailBlock, FastCheck, WalkCheck, FollowPrev, ClaimedPCs, FoundPCs
<1>3. CASE TakeSpare(p) \/ TakeReady(p) \/ TakeRetired(p) \/ Allocate(p)
  BY <1>1, <1>3 DEF TakeSpare, TakeReady, TakeRetired, Allocate, ClaimedPCs, FoundPCs
<1>4. CASE ResetTaken(p) \/ Link(p) \/ SetStart(p) \/ SetNext(p)
           \/ SetTailBlock(p) \/ WriteValue(p)
  BY <1>1, <1>4 DEF ResetTaken, Link, SetStart, SetNext, SetTailBlock, WriteValue,
     ClaimedPCs, FoundPCs
<1>5. QED
  BY <1>2, <1>3, <1>4 DEF Owner

\* They publish nothing, and leave what is published so.
LEMMA OwnerKeepsPublished ==
    ASSUME MpmcInv, NEW p \in Producers, Owner(p)
    PROVE  \A pos \in Nat : (head <= pos /\ ~IsSentinel(pos))
             => Published(pos)' = Published(pos)
<1>1. CASE ResetTaken(p)
  <2>1. pnew[p] \in Blocks /\ Left(pnew[p])
    BY <1>1 DEF ResetTaken, MpmcInv, BlockInv, BlockTypeOK, PointerInv, PoolInv, NewPCs,
       InstallPCs
  <2>2. QED
    BY <1>1, <2>1, ResetUnpublishes DEF ResetTaken
<1>2. CASE SetStart(p)
  BY <1>2, SetStartPublishes
<1>3. CASE ~(ResetTaken(p) \/ SetStart(p))
  BY <1>3, OwnerKeepsClaim, PublishedFrame
<1>4. QED
  BY <1>1, <1>2, <1>3

\* The way from the claim to the tag is a stutter, whatever block it takes.
LEMMA OwnerStutters ==
    ASSUME MpmcInv, NEW p \in Producers, Owner(p)
    PROVE  UNCHANGED <<FifoItems, FifoSending, FifoTaken>>
<1>1. FifoSending' = FifoSending /\ FifoTaken' = FifoTaken
  BY OwnerKeepsClaim, SendingKept, TakenKept
<1>2. \A pos \in Nat : (head <= pos /\ ~IsSentinel(pos))
        => Published(pos)' = Published(pos)
  BY OwnerKeepsPublished
<1>3. FifoItems' = FifoItems
  BY <1>2, OwnerKeepsClaim, ItemsKept DEF ValuesBelow, Lap
<1>4. QED
  BY <1>1, <1>3

\* The store of the tag makes its place receivable, and no other.
LEMMA PublishReadies ==
    ASSUME MpmcInv, NEW p \in Producers, Publish(p)
    PROVE  /\ FifoSending[p] = ppos[p] /\ ppos[p] # NoValue
           /\ FifoSending' = [FifoSending EXCEPT ![p] = NoValue]
           /\ FifoItems' = [i \in DOMAIN FifoItems |->
                              IF FifoItems[i].val = FifoSending[p]
                              THEN [val |-> FifoSending[p], ready |-> TRUE] ELSE FifoItems[i]]
<1>1. /\ ppc \in [Producers -> ProducerPCs] /\ ppos \in [Producers -> Nat]
      /\ ppc[p] = "publish" /\ ppc' = [ppc EXCEPT ![p] = "idle"]
      /\ ppos' = [ppos EXCEPT ![p] = 0]
      /\ UNCHANGED <<indexVars, headVars, consVars>>
  BY DEF Publish, MpmcInv, IndexInv, IndexTypeOK
<1>2. /\ FifoSending[p] = ppos[p] /\ ppos[p] # NoValue
      /\ FifoSending' = [FifoSending EXCEPT ![p] = NoValue]
  <2>1. ppc[p] \in ClaimedPCs /\ "idle" \notin ClaimedPCs /\ ppos[p] # NoValue
    BY <1>1 DEF ClaimedPCs, FoundPCs, NoValue
  <2>2. FifoSending' = [FifoSending EXCEPT ![p] = NoValue]
    BY <1>1, <2>1 DEF FifoSending, NoValue, ClaimedPCs, FoundPCs
  <2>3. QED
    BY <2>1, <2>2 DEF FifoSending
<1>3. /\ Unread' = Unread /\ \A i \in 1..Unread : Place(i)' = Place(i)
  BY <1>1 DEF Unread, Place, ValuesBelow, Lap, PositionOf, BLOCK_CAP
<1>4. FifoItems' = [i \in 1..Unread |->
                      [val |-> Place(i)', ready |-> Published(Place(i))']]
  BY <1>3 DEF FifoItems, PositionsBetween, Unread, Place, PositionOf, ValuesBelow, Lap, BLOCK_CAP
<1>5. \A i \in 1..Unread :
        Published(Place(i))' = IF Place(i) = ppos[p] THEN TRUE ELSE Published(Place(i))
  BY <1>3, ItemsShape, PublishPublishes DEF Published, LapStart, Offset, WrittenTag, Lap
<1>6. DOMAIN FifoItems = 1..Unread /\ \A i \in 1..Unread :
        FifoItems[i] = [val |-> Place(i), ready |-> Published(Place(i))]
  BY ItemsShape
<1>7. FifoItems' = [i \in DOMAIN FifoItems |->
                      IF FifoItems[i].val = FifoSending[p]
                      THEN [val |-> FifoSending[p], ready |-> TRUE] ELSE FifoItems[i]]
  <2>1. SUFFICES ASSUME NEW i \in 1..Unread
                 PROVE  [val |-> Place(i)', ready |-> Published(Place(i))']
                        = IF FifoItems[i].val = FifoSending[p]
                          THEN [val |-> FifoSending[p], ready |-> TRUE] ELSE FifoItems[i]
    BY <1>4, <1>6
  <2>2. CASE Place(i) = ppos[p]
    <3>1. Place(i)' = Place(i) /\ Published(Place(i))' = TRUE
      BY <1>3, <1>5, <2>2
    <3>2. FifoItems[i].val = FifoSending[p]
      BY <1>2, <1>6, <2>2
    <3>3. [val |-> Place(i)', ready |-> Published(Place(i))']
          = [val |-> Place(i), ready |-> TRUE]
      BY <3>1, Zenon
    <3>4. QED
      BY <1>2, <2>2, <3>2, <3>3
  <2>3. CASE Place(i) # ppos[p]
    <3>1. Place(i)' = Place(i) /\ Published(Place(i))' = Published(Place(i))
      BY <1>3, <1>5, <2>3
    <3>2. FifoItems[i].val # FifoSending[p]
      BY <1>2, <1>6, <2>3
    <3>3. [val |-> Place(i)', ready |-> Published(Place(i))'] = FifoItems[i]
      BY <1>6, <3>1
    <3>4. QED
      BY <3>2, <3>3
  <2>4. QED
    BY <2>2, <2>3
<1>8. QED
  BY <1>2, <1>7

LEMMA PublishRefines ==
    ASSUME MpmcInv, NEW p \in Producers, Publish(p)
    PROVE  Abstract!Publish(p)
<1>1. UNCHANGED consVars
  BY DEF Publish
<1>2. QED
  BY <1>1, PublishReadies, TakenKept DEF Abstract!Publish

----------------------------------------------------------------------------
(* The consumers.                                                           *)

\* A producer leaves the pops alone, and a consumer the pushes.
LEMMA ConsumerKeepsSending ==
    ASSUME NEW c \in Consumers, Consumer(c)
    PROVE  UNCHANGED <<prodVars, tail>> /\ FifoSending' = FifoSending
<1>1. UNCHANGED <<prodVars, tail>>
  BY DEF Consumer, StartPop, LoadHeadBlock, PollSentinel, GiveUpOnSentinel, CheckSlot,
     ReturnNone, LookAgain, ClaimFail, ClaimHead, ReadValue, MarkRead, MoveHeadBlock,
     MoveHeadIndex, CheckReaders, Retire, Reset, Recycle, RecycleFail, RecycleSlow
<1>2. QED
  BY <1>1 DEF FifoSending

\* A block that is reset holds no item.
LEMMA ResetKeepsItems ==
    ASSUME MpmcInv, NEW c \in Consumers, ResetsBlock(c)
    PROVE  FifoItems' = FifoItems
<1>1. /\ cblk[c] \in Blocks /\ Left(cblk[c])
      /\ UNCHANGED <<head, tail, state>> /\ start' = [start EXCEPT ![cblk[c]] = POOLED]
  <2>1. /\ cblk[c] \in Blocks /\ start[cblk[c]] = LapStart(cpos[c]) /\ cpos[c] \in Nat
        /\ Finishes(c)
    BY DEF ResetsBlock, MpmcInv, IndexInv, IndexTypeOK, BlockInv, BlockTypeOK, PointerInv,
       ReadInv, TakenPCs, Finishes, FinishingPCs
  <2>2. start[cblk[c]] # POOLED
    BY <2>1, OffsetsAndLaps DEF POOLED
  <2>3. QED
    BY <2>1, <2>2 DEF ResetsBlock, MpmcInv, BlockInv, PoolInv
<1>2. QED
  BY <1>1, ItemsKept, ResetUnpublishes DEF ValuesBelow, Lap

\* Only the claim moves the head over a value, and nobody but producers stores
\* tags.
LEMMA ItemsKeptByConsumers ==
    ASSUME MpmcInv, NEW c \in Consumers, Consumer(c), ~ClaimHead(c)
    PROVE  FifoItems' = FifoItems
<1>1. tail' = tail
  BY ConsumerKeepsSending
<1>2. CASE MoveHeadIndex(c)
  <2>1. /\ head' = head + 1 /\ head \in Nat /\ IsSentinel(head)
        /\ UNCHANGED <<start, state>>
    BY <1>2, SentinelFollowsLastSlot
       DEF MoveHeadIndex, MpmcInv, IndexInv, IndexTypeOK, TakeInv, Moving
  <2>2. ValuesBelow(head') = ValuesBelow(head)
    BY <2>1, PlaceOfPosition
  <2>3. QED
    BY <1>1, <2>1, <2>2, ItemsKept, PublishedFrame DEF ValuesBelow, Lap
<1>3. CASE Reset(c)
  BY <1>3, ResetIsReset, ResetKeepsItems DEF MpmcInv
<1>4. CASE ~MoveHeadIndex(c) /\ ~Reset(c)
  <2>1. UNCHANGED <<head, start, state>>
    BY <1>4 DEF Consumer, StartPop, LoadHeadBlock, PollSentinel, GiveUpOnSentinel, CheckSlot,
       ReturnNone, LookAgain, ClaimFail, ReadValue, MarkRead, MoveHeadBlock,
       CheckReaders, Retire, Recycle, RecycleFail, RecycleSlow
  <2>2. QED
    BY <1>1, <2>1, ItemsKept, PublishedFrame DEF ValuesBelow, Lap
<1>5. QED
  BY <1>2, <1>3, <1>4

\* A head that steps over a published value takes the first item.
LEMMA HeadTakesFirst ==
    ASSUME MpmcInv, ~IsSentinel(head), Published(head), head' = head + 1,
           UNCHANGED <<tail, start, state>>
    PROVE  /\ FifoItems # <<>> /\ Head(FifoItems) = [val |-> head, ready |-> TRUE]
           /\ FifoItems' = Tail(FifoItems)
<1>1. /\ head \in Nat /\ tail \in Nat /\ head < tail /\ Published(head) = TRUE
      /\ ~IsSentinel(head) /\ head' = head + 1 /\ UNCHANGED <<tail, start, state>>
  BY UnclaimedUnpublished DEF MpmcInv, IndexInv, IndexTypeOK, Published
<1>2. /\ ValuesBelow(head) \in Nat /\ ValuesBelow(tail) \in Nat
      /\ ValuesBelow(head') = ValuesBelow(head) + 1 /\ PositionOf(ValuesBelow(head)) = head
      /\ ValuesBelow(head) + 1 <= ValuesBelow(tail)
  <2>1. ValuesBelow(head + 1) <= ValuesBelow(tail)
    BY <1>1, PlacesInOrder
  <2>2. QED
    BY <1>1, <2>1, PlaceOfPosition
<1>3. /\ Unread \in Nat /\ Unread >= 1 /\ Unread' = Unread - 1
      /\ Place(1) = head /\ \A i \in 1..(Unread - 1) : Place(i)' = Place(i + 1)
  <2>1. ValuesBelow(tail') = ValuesBelow(tail)
    BY <1>1 DEF ValuesBelow, Lap
  <2>2. Unread \in Nat /\ Unread >= 1 /\ Unread' = Unread - 1
    BY <1>2, <2>1 DEF Unread
  <2>3. ValuesBelow(head) + 1 - 1 = ValuesBelow(head)
    BY <1>2
  <2>4. Place(1) = head
    BY <1>2, <2>3 DEF Place
  <2>5. ASSUME NEW i \in 1..(Unread - 1) PROVE Place(i)' = Place(i + 1)
    <3>1. ValuesBelow(head') + i - 1 = ValuesBelow(head) + (i + 1) - 1
      BY <1>2, <2>2
    <3>2. QED
      BY <3>1 DEF Place, PositionOf, BLOCK_CAP
  <2>6. QED
    BY <2>2, <2>4, <2>5
<1>4. FifoItems' = [i \in 1..(Unread - 1) |->
                      [val |-> Place(i)', ready |-> Published(Place(i))']]
  BY <1>3 DEF FifoItems, PositionsBetween, Unread, Place, PositionOf, ValuesBelow, Lap, BLOCK_CAP
<1>5. ASSUME NEW i \in 1..(Unread - 1)
      PROVE  [val |-> Place(i)', ready |-> Published(Place(i))'] = FifoItems[i + 1]
  <2>1. /\ i + 1 \in 1..Unread /\ Place(i)' = Place(i + 1)
        /\ Published(Place(i))' = Published(Place(i + 1))
    BY <1>1, <1>3 DEF Published, LapStart, Offset, WrittenTag, Lap
  <2>2. QED
    BY <2>1, ItemsShape
<1>6. /\ FifoItems # <<>> /\ FifoItems \in Seq([val : Nat, ready : BOOLEAN])
      /\ Head(FifoItems) = [val |-> head, ready |-> TRUE]
  <2>1. FifoItems \in Seq([val : Nat, ready : BOOLEAN]) /\ Len(FifoItems) = Unread
    BY ItemsAreSeq
  <2>2. FifoItems[1] = [val |-> head, ready |-> TRUE]
    BY <1>1, <1>3, ItemsShape
  <2>3. QED
    BY <1>3, <2>1, <2>2
<1>7. FifoItems' = Tail(FifoItems)
  <2>1. /\ Tail(FifoItems) \in Seq([val : Nat, ready : BOOLEAN])
        /\ Len(Tail(FifoItems)) = Unread - 1
        /\ \A i \in 1..(Unread - 1) : Tail(FifoItems)[i] = FifoItems[i + 1]
    BY <1>6, HeadTailProperties, ItemsAreSeq
  <2>2. Tail(FifoItems) = [i \in 1..(Unread - 1) |-> FifoItems[i + 1]]
    BY <2>1, LenProperties
  <2>3. QED
    BY <1>4, <1>5, <2>2
<1>8. QED
  BY <1>6, <1>7

\* The CAS of the head takes the first item, which is published.
LEMMA ClaimRefinesTake ==
    ASSUME MpmcInv, ValueInv, NEW c \in Consumers, ClaimHead(c)
    PROVE  Abstract!Take(c)
<1>1. /\ cpc \in [Consumers -> ConsumerPCs] /\ cpos \in [Consumers -> Nat]
      /\ cpc[c] = "cas" /\ cpc' = [cpc EXCEPT ![c] = "read"]
      /\ head = cpos[c] /\ head' = head + 1 /\ head \in Nat /\ tail \in Nat
      /\ UNCHANGED <<indexVars, blockVars, prodVars, cpos, cval>>
  BY DEF ClaimHead, MpmcInv, IndexInv, IndexTypeOK
<1>2. /\ ~IsSentinel(head) /\ cblk[c] \in Blocks /\ start[cblk[c]] = LapStart(head)
      /\ state[cblk[c]][Offset(head)] = WrittenTag(Lap(head))
  BY <1>1 DEF MpmcInv, IndexInv, TakeInv, BlockInv, BlockTypeOK, PointerInv, ReadInv
<1>3. Published(head)
  BY <1>2 DEF Published
<1>4. /\ FifoItems # <<>> /\ Head(FifoItems) = [val |-> head, ready |-> TRUE]
      /\ FifoItems' = Tail(FifoItems)
  BY <1>1, <1>2, <1>3, HeadTakesFirst
<1>5. FifoTaken[c] = NoValue /\ FifoTaken' = [FifoTaken EXCEPT ![c] = head]
  BY <1>1 DEF FifoTaken, ValueInv, TakenPCs
<1>6. FifoSending' = FifoSending
  BY <1>1 DEF FifoSending
<1>7. Head(FifoItems).ready /\ Head(FifoItems).val = head
  BY <1>4
<1>8. QED
  BY <1>4, <1>5, <1>6, <1>7 DEF Abstract!Take

\* The return of a pop that has a value forgets it.
LEMMA ReturnRefines ==
    ASSUME MpmcInv, ValueInv, NEW c \in Consumers, Consumer(c),
           cpc[c] \in TakenPCs, cpc'[c] = "idle"
    PROVE  Abstract!Return(c)
<1>1. /\ cpc \in [Consumers -> ConsumerPCs] /\ cpos \in [Consumers -> Nat]
      /\ cval \in [Consumers -> Nat \cup {NoValue}]
  BY DEF MpmcInv, IndexInv, IndexTypeOK, BlockInv, BlockTypeOK
<1>2. /\ cpc[c] # "read" /\ ~ClaimHead(c) /\ cpc' = [cpc EXCEPT ![c] = "idle"]
      /\ cval' = [cval EXCEPT ![c] = NoValue]
  BY <1>1 DEF Consumer, TakenPCs, StartPop, LoadHeadBlock, PollSentinel, GiveUpOnSentinel,
     CheckSlot, ReturnNone, LookAgain, ClaimFail, ClaimHead, ReadValue, MarkRead,
     MoveHeadBlock, MoveHeadIndex, CheckReaders, Retire, Reset, Recycle, RecycleFail,
     RecycleSlow
<1>3. FifoTaken[c] # NoValue
  BY <1>1, <1>2 DEF FifoTaken, ValueInv, NoValue
<1>4. FifoTaken' = [FifoTaken EXCEPT ![c] = NoValue]
  <2>1. \A d \in Consumers : d # c => cpos'[d] = cpos[d]
    BY <1>1, <1>2 DEF Consumer, TakenPCs, StartPop, LoadHeadBlock, PollSentinel,
       GiveUpOnSentinel, CheckSlot, ReturnNone, LookAgain, ClaimFail, ClaimHead, ReadValue,
       MarkRead, MoveHeadBlock, MoveHeadIndex, CheckReaders, Retire, Reset, Recycle,
       RecycleFail, RecycleSlow
  <2>2. QED
    BY <1>1, <1>2, <2>1 DEF FifoTaken
<1>5. QED
  BY <1>2, <1>3, <1>4, ConsumerKeepsSending, ItemsKeptByConsumers DEF Abstract!Return

\* Every other step of a pop keeps what it has taken, if anything: the value it
\* moves out is the one it claimed.
LEMMA ConsumerStutters ==
    ASSUME MpmcInv, ValueInv, NEW c \in Consumers, Consumer(c), ~ClaimHead(c),
           ~(cpc[c] \in TakenPCs /\ cpc'[c] = "idle")
    PROVE  UNCHANGED <<FifoItems, FifoSending, FifoTaken>>
<1>1. /\ cpc \in [Consumers -> ConsumerPCs] /\ cpos \in [Consumers -> Nat]
      /\ cval \in [Consumers -> Nat \cup {NoValue}]
  BY DEF MpmcInv, IndexInv, IndexTypeOK, BlockInv, BlockTypeOK
<1>2. FifoTaken' = FifoTaken
  <2>1. CASE ReadValue(c)
    <3>1. value[cblk[c]][Offset(cpos[c])] = cpos[c]
      BY <2>1, ReaderSlot DEF ReadValue
    <3>2. QED
      BY <1>1, <2>1, <3>1 DEF ReadValue, FifoTaken
  <2>2. CASE \/ StartPop(c) \/ LoadHeadBlock(c) \/ PollSentinel(c) \/ CheckSlot(c)
             \/ LookAgain(c) \/ ClaimFail(c)
    BY <1>1, <2>2 DEF StartPop, LoadHeadBlock, PollSentinel, CheckSlot, LookAgain,
       ClaimFail, FifoTaken
  <2>3. CASE \/ MoveHeadBlock(c) \/ MoveHeadIndex(c) \/ CheckReaders(c) \/ Reset(c)
             \/ RecycleFail(c)
    BY <1>1, <2>3 DEF MoveHeadBlock, MoveHeadIndex, CheckReaders, Reset, RecycleFail,
       FifoTaken
  <2>4. CASE GiveUpOnSentinel(c) \/ ReturnNone(c)
    BY <1>1, <2>4 DEF GiveUpOnSentinel, ReturnNone, FifoTaken, ValueInv, TakenPCs
  <2>5. CASE MarkRead(c) \/ Retire(c) \/ Recycle(c) \/ RecycleSlow(c)
    BY <1>1, <2>5 DEF MarkRead, Retire, Recycle, RecycleSlow, TakenPCs
  <2>6. QED
    BY <2>1, <2>2, <2>3, <2>4, <2>5 DEF Consumer
<1>3. QED
  BY <1>2, ConsumerKeepsSending, ItemsKeptByConsumers

----------------------------------------------------------------------------
(* The refinement.                                                          *)

LEMMA InitRefines == Init => Abstract!Init
<1> SUFFICES ASSUME Init PROVE Abstract!Init
  OBVIOUS
<1>1. FifoSending = [p \in Producers |-> NoValue]
  BY DEF Init, FifoSending, ClaimedPCs, FoundPCs
<1>2. FifoTaken = [c \in Consumers |-> NoValue]
  BY DEF Init, FifoTaken
<1>3. FifoItems = <<>>
  <2>1. PositionsBetween(head, tail) = [i \in 1..0 |-> PositionOf(ValuesBelow(0) + i - 1)]
    BY PlaceOfPosition DEF Init, PositionsBetween
  <2>2. QED
    BY <2>1 DEF FifoItems
<1>4. QED
  BY <1>1, <1>2, <1>3 DEF Abstract!Init

LEMMA NextRefines ==
    MpmcInv /\ ValueInv /\ [Next]_vars => [Abstract!Next]_(Abstract!vars)
<1> SUFFICES ASSUME MpmcInv, ValueInv, [Next]_vars PROVE [Abstract!Next]_(Abstract!vars)
  OBVIOUS
<1>1. CASE UNCHANGED vars
  <2>1. UNCHANGED <<FifoItems, FifoSending, FifoTaken>>
    BY <1>1 DEF FifoItems, FifoSending, FifoTaken, PositionsBetween, Published
  <2>2. QED
    BY <2>1 DEF Abstract!vars
<1>2. ASSUME NEW p \in Producers, Producer(p) PROVE [Abstract!Next]_(Abstract!vars)
  <2>1. Loops(p) \/ Owner(p) \/ Publish(p)
    BY <1>2 DEF Producer, Loops, Owner
  <2>2. CASE Loops(p) /\ ppc'[p] \in ClaimedPCs
    BY <2>2, LoopRefinesClaim DEF Abstract!Next
  <2>3. CASE Loops(p) /\ ppc'[p] \notin ClaimedPCs
    BY <2>3, LoopStutters DEF Abstract!vars
  <2>4. CASE Owner(p)
    BY <2>4, OwnerStutters DEF Abstract!vars
  <2>5. CASE Publish(p)
    BY <2>5, PublishRefines DEF Abstract!Next
  <2>6. QED
    BY <2>1, <2>2, <2>3, <2>4, <2>5
<1>3. ASSUME NEW c \in Consumers, Consumer(c) PROVE [Abstract!Next]_(Abstract!vars)
  <2>1. CASE ClaimHead(c)
    BY <2>1, ClaimRefinesTake DEF Abstract!Next
  <2>2. CASE cpc[c] \in TakenPCs /\ cpc'[c] = "idle"
    BY <1>3, <2>2, ReturnRefines DEF Abstract!Next
  <2>3. CASE ~ClaimHead(c) /\ ~(cpc[c] \in TakenPCs /\ cpc'[c] = "idle")
    BY <1>3, <2>3, ConsumerStutters DEF Abstract!vars
  <2>4. QED
    BY <2>1, <2>2, <2>3
<1>4. QED
  BY <1>1, <1>2, <1>3 DEF Next

\* What a pop has moved out is the value pushed at the position it has claimed,
\* for as long as the pop runs (queue.rs:830-852).
THEOREM ValueInvariant == Spec => []FifoInv
<1>1. Init => ValueInv
  BY DEF Init, ValueInv, TakenPCs
<1>2. MpmcInv /\ ValueInv /\ [Next]_vars => ValueInv'
  BY ValueKept
<1>3. QED
  BY <1>1, <1>2, BlockInvariant, PTL DEF Spec, FifoInv

\* Every step of push and pop, whatever the threads do in between, is one step
\* of a FIFO queue or none (queue.rs:15-46, 536-573, 784-852).
THEOREM Refinement == Spec => ImplementsFifo
<1>1. Init => Abstract!Init
  BY InitRefines
<1>2. MpmcInv /\ ValueInv /\ [Next]_vars => [Abstract!Next]_(Abstract!vars)
  BY NextRefines
<1>3. QED
  BY <1>1, <1>2, ValueInvariant, PTL DEF Spec, FifoInv, ImplementsFifo, Abstract!Spec

----------------------------------------------------------------------------
(* Nothing is lost: KeepInv, an invariant on top of MpmcInv.  A claimed     *)
(* value position that has not been taken is published or still its        *)
(* producer's, the live blocks are linked in the order of their laps, and   *)
(* an allocated block is live, in the pool, or in someone's hands.  Each    *)
(* part is kept by a frame lemma in most steps.  From it: what Drop drops   *)
(* is what was not received, and every block has exactly one owner.         *)

USE DEF ForgetLocals, vars, indexVars, headVars, linkVars, slotVars, poolVars,
        blockVars, claimLocals, prodVars, consVars, searchFrame, takeFrame,
        installFrame, lookFrame

\* Types, in one place.
LEMMA KeepTypes ==
    ASSUME MpmcInv
    PROVE  /\ IndexInv /\ BlockInv
           /\ head \in Nat /\ tail \in Nat /\ fresh \in Nat /\ LAP \in Nat \ {0}
           /\ ppc \in [Producers -> ProducerPCs] /\ ppos \in [Producers -> Nat]
           /\ start \in [Blocks -> Nat \cup {POOLED}]
           /\ next \in [Blocks -> Blocks \cup {Null}]
           /\ prev \in [Blocks -> Blocks \cup {Null}]
           /\ start[headBlock] \in Nat /\ headBlock \in Blocks
<1>1. IndexInv /\ BlockInv
  BY DEF MpmcInv
<1>2. start[headBlock] \in Nat /\ headBlock \in Blocks
  BY <1>1, HeadServes
<1>3. head \in Nat /\ tail \in Nat
      /\ ppc \in [Producers -> ProducerPCs] /\ ppos \in [Producers -> Nat]
  BY <1>1 DEF IndexInv, IndexTypeOK
<1>4. /\ start \in [Blocks -> Nat \cup {POOLED}]
      /\ next \in [Blocks -> Blocks \cup {Null}]
      /\ prev \in [Blocks -> Blocks \cup {Null}]
      /\ fresh \in Nat
  BY <1>1 DEF BlockInv, BlockTypeOK
<1>5. QED
  BY <1>1, <1>2, <1>3, <1>4, LapAssumption

\* The allocator has handed out blocks.
LEMMA AllocatedBlocks ==
    ASSUME MpmcInv
    PROVE  \A b \in 1..(fresh - 1) : b \in Blocks
<1>1. fresh \in 1..(MaxBlocks + 1)
  BY DEF MpmcInv, BlockInv, BlockTypeOK
<1>2. QED
  BY <1>1, BoundsAssumption DEF Blocks

\* The blocks that an installer holds, and the one it links to.
LEMMA InstallerBlocks ==
    ASSUME MpmcInv, NEW p \in Producers, ppc[p] \in NewPCs
    PROVE  /\ pnew[p] \in Blocks /\ pblk[p] \in Blocks
           /\ ppc[p] = "reset" => Left(pnew[p])
           /\ ppc[p] \in {"link", "start"} => start[pnew[p]] = POOLED
           /\ Installs(p) => \A q \in Producers \ {p} : Installs(q) => pnew[q] # pnew[p]
<1>1. pnew[p] \in Blocks /\ pblk[p] \in Blocks
  BY DEF MpmcInv, BlockInv, BlockTypeOK, PointerInv, PointerPCs, FoundPCs, NewPCs, InstallPCs
<1>2. QED
  BY <1>1 DEF MpmcInv, BlockInv, PoolInv, OwnerInv

\* The block before a live block is live.
LEMMA PrevIsLive ==
    ASSUME IndexInv, BlockInv, NEW b \in Blocks, start[b] > start[headBlock]
    PROVE  /\ prev[b] \in Blocks /\ start[prev[b]] \in Nat
           /\ start[prev[b]] = start[b] - LAP /\ start[b] \in Nat
           /\ start[prev[b]] >= start[headBlock]
<1>1. /\ start[b] \in Nat /\ Offset(start[b]) = 0 /\ LAP \in Nat
      /\ start[headBlock] \in Nat /\ Offset(start[headBlock]) = 0
  BY HeadServes, LapAssumption DEF BlockInv, BlockTypeOK, LapInv, POOLED
<1>2. start[headBlock] + LAP <= start[b]
  BY <1>1, LapsApart
<1>3. prev[b] \in Blocks /\ start[prev[b]] = start[b] - LAP
  BY DEF BlockInv, BlockTypeOK, ChainInv
<1>4. QED
  BY <1>1, <1>2, <1>3

\* Whoever moves the head goes on moving it.
LEMMA SentinelFrame ==
    ASSUME SentinelInv, UNCHANGED head,
           \A c \in Consumers : Moving(c) => Moving(c)'
    PROVE  SentinelInv'
BY DEF SentinelInv, IsSentinel, Offset

\* A position is claimed as the tail moves over it, and stays the producer's
\* until it is published; what is published stays so.
LEMMA WrittenFrame ==
    ASSUME MpmcInv, WrittenInv, head' \in Nat, tail' \in Nat, head <= head',
           \A pos \in Nat : (tail <= pos /\ pos < tail' /\ ~IsSentinel(pos)) =>
             \E p \in Producers : ppc'[p] \in ClaimedPCs /\ ppos'[p] = pos,
           \A pos \in Nat : (head <= pos /\ ~IsSentinel(pos) /\ Published(pos))
             => Published(pos)',
           \A p \in Producers : ppc[p] \in ClaimedPCs =>
             \/ ppc'[p] \in ClaimedPCs /\ ppos'[p] = ppos[p]
             \/ \A pos \in Nat : pos = ppos[p] => Published(pos)'
    PROVE  WrittenInv'
<1>1. head \in Nat /\ tail \in Nat
  BY DEF MpmcInv, IndexInv, IndexTypeOK
<1>2. SUFFICES ASSUME NEW pos \in head'..(tail' - 1), ~IsSentinel(pos)
               PROVE  \/ Published(pos)'
                      \/ \E p \in Producers : ppc'[p] \in ClaimedPCs /\ ppos'[p] = pos
  BY DEF WrittenInv, Published, IsSentinel, Offset, LapStart, Lap, WrittenTag
<1>3. pos \in Nat /\ head <= pos /\ pos < tail'
  BY <1>1
<1>4. CASE tail <= pos
  BY <1>2, <1>3, <1>4
<1>5. CASE pos < tail
  <2>1. pos \in head..(tail - 1)
    BY <1>1, <1>3, <1>5
  <2>2. \/ Published(pos)
        \/ \E p \in Producers : ppc[p] \in ClaimedPCs /\ ppos[p] = pos
    BY <1>2, <2>1 DEF WrittenInv
  <2>3. QED
    BY <1>2, <1>3, <2>2
<1>6. QED
  BY <1>1, <1>3, <1>4, <1>5

\* No link changes, and no block begins a lap or gets linked; blocks that the
\* head has left may be reset.
LEMMA LinkFrame ==
    ASSUME MpmcInv, LinkInv, UNCHANGED <<next, prev>>,
           headBlock' \in Blocks, start[headBlock'] >= start[headBlock],
           start'[headBlock'] = start[headBlock'],
           \A b \in Blocks : \/ start'[b] = start[b]
                             \/ Left(b) /\ start'[b] = POOLED,
           \A p \in Producers :
             /\ ppc'[p] = "next" <=> ppc[p] = "next"
             /\ ppc'[p] = "start" => ppc[p] = "start"
             /\ ppc'[p] \in {"next", "start"} => pnew'[p] = pnew[p]
    PROVE  LinkInv'
<1>1. /\ start \in [Blocks -> Nat \cup {POOLED}] /\ start[headBlock] \in Nat
      /\ next \in [Blocks -> Blocks \cup {Null}] /\ LAP \in Nat
      /\ headBlock \in Blocks
  BY HeadServes, LapAssumption DEF MpmcInv, BlockInv, BlockTypeOK
<1>2. \A b \in Blocks : Unlinked(b)' <=> Unlinked(b)
  BY DEF Unlinked
<1>3. \A b \in Blocks :
        /\ start'[b] >= start'[headBlock'] => start[b] >= start[headBlock] /\ start'[b] = start[b]
        /\ start'[b] > start'[headBlock'] => start[b] > start[headBlock]
  BY <1>1 DEF Left, POOLED
<1>4. \A b \in Blocks : start'[b] > start'[headBlock'] /\ ~Unlinked(b)' => next'[prev'[b]] = b
  BY <1>2, <1>3 DEF LinkInv
<1>5. ASSUME NEW b \in Blocks, Live(b)', next[b] # Null
      PROVE  start'[next[b]] = start'[b] + LAP /\ ~Unlinked(next[b])'
  <2>1. Live(b) /\ start'[b] = start[b] /\ start[b] \in Nat /\ next[b] \in Blocks
    BY <1>1, <1>3, <1>5 DEF Live, POOLED
  <2>2. start[next[b]] = start[b] + LAP /\ ~Unlinked(next[b])
    BY <1>5, <2>1 DEF LinkInv
  <2>3. start'[next[b]] = start[next[b]]
    BY <1>1, <2>1, <2>2 DEF Live, Left
  <2>4. QED
    BY <1>2, <2>1, <2>2, <2>3
<1>6. \A p \in Producers : ppc'[p] = "start" => next'[pnew'[p]] = Null
  BY DEF LinkInv
<1>7. QED
  BY <1>4, <1>5, <1>6 DEF LinkInv, Live

\* Where a block is kept.
Placed(b) ==
    \/ Live(b) \/ InPool(b)
    \/ \E p \in Producers : Installs(p) /\ pnew[p] = b
    \/ \E c \in Consumers : Finishes(c) /\ cblk[c] = b

\* No block leaves its place, and a block that is allocated gets one.
LEMMA PlaceFrame ==
    ASSUME PlaceInv, fresh \in Nat, fresh' \in Nat,
           \A b \in 1..(fresh - 1) : Placed(b) => Placed(b)',
           \A b \in Nat : fresh <= b /\ b < fresh' => Placed(b)'
    PROVE  PlaceInv'
<1>1. \A b \in 1..(fresh - 1) : Placed(b)'
  BY DEF PlaceInv, Placed
<1>2. SUFFICES ASSUME NEW b \in 1..(fresh' - 1) PROVE Placed(b)'
  BY DEF PlaceInv, Placed
<1>3. b \in Nat /\ b < fresh' /\ 1 <= b
  <2>1. \A n \in Nat : b \in 1..(n - 1) => b \in Nat /\ b < n /\ 1 <= b
    OBVIOUS
  <2>2. QED
    BY <2>1
<1>4. CASE b < fresh
  <2>1. b \in 1..(fresh - 1)
    BY <1>3, <1>4
  <2>2. QED
    BY <1>1, <2>1
<1>5. CASE fresh <= b
  BY <1>3, <1>5
<1>6. QED
  BY <1>3, <1>4, <1>5

----------------------------------------------------------------------------
(* The producers.                                                           *)

\* A claim loop: the tail moves over a sentinel, or over the position claimed.
LEMMA LoopFrameKeepsAll ==
    ASSUME MpmcInv, KeepInv, NEW p \in Producers, LoopFrame(p),
           ppc'[p] \in ClaimedPCs => tail' = tail + 1 /\ ppos'[p] = tail,
           ppc'[p] \notin ClaimedPCs =>
             tail' = tail \/ (IsSentinel(tail) /\ tail' = tail + 1)
    PROVE  KeepInv'
<1>1. /\ IndexInv /\ BlockInv /\ ppc \in [Producers -> ProducerPCs]
      /\ ppos \in [Producers -> Nat] /\ head \in Nat /\ tail \in Nat
  BY DEF MpmcInv, IndexInv, IndexTypeOK
<1>2. /\ UNCHANGED <<tailBlock, headVars, blockVars, poolVars, pblk, pnew, consVars>>
      /\ ppc[p] \notin ClaimedPCs
      /\ \A q \in Producers \ {p} : ppc'[q] = ppc[q] /\ ppos'[q] = ppos[q]
      /\ ppc'[p] \in (ProducerPCs \ ClaimedPCs) \cup {"find"}
  BY <1>1 DEF LoopFrame
<1>3. SentinelInv'
  BY <1>2, SentinelFrame DEF KeepInv, Moving, IsLastSlot, Offset, BLOCK_CAP
<1>4. WrittenInv'
  <2>1. CASE ppc'[p] \in ClaimedPCs
    <3>1. tail' = tail + 1 /\ ppos'[p] = tail
      BY <2>1
    <3>2. \A q \in Producers : ppc[q] \in ClaimedPCs =>
            ppc'[q] \in ClaimedPCs /\ ppos'[q] = ppos[q]
      BY <1>2
    <3>3. \A pos \in Nat : Published(pos)' = Published(pos)
      BY <1>2, PublishedFrame
    <3>4. \A pos \in Nat : (tail <= pos /\ pos < tail') => pos = tail
      BY <1>1, <3>1
    <3>5. QED
      BY <1>1, <1>2, <2>1, <3>1, <3>2, <3>3, <3>4, WrittenFrame DEF KeepInv
  <2>2. CASE ppc'[p] \notin ClaimedPCs
    <3>1. tail' = tail \/ (IsSentinel(tail) /\ tail' = tail + 1)
      BY <2>2
    <3>2. \A q \in Producers : ppc[q] \in ClaimedPCs =>
            ppc'[q] \in ClaimedPCs /\ ppos'[q] = ppos[q]
      BY <1>2
    <3>3. \A pos \in Nat : Published(pos)' = Published(pos)
      BY <1>2, PublishedFrame
    <3>4. \A pos \in Nat : (tail <= pos /\ pos < tail') => IsSentinel(pos)
      BY <1>1, <3>1
    <3>5. QED
      BY <1>1, <1>2, <3>1, <3>2, <3>3, <3>4, WrittenFrame DEF KeepInv
  <2>3. QED
    BY <2>1, <2>2
<1>5. LinkInv'
  BY <1>1, <1>2, LinkFrame, HeadServes
     DEF KeepInv, ProducerPCs, ClaimedPCs, FoundPCs
<1>6. PlaceInv'
  <2>1. \A q \in Producers : Installs(q) => Installs(q)'
    BY <1>2 DEF Installs, ClaimedPCs, FoundPCs
  <2>2. \A b \in 1..(fresh - 1) : Placed(b) => Placed(b)'
    BY <1>2, <2>1 DEF Placed, Live, InPool, Finishes
  <2>3. fresh \in Nat /\ fresh' = fresh
    BY <1>1, <1>2 DEF BlockInv, BlockTypeOK
  <2>4. QED
    BY <2>2, <2>3, PlaceFrame DEF KeepInv
<1>7. QED
  BY <1>3, <1>4, <1>5, <1>6 DEF KeepInv

LEMMA LoopKeepsAll ==
    ASSUME MpmcInv, KeepInv, NEW p \in Producers, Loops(p)
    PROVE  KeepInv'
<1>1. IndexInv /\ ppos \in [Producers -> Nat]
  BY KeepTypes
<1>2. LoopFrame(p)
  BY <1>1, LoopClaims
<1>3. /\ ppc'[p] \in ClaimedPCs => tail' = tail + 1 /\ ppos'[p] = tail
      /\ ppc'[p] \notin ClaimedPCs =>
           tail' = tail \/ (IsSentinel(tail) /\ tail' = tail + 1)
  BY <1>1, LoopMovesTail
<1>4. QED
  BY <1>2, <1>3, LoopFrameKeepsAll

\* The way from the claim to the tag: the position stays claimed.
LEMMA OwnerKeepsWritten ==
    ASSUME MpmcInv, KeepInv, NEW p \in Producers, Owner(p)
    PROVE  SentinelInv' /\ WrittenInv'
<1>1. head \in Nat /\ tail \in Nat
  BY DEF MpmcInv, IndexInv, IndexTypeOK
<1>2. /\ \A q \in Producers : ppc[q] \in ClaimedPCs =>
           ppc'[q] \in ClaimedPCs /\ ppos'[q] = ppos[q]
      /\ UNCHANGED <<tail, headVars, consVars>>
  BY OwnerKeepsClaim
<1>3. SentinelInv'
  BY <1>2, SentinelFrame DEF KeepInv, Moving, IsLastSlot, Offset, BLOCK_CAP
<1>4. \A pos \in Nat : (head <= pos /\ ~IsSentinel(pos))
        => Published(pos)' = Published(pos)
  BY OwnerKeepsPublished
<1>5. WrittenInv'
  BY <1>1, <1>2, <1>4, WrittenFrame DEF KeepInv
<1>6. QED
  BY <1>3, <1>5

\* A search, and the steps of an installer that leave links and starts alone.
LEMMA QuietKeepsAll ==
    ASSUME MpmcInv, KeepInv, NEW p \in Producers,
           \/ LoadTailBlock(p) \/ FastCheck(p) \/ WalkCheck(p) \/ FollowPrev(p)
           \/ SetTailBlock(p) \/ WriteValue(p)
    PROVE  KeepInv'
<1>1. /\ IndexInv /\ BlockInv /\ ppc \in [Producers -> ProducerPCs] /\ Owner(p)
      /\ pnew \in [Producers -> Blocks \cup {Null}]
  BY DEF MpmcInv, IndexInv, IndexTypeOK, BlockInv, BlockTypeOK, Owner
<1>2. /\ UNCHANGED <<headVars, linkVars, poolVars, consVars>>
      /\ \A q \in Producers \ {p} : ppc'[q] = ppc[q] /\ pnew'[q] = pnew[q]
      /\ ppc[p] \notin {"reset", "link", "start", "next"}
      /\ ppc'[p] \notin {"reset", "link", "start", "next"}
  BY <1>1 DEF LoadTailBlock, FastCheck, WalkCheck, FollowPrev, SetTailBlock, WriteValue,
     AfterFound
<1>3. LinkInv'
  BY <1>1, <1>2, LinkFrame, HeadServes DEF KeepInv
<1>4. PlaceInv'
  <2>1. \A b \in 1..(fresh - 1) : Placed(b) => Placed(b)'
    BY <1>2 DEF Placed, Live, InPool, Finishes, Installs
  <2>2. fresh \in Nat /\ fresh' = fresh
    BY <1>1, <1>2 DEF BlockInv, BlockTypeOK
  <2>3. QED
    BY <2>1, <2>2, PlaceFrame DEF KeepInv
<1>5. QED
  BY <1>1, <1>3, <1>4, OwnerKeepsWritten DEF KeepInv

\* A block that leaves the pool, or the allocator, is in its installer's hands.
LEMMA TakeKeepsAll ==
    ASSUME MpmcInv, KeepInv, NEW p \in Producers,
           TakeSpare(p) \/ TakeReady(p) \/ TakeRetired(p) \/ Allocate(p)
    PROVE  KeepInv'
<1>1. /\ IndexInv /\ BlockInv /\ ppc \in [Producers -> ProducerPCs] /\ Owner(p)
      /\ pnew \in [Producers -> Blocks \cup {Null}] /\ fresh \in Nat
      /\ spare \in Blocks \cup {Null}
  BY DEF MpmcInv, IndexInv, IndexTypeOK, BlockInv, BlockTypeOK, Owner
<1>2. /\ UNCHANGED <<headVars, linkVars, consVars>>
      /\ \A q \in Producers \ {p} : ppc'[q] = ppc[q] /\ pnew'[q] = pnew[q]
      /\ ppc[p] \in {"take", "take_slow"}
      /\ ppc'[p] \in {"take_slow", "link", "reset"}
  BY <1>1 DEF TakeSpare, TakeReady, TakeRetired, Allocate
<1>3. LinkInv'
  BY <1>1, <1>2, LinkFrame, HeadServes DEF KeepInv
<1>4. \A q \in Producers : Installs(q) => Installs(q)' /\ pnew'[q] = pnew[q]
  BY <1>2 DEF Installs
<1>5. /\ fresh' \in {fresh, fresh + 1}
      /\ \A b \in Nat : InPool(b) /\ b < fresh' /\ b # Null =>
           InPool(b)' \/ (Installs(p)' /\ pnew'[p] = b)
  <2>1. CASE TakeSpare(p)
    BY <1>1, <2>1 DEF TakeSpare, InPool, Installs
  <2>2. CASE TakeReady(p)
    BY <1>1, <2>2 DEF TakeReady, InPool, Installs
  <2>3. CASE TakeRetired(p)
    BY <1>1, <2>3 DEF TakeRetired, InPool, Installs
  <2>4. CASE Allocate(p)
    BY <1>1, <2>4 DEF Allocate, InPool, Installs
  <2>5. QED
    BY <2>1, <2>2, <2>3, <2>4
<1>6. \A b \in 1..(fresh - 1) : Placed(b) => Placed(b)'
  <2>1. SUFFICES ASSUME NEW b \in 1..(fresh - 1), Placed(b) PROVE Placed(b)'
    OBVIOUS
  <2>2. b \in Nat /\ b < fresh' /\ b # Null
    BY <1>1, <1>5 DEF Null
  <2>3. QED
    BY <1>2, <1>4, <1>5, <2>1, <2>2 DEF Placed, Live, Finishes
<1>7. \A b \in Nat : fresh <= b /\ b < fresh' => Placed(b)'
  <2>1. SUFFICES ASSUME NEW b \in Nat, fresh <= b, b < fresh' PROVE Placed(b)'
    OBVIOUS
  <2>2. InPool(b) /\ b # Null
    BY <1>1, <2>1 DEF InPool, Null, BlockInv, BlockTypeOK
  <2>3. QED
    BY <1>5, <2>1, <2>2 DEF Placed
<1>8. PlaceInv'
  BY <1>1, <1>5, <1>6, <1>7, PlaceFrame DEF KeepInv
<1>9. QED
  BY <1>1, <1>3, <1>8, OwnerKeepsWritten DEF KeepInv

\* Block::reset leaves the block with whoever resets it.
LEMMA ResetTakenKeepsAll ==
    ASSUME MpmcInv, KeepInv, NEW p \in Producers, ResetTaken(p)
    PROVE  KeepInv'
<1>1. /\ IndexInv /\ BlockInv /\ ppc \in [Producers -> ProducerPCs] /\ Owner(p)
      /\ start \in [Blocks -> Nat \cup {POOLED}] /\ fresh \in Nat
      /\ ppc[p] = "reset" /\ pnew[p] \in Blocks /\ Left(pnew[p])
  BY KeepTypes, InstallerBlocks DEF ResetTaken, NewPCs, InstallPCs, Owner
<1>2. /\ \A q \in Producers \ {p} : ppc'[q] = ppc[q]
      /\ ppc'[p] = "link" /\ UNCHANGED <<headVars, next, prev, poolVars, pnew, consVars>>
      /\ \A b \in Blocks : b # pnew[p] => start'[b] = start[b]
      /\ start'[pnew[p]] = POOLED
  BY <1>1 DEF ResetTaken
<1>3. headBlock \in Blocks /\ start[headBlock] \in Nat /\ headBlock # pnew[p]
  BY <1>1, HeadServes DEF Left
<1>4. LinkInv'
  <2>1. \A b \in Blocks : start'[b] = start[b] \/ (Left(b) /\ start'[b] = POOLED)
    BY <1>1, <1>2
  <2>2. start'[headBlock'] = start[headBlock'] /\ start[headBlock'] >= start[headBlock]
    BY <1>2, <1>3
  <2>3. QED
    BY <1>1, <1>2, <1>3, <2>1, <2>2, LinkFrame DEF KeepInv
<1>5. \A b \in Blocks : Placed(b) => Placed(b)'
  <2>1. \A b \in Blocks : Live(b) => Live(b)'
    BY <1>1, <1>2, <1>3 DEF Live, Left
  <2>2. \A q \in Producers : Installs(q) => Installs(q)'
    BY <1>2 DEF Installs
  <2>3. QED
    BY <1>1, <1>2, <2>1, <2>2 DEF Placed, InPool, Finishes, Installs
<1>6. PlaceInv'
  BY <1>1, <1>2, <1>5, AllocatedBlocks, PlaceFrame DEF KeepInv
<1>7. QED
  BY <1>1, <1>4, <1>6, OwnerKeepsWritten DEF KeepInv

\* A block is linked while it serves no lap, so that no live block is.
LEMMA LinkKeepsAll ==
    ASSUME MpmcInv, KeepInv, NEW p \in Producers, Link(p)
    PROVE  KeepInv'
<1>1. /\ IndexInv /\ BlockInv /\ ppc \in [Producers -> ProducerPCs] /\ Owner(p)
      /\ start \in [Blocks -> Nat \cup {POOLED}] /\ fresh \in Nat
      /\ next \in [Blocks -> Blocks \cup {Null}] /\ prev \in [Blocks -> Blocks \cup {Null}]
      /\ ppc[p] = "link" /\ pnew[p] \in Blocks /\ start[pnew[p]] = POOLED
      /\ \A q \in Producers \ {p} : Installs(q) => pnew[q] # pnew[p]
      /\ start[headBlock] \in Nat
  BY KeepTypes, InstallerBlocks DEF Link, NewPCs, InstallPCs, Owner, Installs
<1>2. /\ \A q \in Producers \ {p} : ppc'[q] = ppc[q]
      /\ ppc'[p] = "start" /\ UNCHANGED <<headVars, start, poolVars, pnew, consVars>>
      /\ \A b \in Blocks : b # pnew[p] => next'[b] = next[b] /\ prev'[b] = prev[b]
      /\ next'[pnew[p]] = Null
  BY <1>1 DEF Link
<1>3. LinkInv'
  <2>1. \A b \in Blocks : Unlinked(b)' <=> Unlinked(b)
    BY <1>1, <1>2 DEF Unlinked
  <2>2. ASSUME NEW b \in Blocks, start[b] > start[headBlock], ~Unlinked(b)
        PROVE  next'[prev'[b]] = b
    <3>1. next[prev[b]] = b /\ b # pnew[p] /\ prev[b] \in Blocks
      BY <1>1, <2>2 DEF KeepInv, LinkInv, POOLED, BlockInv, ChainInv
    <3>2. prev[b] # pnew[p]
      BY <1>1, <2>2, PrevIsLive DEF POOLED
    <3>3. QED
      BY <1>2, <3>1, <3>2
  <2>3. ASSUME NEW b \in Blocks, NEW e \in Blocks, Live(b), next'[b] = e
        PROVE  start[e] = start[b] + LAP /\ ~Unlinked(e)'
    <3>1. b # pnew[p] /\ e # Null /\ next[b] = e
      BY <1>1, <1>2, <2>3 DEF Live, POOLED, Blocks, Null
    <3>2. start[e] = start[b] + LAP /\ ~Unlinked(e)
      BY <2>3, <3>1 DEF KeepInv, LinkInv
    <3>3. QED
      BY <2>1, <3>2
  <2>4. \A q \in Producers : ppc'[q] = "start" => next'[pnew[q]] = Null
    <3>1. SUFFICES ASSUME NEW q \in Producers, q # p, ppc[q] = "start"
                   PROVE  next'[pnew[q]] = Null
      BY <1>2
    <3>2. pnew[q] # pnew[p] /\ pnew[q] \in Blocks
      BY <1>1, <3>1, InstallerBlocks DEF Installs, NewPCs, InstallPCs
    <3>3. next[pnew[q]] = Null
      BY <3>1 DEF KeepInv, LinkInv
    <3>4. QED
      BY <1>2, <3>2, <3>3
  <2>5. next' \in [Blocks -> Blocks \cup {Null}]
    BY <1>1 DEF Link
  <2>6. QED
    BY <1>2, <2>1, <2>2, <2>3, <2>4, <2>5 DEF LinkInv, Live
<1>4. PlaceInv'
  <2>1. \A b \in 1..(fresh - 1) : Placed(b) => Placed(b)'
    BY <1>1, <1>2 DEF Placed, Live, InPool, Finishes, Installs
  <2>2. QED
    BY <1>1, <1>2, <2>1, PlaceFrame DEF KeepInv
<1>5. QED
  BY <1>1, <1>3, <1>4, OwnerKeepsWritten DEF KeepInv

\* The block that begins a lap is live from here on, linked to nothing, and not
\* linked yet.
LEMMA SetStartKeepsAll ==
    ASSUME MpmcInv, KeepInv, NEW p \in Producers, SetStart(p)
    PROVE  KeepInv'
<1>1. /\ IndexInv /\ BlockInv /\ ppc \in [Producers -> ProducerPCs] /\ Owner(p)
      /\ start \in [Blocks -> Nat \cup {POOLED}] /\ fresh \in Nat
      /\ next \in [Blocks -> Blocks \cup {Null}] /\ prev \in [Blocks -> Blocks \cup {Null}]
      /\ ppc[p] = "start" /\ pnew[p] \in Blocks /\ start[pnew[p]] = POOLED
      /\ start[headBlock] \in Nat /\ headBlock \in Blocks
  BY KeepTypes, InstallerBlocks DEF SetStart, NewPCs, InstallPCs, Owner
<1>2. PICK t \in Nat : t = LapStart(ppos[p]) + LAP /\ t > start[headBlock]
  <2>1. ppos[p] \in Nat /\ ppc[p] \in ClaimedPCs /\ LAP \in Nat \ {0}
    BY <1>1, KeepTypes DEF ClaimedPCs, FoundPCs
  <2>2. LapStart(ppos[p]) \in Nat
    BY <2>1, OffsetsAndLaps
  <2>3. start[headBlock] <= LapStart(ppos[p])
    BY <1>1, <2>1, ClaimedAhead
  <2>4. QED
    BY <1>1, <2>1, <2>2, <2>3
<1>3. /\ \A q \in Producers \ {p} : ppc'[q] = ppc[q]
      /\ ppc'[p] = "next" /\ UNCHANGED <<headVars, next, prev, poolVars, pnew, consVars>>
      /\ \A b \in Blocks : b # pnew[p] => start'[b] = start[b]
      /\ start'[pnew[p]] = t /\ headBlock # pnew[p]
  BY <1>1, <1>2 DEF SetStart, POOLED
<1>4. LinkInv'
  <2>1. \A b \in Blocks : Unlinked(b)' <=> Unlinked(b) \/ b = pnew[p]
    BY <1>1, <1>3 DEF Unlinked
  <2>2. ASSUME NEW b \in Blocks, start'[b] > start'[headBlock], ~Unlinked(b)'
        PROVE  next[prev[b]] = b
    BY <1>1, <1>3, <2>1, <2>2 DEF KeepInv, LinkInv
  <2>3. ASSUME NEW b \in Blocks, start'[b] >= start'[headBlock], next[b] # Null
        PROVE  start'[next[b]] = start'[b] + LAP /\ ~Unlinked(next[b])'
    <3>1. b # pnew[p]
      BY <1>1, <2>3 DEF KeepInv, LinkInv
    <3>2. Live(b) /\ start[b] \in Nat /\ next[b] \in Blocks
      BY <1>1, <1>3, <2>3, <3>1 DEF Live, POOLED
    <3>3. start[next[b]] = start[b] + LAP /\ ~Unlinked(next[b])
      BY <2>3, <3>2 DEF KeepInv, LinkInv
    <3>4. next[b] # pnew[p]
      BY <1>1, <3>2, <3>3, LapAssumption DEF POOLED
    <3>5. QED
      BY <1>3, <2>1, <3>1, <3>2, <3>3, <3>4
  <2>4. \A q \in Producers : ppc'[q] = "start" => next[pnew[q]] = Null
    BY <1>3 DEF KeepInv, LinkInv
  <2>5. QED
    BY <1>3, <2>2, <2>3, <2>4 DEF LinkInv, Live
<1>5. PlaceInv'
  <2>1. Live(pnew[p])'
    BY <1>1, <1>2, <1>3 DEF Live
  <2>2. \A b \in 1..(fresh - 1) : b # pnew[p] /\ Placed(b) => Placed(b)'
    <3>1. \A b \in 1..(fresh - 1) : b \in Blocks
      BY AllocatedBlocks
    <3>2. \A b \in 1..(fresh - 1) : b # pnew[p] /\ Live(b) => Live(b)'
      BY <1>3, <1>1, <3>1 DEF Live
    <3>3. QED
      BY <1>1, <1>3, <3>2 DEF Placed, InPool, Finishes, Installs
  <2>3. QED
    BY <1>1, <1>3, <2>1, <2>2, PlaceFrame DEF KeepInv, Placed
<1>6. QED
  BY <1>1, <1>4, <1>5, OwnerKeepsWritten DEF KeepInv

\* The block is linked, to the one before it.
LEMMA SetNextKeepsAll ==
    ASSUME MpmcInv, KeepInv, NEW p \in Producers, SetNext(p)
    PROVE  KeepInv'
<1>1. /\ IndexInv /\ BlockInv /\ ppc \in [Producers -> ProducerPCs] /\ Owner(p)
      /\ start \in [Blocks -> Nat \cup {POOLED}] /\ fresh \in Nat
      /\ next \in [Blocks -> Blocks \cup {Null}] /\ prev \in [Blocks -> Blocks \cup {Null}]
      /\ ppc[p] = "next" /\ pnew[p] \in Blocks /\ pblk[p] \in Blocks /\ ppos[p] \in Nat
      /\ start[headBlock] \in Nat /\ headBlock \in Blocks
      /\ LAP \in Nat \ {0}
  BY KeepTypes, InstallerBlocks DEF SetNext, NewPCs, InstallPCs, Owner
<1>2. /\ start[pnew[p]] = start[pblk[p]] + LAP /\ start[pblk[p]] \in Nat
      /\ start[pblk[p]] >= start[headBlock]
  BY <1>1, ClaimedAhead, OffsetsAndLaps DEF BlockInv, ChainInv, FindInv, ClaimedPCs, FoundPCs
<1>3. /\ \A q \in Producers \ {p} : ppc'[q] = ppc[q]
      /\ ppc'[p] = "tail" /\ UNCHANGED <<headVars, start, prev, poolVars, pnew, consVars>>
      /\ \A b \in Blocks : b # pblk[p] => next'[b] = next[b]
      /\ next'[pblk[p]] = pnew[p]
  BY <1>1 DEF SetNext
<1>4. \A q \in Producers : q # p /\ ppc[q] = "next" => pnew[q] # pnew[p]
  <2>1. SUFFICES ASSUME NEW q \in Producers, q # p, ppc[q] = "next", pnew[q] = pnew[p]
                 PROVE  FALSE
    OBVIOUS
  <2>2. ppos[q] \in Nat /\ IsLastSlot(ppos[q]) /\ IsLastSlot(ppos[p]) /\ ppos[q] # ppos[p]
    BY <1>1, <2>1 DEF IndexInv, IndexTypeOK, ClaimInv, BlockInv, PointerInv, InstallPCs,
       ClaimedPCs, FoundPCs
  <2>3. start[pnew[q]] = ppos[q] + 2 /\ start[pnew[p]] = ppos[p] + 2
    BY <1>1, <2>1, <2>2, PositionInLap DEF BlockInv, ChainInv
  <2>4. QED
    BY <1>1, <2>1, <2>2, <2>3
<1>5. LinkInv'
  <2>1. \A b \in Blocks : Unlinked(b)' <=> Unlinked(b) /\ b # pnew[p]
    BY <1>1, <1>3, <1>4 DEF Unlinked
  <2>2. ASSUME NEW b \in Blocks, start[b] > start[headBlock], ~Unlinked(b)'
        PROVE  next'[prev[b]] = b
    <3>1. prev[b] \in Blocks /\ start[prev[b]] = start[b] - LAP /\ start[b] \in Nat
      BY <1>1, <2>2 DEF BlockInv, ChainInv, POOLED
    <3>2. CASE b = pnew[p]
      <4>1. start[prev[b]] = start[pblk[p]]
        BY <1>1, <1>2, <3>1, <3>2
      <4>2. prev[b] = pblk[p]
        BY <1>1, <1>2, <3>1, <4>1 DEF BlockInv, LapInv, POOLED
      <4>3. QED
        BY <1>3, <3>2, <4>2
    <3>3. CASE b # pnew[p]
      <4>1. next[prev[b]] = b
        BY <2>1, <2>2, <3>3 DEF KeepInv, LinkInv
      <4>2. prev[b] # pblk[p]
        <5>1. SUFFICES ASSUME prev[b] = pblk[p] PROVE FALSE
          OBVIOUS
        <5>2. start[b] = start[pnew[p]]
          BY <1>1, <1>2, <3>1, <5>1
        <5>3. QED
          BY <1>1, <3>1, <3>3, <5>2 DEF BlockInv, LapInv, POOLED
      <4>3. QED
        BY <1>3, <3>1, <4>1, <4>2
    <3>4. QED
      BY <3>2, <3>3
  <2>3. ASSUME NEW b \in Blocks, NEW e \in Blocks, Live(b), next'[b] = e
        PROVE  start[e] = start[b] + LAP /\ ~Unlinked(e)'
    <3>1. CASE b = pblk[p]
      BY <1>1, <1>2, <1>3, <2>1, <2>3, <3>1
    <3>2. CASE b # pblk[p]
      <4>1. next[b] = e /\ e # Null
        BY <1>1, <1>3, <2>3, <3>2 DEF Blocks, Null
      <4>2. start[e] = start[b] + LAP /\ ~Unlinked(e)
        BY <2>3, <4>1 DEF KeepInv, LinkInv
      <4>3. QED
        BY <2>1, <4>2
    <3>3. QED
      BY <3>1, <3>2
  <2>4. \A q \in Producers : ppc'[q] = "start" => next'[pnew[q]] = Null
    <3>1. SUFFICES ASSUME NEW q \in Producers, ppc[q] = "start"
                   PROVE  next'[pnew[q]] = Null
      BY <1>3
    <3>2. pnew[q] \in Blocks /\ next[pnew[q]] = Null /\ start[pnew[q]] = POOLED
      BY <1>1, <3>1 DEF KeepInv, LinkInv, BlockInv, BlockTypeOK, PointerInv, PoolInv,
         NewPCs, InstallPCs
    <3>3. pnew[q] # pblk[p]
      BY <1>1, <1>2, <3>2 DEF POOLED
    <3>4. QED
      BY <1>3, <3>2, <3>3
  <2>5. next' \in [Blocks -> Blocks \cup {Null}]
    BY <1>1 DEF SetNext
  <2>6. QED
    BY <1>3, <2>2, <2>3, <2>4, <2>5 DEF LinkInv, Live
<1>6. PlaceInv'
  <2>1. \A b \in 1..(fresh - 1) : Placed(b) => Placed(b)'
    BY <1>1, <1>3 DEF Placed, Live, InPool, Finishes, Installs
  <2>2. QED
    BY <1>1, <1>3, <2>1, PlaceFrame DEF KeepInv
<1>7. QED
  BY <1>1, <1>5, <1>6, OwnerKeepsWritten DEF KeepInv

\* The store of the tag gives up the claim of a position that is published.
LEMMA PublishKeepsAll ==
    ASSUME MpmcInv, KeepInv, NEW p \in Producers, Publish(p)
    PROVE  KeepInv'
<1>1. /\ IndexInv /\ BlockInv /\ ppc \in [Producers -> ProducerPCs]
      /\ ppos \in [Producers -> Nat] /\ fresh \in Nat /\ head \in Nat /\ tail \in Nat
      /\ ppc[p] = "publish" /\ ppc[p] \in ClaimedPCs
  BY DEF Publish, MpmcInv, IndexInv, IndexTypeOK, BlockInv, BlockTypeOK, ClaimedPCs, FoundPCs
<1>2. /\ \A q \in Producers \ {p} : ppc'[q] = ppc[q] /\ ppos'[q] = ppos[q]
      /\ ppc'[p] = "idle" /\ UNCHANGED <<tail, headVars, linkVars, poolVars, pnew, consVars>>
  BY <1>1 DEF Publish
<1>3. SentinelInv'
  BY <1>2, SentinelFrame DEF KeepInv, Moving, IsLastSlot, Offset, BLOCK_CAP
<1>4. WrittenInv'
  <2>1. ~IsSentinel(ppos[p])
    BY <1>1 DEF IndexInv, ClaimInv
  <2>2. \A pos \in Nat : ~IsSentinel(pos) =>
          Published(pos)' = IF pos = ppos[p] THEN TRUE ELSE Published(pos)
    BY PublishPublishes
  <2>3. \A pos \in Nat : pos = ppos[p] => Published(pos)'
    BY <2>1, <2>2
  <2>4. \A q \in Producers : ppc[q] \in ClaimedPCs =>
          \/ ppc'[q] \in ClaimedPCs /\ ppos'[q] = ppos[q]
          \/ \A pos \in Nat : pos = ppos[q] => Published(pos)'
    BY <1>2, <2>3
  <2>5. \A pos \in Nat : ~(tail <= pos /\ pos < tail')
    BY <1>1, <1>2
  <2>6. \A pos \in Nat : (head <= pos /\ ~IsSentinel(pos) /\ Published(pos)) => Published(pos)'
    BY <2>2
  <2>7. QED
    BY <1>1, <1>2, <2>4, <2>5, <2>6, WrittenFrame DEF KeepInv
<1>5. LinkInv'
  BY <1>1, <1>2, LinkFrame, HeadServes DEF KeepInv
<1>6. PlaceInv'
  <2>1. \A b \in 1..(fresh - 1) : Placed(b) => Placed(b)'
    BY <1>1, <1>2 DEF Placed, Live, InPool, Finishes, Installs
  <2>2. QED
    BY <1>1, <1>2, <2>1, PlaceFrame DEF KeepInv
<1>7. QED
  BY <1>3, <1>4, <1>5, <1>6 DEF KeepInv

----------------------------------------------------------------------------
(* The consumers.                                                           *)

\* A consumer leaves the producers and the tail alone.
LEMMA ConsumerKeepsWritten ==
    ASSUME MpmcInv, WrittenInv, NEW c \in Consumers, UNCHANGED <<prodVars, tail>>,
           head' \in Nat, head <= head',
           \A pos \in Nat : (head <= pos /\ ~IsSentinel(pos) /\ Published(pos))
             => Published(pos)'
    PROVE  WrittenInv'
<1>1. \A pos \in Nat : ~(tail <= pos /\ pos < tail')
  BY KeepTypes
<1>2. QED
  BY <1>1, KeepTypes, WrittenFrame

\* The consumers that touch neither the head nor a block: their own locals, the
\* marks, and the lists of the pool.
LEMMA QuietConsumerKeepsAll ==
    ASSUME MpmcInv, KeepInv, NEW c \in Consumers,
           UNCHANGED <<prodVars, tail, headVars, linkVars, state, poolVars>>,
           \A d \in Consumers : /\ Moving(d) => Moving(d)'
                                /\ Finishes(d) => Finishes(d)' /\ cblk'[d] = cblk[d]
    PROVE  KeepInv'
<1>1. SentinelInv'
  BY SentinelFrame DEF KeepInv
<1>2. WrittenInv'
  BY KeepTypes, PublishedFrame, ConsumerKeepsWritten DEF KeepInv
<1>3. LinkInv'
  BY KeepTypes, LinkFrame DEF KeepInv
<1>4. \A b \in 1..(fresh - 1) : Placed(b) => Placed(b)'
  BY DEF Placed, Live, InPool, Installs
<1>5. PlaceInv'
  BY <1>4, KeepTypes, PlaceFrame DEF KeepInv
<1>6. QED
  BY <1>1, <1>2, <1>3, <1>5 DEF KeepInv

\* pop up to its claim, and its steps that leave head and pool alone.
LEMMA LookKeepsAll ==
    ASSUME MpmcInv, KeepInv, NEW c \in Consumers,
           \/ StartPop(c) \/ LoadHeadBlock(c) \/ PollSentinel(c)
           \/ GiveUpOnSentinel(c) \/ CheckSlot(c) \/ ReturnNone(c) \/ LookAgain(c)
           \/ ClaimFail(c) \/ ReadValue(c) \/ MarkRead(c) \/ CheckReaders(c)
           \/ RecycleFail(c)
    PROVE  KeepInv'
<1>1. /\ cpc \in [Consumers -> ConsumerPCs] /\ cpos \in [Consumers -> Nat]
      /\ cblk \in [Consumers -> Blocks \cup {Null}]
      /\ cpc[c] = "mark" => ~IsLastSlot(cpos[c])
  BY DEF MpmcInv, IndexInv, IndexTypeOK, BlockInv, BlockTypeOK, PointerInv
<1>2. /\ UNCHANGED <<prodVars, tail, headVars, linkVars, state, poolVars>>
      /\ \A d \in Consumers \ {c} :
           cpc'[d] = cpc[d] /\ cpos'[d] = cpos[d] /\ cblk'[d] = cblk[d]
  BY <1>1 DEF StartPop, LoadHeadBlock, PollSentinel, GiveUpOnSentinel, CheckSlot,
     ReturnNone, LookAgain, ClaimFail, ReadValue, MarkRead, CheckReaders, RecycleFail
<1>3. /\ Moving(c) => Moving(c)'
      /\ Finishes(c) => Finishes(c)' /\ cblk'[c] = cblk[c]
  <2>1. CASE ReadValue(c)
    BY <1>1, <2>1 DEF ReadValue, Moving, Finishes, FinishingPCs, IsLastSlot, Offset, BLOCK_CAP
  <2>2. CASE ~ReadValue(c)
    BY <1>1, <2>2 DEF StartPop, LoadHeadBlock, PollSentinel, GiveUpOnSentinel, CheckSlot,
       ReturnNone, LookAgain, ClaimFail, MarkRead, CheckReaders, RecycleFail,
       Moving, Finishes, FinishingPCs
  <2>3. QED
    BY <2>1, <2>2
<1>4. \A d \in Consumers : /\ Moving(d) => Moving(d)'
                           /\ Finishes(d) => Finishes(d)' /\ cblk'[d] = cblk[d]
  BY <1>2, <1>3 DEF Moving, Finishes, IsLastSlot, Offset, BLOCK_CAP
<1>5. QED
  BY <1>2, <1>4, QuietConsumerKeepsAll

\* The CAS of the head leaves a position below the head; if the sentinel comes
\* next, this consumer moves the head over it.
LEMMA ClaimHeadKeepsAll ==
    ASSUME MpmcInv, KeepInv, NEW c \in Consumers, ClaimHead(c)
    PROVE  KeepInv'
<1>1. /\ cpc \in [Consumers -> ConsumerPCs] /\ cpos \in [Consumers -> Nat]
      /\ cpc[c] = "cas" /\ cpc' = [cpc EXCEPT ![c] = "read"] /\ head \in Nat
      /\ head = cpos[c] /\ head' = head + 1
      /\ UNCHANGED <<prodVars, tail, headBlock, blockVars, poolVars, cpos, cblk>>
  BY DEF ClaimHead, MpmcInv, IndexInv, IndexTypeOK
<1>2. SentinelInv'
  <2>1. IsSentinel(head') => IsLastSlot(cpos[c])
    BY <1>1, OffsetsAndLaps
  <2>2. IsSentinel(head)' => Moving(c)'
    BY <1>1, <2>1 DEF Moving, IsSentinel, IsLastSlot, Offset, BLOCK_CAP
  <2>3. QED
    BY <2>2 DEF SentinelInv
<1>3. WrittenInv'
  BY <1>1, PublishedFrame, ConsumerKeepsWritten DEF KeepInv
<1>4. LinkInv'
  BY <1>1, KeepTypes, LinkFrame DEF KeepInv
<1>5. \A b \in 1..(fresh - 1) : Placed(b) => Placed(b)'
  BY <1>1 DEF Placed, Live, InPool, Installs, Finishes, FinishingPCs
<1>6. PlaceInv'
  BY <1>1, <1>5, KeepTypes, PlaceFrame DEF KeepInv
<1>7. QED
  BY <1>2, <1>3, <1>4, <1>6 DEF KeepInv

\* The step of the exclusive consumer: so it does, if it took the last slot.
LEMMA TakeAtOnceKeepsAll ==
    ASSUME MpmcInv, KeepInv, NEW c \in Consumers, TakesAtOnce(c)
    PROVE  KeepInv'
<1>1. /\ cpc \in [Consumers -> ConsumerPCs] /\ cpos \in [Consumers -> Nat]
      /\ head \in Nat /\ head' = head + 1
      /\ \A d \in Consumers : cpc[d] = "idle"
      /\ UNCHANGED <<prodVars, tail, headBlock, blockVars, poolVars>>
  BY DEF TakesAtOnce, MpmcInv, IndexInv, IndexTypeOK
<1>2. SentinelInv'
  <2>1. IsSentinel(head') => IsLastSlot(head)
    BY <1>1, OffsetsAndLaps
  <2>2. IsLastSlot(head) => cpc'[c] = "next"
    BY <1>1 DEF TakesAtOnce
  <2>3. IsSentinel(head)' => Moving(c)'
    BY <2>1, <2>2 DEF Moving, IsSentinel, Offset, BLOCK_CAP
  <2>4. QED
    BY <2>3 DEF SentinelInv
<1>3. WrittenInv'
  BY <1>1, PublishedFrame, ConsumerKeepsWritten DEF KeepInv
<1>4. LinkInv'
  BY <1>1, KeepTypes, LinkFrame DEF KeepInv
<1>5. \A b \in 1..(fresh - 1) : Placed(b) => Placed(b)'
  BY <1>1 DEF Placed, Live, InPool, Installs, Finishes, FinishingPCs
<1>6. PlaceInv'
  BY <1>1, <1>5, KeepTypes, PlaceFrame DEF KeepInv
<1>7. QED
  BY <1>2, <1>3, <1>4, <1>6 DEF KeepInv

\* The block that the head leaves is in the hands of the consumer that moves it.
LEMMA MoveHeadBlockKeepsAll ==
    ASSUME MpmcInv, KeepInv, NEW c \in Consumers, MoveHeadBlock(c)
    PROVE  KeepInv'
<1>1. /\ cpc \in [Consumers -> ConsumerPCs] /\ cpos \in [Consumers -> Nat]
      /\ cpc[c] = "next" /\ cpc' = [cpc EXCEPT ![c] = "advance"]
      /\ headBlock' = next[cblk[c]]
      /\ UNCHANGED <<prodVars, tail, head, blockVars, poolVars, cpos, cblk>>
  BY DEF MoveHeadBlock, MpmcInv, IndexInv, IndexTypeOK
<1>2. /\ cblk[c] = headBlock /\ headBlock' \in Blocks
      /\ start[headBlock'] = start[headBlock] + LAP
  BY <1>1, LastSlotTaken DEF MpmcInv
<1>3. SentinelInv'
  BY <1>1, SentinelFrame DEF KeepInv, Moving, IsLastSlot, Offset, BLOCK_CAP
<1>4. WrittenInv'
  BY <1>1, KeepTypes, PublishedFrame, ConsumerKeepsWritten DEF KeepInv
<1>5. LinkInv'
  <2>1. start[headBlock'] >= start[headBlock]
    BY <1>2, KeepTypes
  <2>2. QED
    BY <1>1, <1>2, <2>1, LinkFrame DEF KeepInv
<1>6. \A b \in Blocks : Placed(b) => Placed(b)'
  <2>1. \A b \in Blocks : Live(b) => Live(b)' \/ b = headBlock
    <3>1. SUFFICES ASSUME NEW b \in Blocks, Live(b), b # headBlock PROVE Live(b)'
      OBVIOUS
    <3>2. /\ start[b] \in Nat /\ Offset(start[b]) = 0 /\ start[b] # start[headBlock]
          /\ start[headBlock] \in Nat /\ Offset(start[headBlock]) = 0
      BY <3>1, KeepTypes, HeadServes DEF Live, BlockInv, LapInv, POOLED
    <3>3. start[headBlock] < start[b]
      BY <3>1, <3>2 DEF Live
    <3>4. start[headBlock] + LAP <= start[b]
      BY <3>2, <3>3, LapsApart
    <3>5. QED
      BY <1>1, <1>2, <3>2, <3>4, KeepTypes DEF Live
  <2>2. Finishes(c)' /\ cblk'[c] = headBlock
    BY <1>1, <1>2 DEF Finishes, FinishingPCs
  <2>3. \A d \in Consumers : Finishes(d) => Finishes(d)'
    BY <1>1 DEF Finishes, FinishingPCs
  <2>4. QED
    BY <1>1, <2>1, <2>2, <2>3 DEF Placed, InPool, Installs
<1>7. PlaceInv'
  BY <1>1, <1>6, AllocatedBlocks, KeepTypes, PlaceFrame DEF KeepInv
<1>8. QED
  BY <1>3, <1>4, <1>5, <1>7 DEF KeepInv

\* The head leaves the sentinel.
LEMMA MoveHeadIndexKeepsAll ==
    ASSUME MpmcInv, KeepInv, NEW c \in Consumers, MoveHeadIndex(c)
    PROVE  KeepInv'
<1>1. /\ cpc \in [Consumers -> ConsumerPCs] /\ cpos \in [Consumers -> Nat]
      /\ cpc[c] = "advance" /\ cpc' = [cpc EXCEPT ![c] = "readers"]
      /\ head \in Nat /\ head = cpos[c] + 1 /\ head' = head + 1 /\ IsLastSlot(cpos[c])
      /\ UNCHANGED <<prodVars, tail, headBlock, blockVars, poolVars, cpos, cblk>>
  BY DEF MoveHeadIndex, MpmcInv, IndexInv, IndexTypeOK, TakeInv, Moving
<1>2. SentinelInv'
  <2>1. ~IsSentinel(cpos[c] + 2)
    BY <1>1, SentinelFollowsLastSlot
  <2>2. head' = cpos[c] + 2
    BY <1>1
  <2>3. QED
    BY <2>1, <2>2 DEF SentinelInv, IsSentinel, Offset, BLOCK_CAP
<1>3. WrittenInv'
  BY <1>1, KeepTypes, PublishedFrame, ConsumerKeepsWritten DEF KeepInv
<1>4. LinkInv'
  BY <1>1, KeepTypes, LinkFrame DEF KeepInv
<1>5. \A b \in 1..(fresh - 1) : Placed(b) => Placed(b)'
  BY <1>1 DEF Placed, Live, InPool, Installs, Finishes, FinishingPCs
<1>6. PlaceInv'
  BY <1>1, <1>5, KeepTypes, PlaceFrame DEF KeepInv
<1>7. QED
  BY <1>2, <1>3, <1>4, <1>6 DEF KeepInv

\* Block::reset, of a block that its consumer goes on holding.
LEMMA ResetFrameKeepsAll ==
    ASSUME MpmcInv, KeepInv, NEW c \in Consumers, ResetsBlock(c)
    PROVE  KeepInv'
<1>1. /\ cpc \in [Consumers -> ConsumerPCs] /\ cpos \in [Consumers -> Nat]
      /\ cpc[c] \in {"readers", "reset"} /\ cpc' = [cpc EXCEPT ![c] = "recycle"]
      /\ cblk[c] \in Blocks /\ Left(cblk[c])
      /\ start' = [start EXCEPT ![cblk[c]] = POOLED]
      /\ UNCHANGED <<prodVars, tail, headVars, next, prev, state, poolVars, cpos, cblk>>
  <2>1. /\ cblk[c] \in Blocks /\ start[cblk[c]] = LapStart(cpos[c]) /\ cpos[c] \in Nat
        /\ Finishes(c)
    BY DEF ResetsBlock, MpmcInv, IndexInv, IndexTypeOK, BlockInv, BlockTypeOK, PointerInv,
       ReadInv, TakenPCs, Finishes, FinishingPCs
  <2>2. start[cblk[c]] # POOLED
    BY <2>1, OffsetsAndLaps DEF POOLED
  <2>3. QED
    BY <2>1, <2>2 DEF ResetsBlock, MpmcInv, IndexInv, IndexTypeOK, BlockInv, PoolInv
<1>2. SentinelInv'
  BY <1>1, SentinelFrame DEF KeepInv, Moving, IsLastSlot, Offset, BLOCK_CAP
<1>3. WrittenInv'
  <2>1. \A pos \in Nat : (head <= pos /\ ~IsSentinel(pos)) => Published(pos)' = Published(pos)
    BY <1>1, ResetUnpublishes
  <2>2. QED
    BY <1>1, <2>1, KeepTypes, ConsumerKeepsWritten DEF KeepInv
<1>4. headBlock # cblk[c] /\ \A b \in Blocks : b # cblk[c] => start'[b] = start[b]
  BY <1>1, KeepTypes DEF Left
<1>5. LinkInv'
  <2>1. \A b \in Blocks : start'[b] = start[b] \/ (Left(b) /\ start'[b] = POOLED)
    BY <1>1, <1>4, KeepTypes
  <2>2. start'[headBlock'] = start[headBlock'] /\ start[headBlock'] >= start[headBlock]
    BY <1>1, <1>4, KeepTypes
  <2>3. QED
    BY <1>1, <2>1, <2>2, KeepTypes, LinkFrame DEF KeepInv
<1>6. \A b \in Blocks : Placed(b) => Placed(b)'
  <2>1. \A b \in Blocks : Live(b) => Live(b)'
    BY <1>1, <1>4, KeepTypes DEF Live, Left
  <2>2. \A d \in Consumers : Finishes(d) => Finishes(d)'
    BY <1>1 DEF Finishes, FinishingPCs
  <2>3. QED
    BY <1>1, <2>1, <2>2 DEF Placed, InPool, Installs
<1>7. PlaceInv'
  BY <1>1, <1>6, AllocatedBlocks, KeepTypes, PlaceFrame DEF KeepInv
<1>8. QED
  BY <1>2, <1>3, <1>5, <1>7 DEF KeepInv

LEMMA ResetKeepsAll ==
    ASSUME MpmcInv, KeepInv, NEW c \in Consumers, Reset(c)
    PROVE  KeepInv'
BY ResetIsReset, ResetFrameKeepsAll, KeepTypes

\* A block that is given back is in the pool.
LEMMA GiveBackKeepsAll ==
    ASSUME MpmcInv, KeepInv, NEW c \in Consumers,
           Retire(c) \/ Recycle(c) \/ RecycleSlow(c)
    PROVE  KeepInv'
<1>1. /\ cpc \in [Consumers -> ConsumerPCs] /\ cpos \in [Consumers -> Nat]
      /\ cblk \in [Consumers -> Blocks \cup {Null}]
      /\ cpc[c] \in {"retire", "recycle", "recycle_slow"} /\ cpc'[c] = "idle"
      /\ \A d \in Consumers \ {c} :
           cpc'[d] = cpc[d] /\ cpos'[d] = cpos[d] /\ cblk'[d] = cblk[d]
      /\ UNCHANGED <<prodVars, tail, headVars, blockVars, fresh>>
  BY DEF Retire, Recycle, RecycleSlow, MpmcInv, IndexInv, IndexTypeOK, BlockInv, BlockTypeOK
<1>2. SentinelInv'
  BY <1>1, SentinelFrame DEF KeepInv, Moving, IsLastSlot, Offset, BLOCK_CAP
<1>3. WrittenInv'
  BY <1>1, KeepTypes, PublishedFrame, ConsumerKeepsWritten DEF KeepInv
<1>4. LinkInv'
  BY <1>1, KeepTypes, LinkFrame DEF KeepInv
<1>5. \A b \in Blocks : (InPool(b) => InPool(b)') /\ (b = cblk[c] => InPool(b)')
  BY DEF Retire, Recycle, RecycleSlow, InPool, Blocks, Null
<1>6. \A b \in Blocks : Placed(b) => Placed(b)'
  BY <1>1, <1>5 DEF Placed, Live, Installs, Finishes
<1>7. PlaceInv'
  BY <1>1, <1>6, AllocatedBlocks, KeepTypes, PlaceFrame DEF KeepInv
<1>8. QED
  BY <1>2, <1>3, <1>4, <1>7 DEF KeepInv

\* Queue::new.
LEMMA InitEstablishesKeep == Init => KeepInv
<1> SUFFICES ASSUME Init PROVE KeepInv
  OBVIOUS
<1>1. 1 \in Blocks /\ Offset(0) = 0 /\ ~IsSentinel(0)
  BY LapAssumption, BoundsAssumption DEF Blocks, Offset, IsSentinel, BLOCK_CAP
<1>2. SentinelInv /\ WrittenInv
  BY <1>1 DEF Init, SentinelInv, WrittenInv
<1>3. LinkInv
  BY <1>1 DEF Init, LinkInv, Live, POOLED
<1>4. PlaceInv
  BY <1>1 DEF Init, PlaceInv, Live
<1>5. QED
  BY <1>2, <1>3, <1>4 DEF KeepInv

\* Every step of push and pop.
LEMMA NextKeepsAll == MpmcInv /\ KeepInv /\ [Next]_vars => KeepInv'
<1> SUFFICES ASSUME MpmcInv, KeepInv, [Next]_vars PROVE KeepInv'
  OBVIOUS
<1>1. ASSUME NEW p \in Producers, Producer(p) PROVE KeepInv'
  BY <1>1, LoopKeepsAll, QuietKeepsAll, TakeKeepsAll, ResetTakenKeepsAll, LinkKeepsAll,
     SetStartKeepsAll, SetNextKeepsAll, PublishKeepsAll DEF Producer, Loops
<1>2. ASSUME NEW c \in Consumers, Consumer(c) PROVE KeepInv'
  BY <1>2, LookKeepsAll, ClaimHeadKeepsAll, MoveHeadBlockKeepsAll, MoveHeadIndexKeepsAll,
     ResetKeepsAll, GiveBackKeepsAll DEF Consumer
<1>3. CASE UNCHANGED vars
  <2>1. UNCHANGED <<tail, head, headBlock, start, next, prev, state, spare, ready, retired,
                    fresh, ppc, ppos, pnew, cpc, cpos, cblk>>
    BY <1>3
  <2>2. SentinelInv' /\ LinkInv' /\ PlaceInv'
    BY <2>1 DEF KeepInv, SentinelInv, Moving, IsSentinel, IsLastSlot, Offset, LinkInv,
       Unlinked, Live, PlaceInv, InPool, Installs, Finishes
  <2>3. WrittenInv'
    BY <2>1 DEF KeepInv, WrittenInv, Published, IsSentinel, Offset, LapStart, Lap, WrittenTag
  <2>4. QED
    BY <2>2, <2>3 DEF KeepInv
<1>4. QED
  BY <1>1, <1>2, <1>3 DEF Next

----------------------------------------------------------------------------
(* Drop.                                                                    *)

\* The recursion that gives Drop its block is well defined.
LEMMA DropBlockDef ==
    ASSUME head \in Nat
    PROVE  \A i \in Nat :
             DropBlock[i] = IF i <= head THEN headBlock
                            ELSE IF IsSentinel(i - 1) THEN next[DropBlock[i - 1]]
                            ELSE DropBlock[i - 1]
<1> DEFINE A == {i \in Nat : IsSentinel(i)}
<1>1. PICK g : IsRecursive(g, head, A, headBlock, next)
  <2> HIDE DEF A
  <2>1. QED
    BY RecursionExists
<1>2. g = [i \in Nat |-> IF i <= head THEN headBlock
                         ELSE IF IsSentinel(i - 1) THEN next[g[i - 1]] ELSE g[i - 1]]
  <2>1. \A i \in Nat : ~(i <= head) => (i - 1 \in A <=> IsSentinel(i - 1))
    OBVIOUS
  <2> HIDE DEF A
  <2>2. \A i \in Nat : g[i] = IF i <= head THEN headBlock
                              ELSE IF IsSentinel(i - 1) THEN next[g[i - 1]] ELSE g[i - 1]
    BY <1>1, <2>1 DEF IsRecursive
  <2>3. QED
    BY <1>1, <2>2 DEF IsRecursive
<1>3. DropBlock = [i \in Nat |-> IF i <= head THEN headBlock
                                 ELSE IF IsSentinel(i - 1) THEN next[DropBlock[i - 1]]
                                 ELSE DropBlock[i - 1]]
  BY <1>2 DEF DropBlock
<1>4. QED
  BY <1>3

\* At rest, what is between head and tail is published, and the head is in the
\* block of its lap.
LEMMA AtRest ==
    ASSUME MpmcInv, KeepInv, Quiescent
    PROVE  /\ start[headBlock] = LapStart(head) /\ ~IsSentinel(head)
           /\ \A pos \in Nat : head <= pos /\ pos < tail /\ ~IsSentinel(pos) =>
                Published(pos)
<1>1. \A c \in Consumers : cpc[c] = "idle"
  BY DEF Quiescent
<1>2. start[headBlock] = LapStart(head) /\ ~IsSentinel(head)
  BY <1>1 DEF MpmcInv, BlockInv, HeadInv, KeepInv, SentinelInv, Moving
<1>3. ASSUME NEW pos \in Nat, head <= pos, pos < tail, ~IsSentinel(pos)
      PROVE  Published(pos)
  <2>1. pos \in head..(tail - 1)
    BY <1>3, KeepTypes
  <2>2. QED
    BY <1>3, <2>1 DEF Quiescent, KeepInv, WrittenInv, ClaimedPCs, FoundPCs
<1>4. QED
  BY <1>2, <1>3

\* Drop is in the block that serves the lap of its position.
LEMMA DropFollowsLaps ==
    ASSUME MpmcInv, KeepInv, Quiescent
    PROVE  \A i \in Nat : head <= i /\ i <= tail =>
             DropBlock[i] \in Blocks /\ start[DropBlock[i]] = LapStart(i)
<1> DEFINE T == {n \in Nat : head + n <= tail =>
                   /\ DropBlock[head + n] \in Blocks
                   /\ start[DropBlock[head + n]] = LapStart(head + n)}
<1>1. /\ head \in Nat /\ tail \in Nat /\ headBlock \in Blocks
      /\ next \in [Blocks -> Blocks \cup {Null}]
      /\ start \in [Blocks -> Nat \cup {POOLED}] /\ start[headBlock] \in Nat
      /\ IndexInv /\ BlockInv
  BY KeepTypes
<1>2. 0 \in T
  <2>1. DropBlock[head] = headBlock
    BY <1>1, DropBlockDef
  <2>2. QED
    BY <1>1, <2>1, AtRest
<1>3. ASSUME NEW n \in Nat, n \in T PROVE n + 1 \in T
  <2>1. SUFFICES ASSUME head + (n + 1) <= tail
                 PROVE  /\ DropBlock[head + (n + 1)] \in Blocks
                        /\ start[DropBlock[head + (n + 1)]] = LapStart(head + (n + 1))
    OBVIOUS
  <2>2. PICK i \in Nat : i = head + n
    BY <1>1
  <2>3. head + (n + 1) = i + 1 /\ i < tail /\ head <= i
    BY <1>1, <2>1, <2>2
  <2>4. DropBlock[i] \in Blocks /\ start[DropBlock[i]] = LapStart(i)
    BY <1>1, <1>3, <2>2, <2>3
  <2>5. DropBlock[i + 1] = IF IsSentinel(i) THEN next[DropBlock[i]] ELSE DropBlock[i]
    <3>1. i + 1 \in Nat /\ ~(i + 1 <= head) /\ (i + 1) - 1 = i
      BY <1>1, <2>3
    <3>2. QED
      BY <1>1, <3>1, DropBlockDef
  <2>6. CASE ~IsSentinel(i)
    BY <2>3, <2>4, <2>5, <2>6, LapsInOrder
  <2>7. CASE IsSentinel(i)
    <3>1. PICK j \in Nat : i = j + 1 /\ head <= j
      <4>1. i # head
        BY <2>7, AtRest
      <4>2. i - 1 \in Nat /\ i = (i - 1) + 1 /\ head <= i - 1
        BY <1>1, <2>3, <4>1
      <4>3. QED
        BY <4>2
    <3>2. IsLastSlot(j) /\ ~IsSentinel(j)
      <4>1. IsLastSlot(j)
        BY <2>7, <3>1, OffsetsAndLaps
      <4>2. QED
        BY <4>1, SentinelFollowsLastSlot
    <3>3. LapStart(j) = LapStart(i) /\ LapStart(j) + LAP = i + 1 /\ LapStart(i) \in Nat
      <4>1. LapStart(j + 1) = LapStart(j)
        BY <3>2, LapsInOrder
      <4>2. LapStart(j) + LAP = j + 2
        BY <3>2, PositionInLap
      <4>3. QED
        BY <3>1, <4>1, <4>2, OffsetsAndLaps
    <3>4. j < tail
      BY <1>1, <2>3, <3>1
    <3>5. Published(j)
      BY <3>1, <3>2, <3>4, AtRest
    <3>6. PICK b \in Blocks : start[b] = LapStart(j) /\ state[b][Offset(j)] = WrittenTag(Lap(j))
      BY <3>5 DEF Published
    <3>7. b = DropBlock[i]
      BY <1>1, <2>4, <3>3, <3>6 DEF BlockInv, LapInv, POOLED
    <3>8. Live(b)
      <4>1. LapStart(head) <= LapStart(j)
        BY <1>1, <3>1, LapsInOrder
      <4>2. QED
        BY <1>1, <3>6, <4>1, AtRest DEF Live
    <3>9. state[b][BLOCK_CAP - 1] = WrittenTag(Lap(start[b]))
      <4>1. Offset(j) = BLOCK_CAP - 1 /\ LapStart(LapStart(j)) = LapStart(j)
        BY <3>2, PositionInLap
      <4>2. WrittenTag(Lap(LapStart(j))) = WrittenTag(Lap(j))
        BY <3>3, <4>1, TagTellsLap
      <4>3. QED
        BY <3>6, <4>1, <4>2
    <3>10. Linked(b)
      BY <1>1, <3>6, <3>8, <3>9 DEF BlockInv, ChainInv
    <3>11. LapStart(i + 1) = i + 1
      BY <2>7, LapsInOrder
    <3>12. QED
      BY <1>1, <2>3, <2>5, <2>7, <3>3, <3>6, <3>7, <3>10, <3>11 DEF Linked
  <2>8. QED
    BY <2>6, <2>7
<1>4. Nat \subseteq T
  <2> HIDE DEF T
  <2>1. QED
    BY <1>2, <1>3, CountUp
<1>5. ASSUME NEW i \in Nat, head <= i, i <= tail
      PROVE  DropBlock[i] \in Blocks /\ start[DropBlock[i]] = LapStart(i)
  <2>1. i - head \in Nat /\ head + (i - head) = i
    BY <1>1, <1>5
  <2>2. i - head \in T
    BY <1>4, <2>1
  <2>3. QED
    BY <1>5, <2>1, <2>2
<1>6. QED
  BY <1>5

\* What Drop finds in each slot.
LEMMA DropReadsItsValue ==
    ASSUME MpmcInv, KeepInv, Quiescent, NEW pos \in ValuePositions(head, tail)
    PROVE  /\ state[DropBlock[pos]][Offset(pos)] = WrittenTag(Lap(pos))
           /\ value[DropBlock[pos]][Offset(pos)] = pos
<1>1. /\ head \in Nat /\ tail \in Nat /\ IndexInv /\ BlockInv
      /\ pos \in Nat /\ head <= pos /\ pos < tail /\ ~IsSentinel(pos)
  BY KeepTypes DEF ValuePositions
<1>2. DropBlock[pos] \in Blocks /\ start[DropBlock[pos]] = LapStart(pos)
  BY <1>1, DropFollowsLaps
<1>3. Published(pos)
  BY <1>1, AtRest
<1>4. PICK b \in Blocks : start[b] = LapStart(pos) /\ state[b][Offset(pos)] = WrittenTag(Lap(pos))
  BY <1>3 DEF Published
<1>5. b = DropBlock[pos]
  <2>1. LapStart(pos) \in Nat
    BY <1>1, OffsetsAndLaps
  <2>2. start[b] # POOLED /\ start[b] = start[DropBlock[pos]]
    BY <1>2, <1>4, <2>1 DEF POOLED
  <2>3. QED
    BY <1>1, <1>2, <2>2 DEF BlockInv, LapInv
<1>6. value[b][Offset(pos)] = pos
  BY <1>1, <1>4, WrittenSlot
<1>7. QED
  BY <1>4, <1>5, <1>6

LEMMA DropIsExact == MpmcInv /\ KeepInv => DropsTheUnread
<1> SUFFICES ASSUME MpmcInv, KeepInv, Quiescent
             PROVE  DropValues = ValuePositions(head, tail)
  BY DEF DropsTheUnread
<1>1. \A pos \in ValuePositions(head, tail) :
        /\ state[DropBlock[pos]][Offset(pos)] = WrittenTag(Lap(pos))
        /\ value[DropBlock[pos]][Offset(pos)] = pos
  BY DropReadsItsValue
<1>2. QED
  BY <1>1 DEF DropValues

----------------------------------------------------------------------------
(* The owners of the blocks.                                                *)

\* The blocks along `next`, one after the other.
IsPath(f, b) ==
    /\ f[0] = b
    /\ \A n \in Nat : f[n + 1] = IF f[n] = Null THEN Null ELSE next[f[n]]

LEMMA ChainIsPath ==
    ASSUME NEW b \in Blocks, next \in [Blocks -> Blocks \cup {Null}]
    PROVE  \E f : /\ IsPath(f, b) /\ \A n \in Nat : f[n] \in Blocks \cup {Null}
                  /\ ChainFrom(b) = {f[n] : n \in 0..MaxBlocks} \ {Null}
<1> DEFINE nx == [d \in Blocks \cup {Null} |-> IF d = Null THEN Null ELSE next[d]]
           nth[n \in Nat] == IF n = 0 THEN b
                             ELSE IF nth[n - 1] = Null THEN Null ELSE next[nth[n - 1]]
<1>1. PICK g : IsRecursive(g, 0, Nat, b, nx)
  <2> HIDE DEF nx
  <2>1. QED
    BY RecursionExists
<1>2. g[0] = b /\ \A n \in Nat : g[n + 1] = nx[g[n]]
  <2> HIDE DEF nx
  <2>1. \A n \in Nat : ~(n + 1 <= 0) /\ (n + 1) - 1 = n
    OBVIOUS
  <2>2. \A n \in Nat : g[n] = IF n <= 0 THEN b
                              ELSE IF n - 1 \in Nat THEN nx[g[n - 1]] ELSE g[n - 1]
    BY <1>1 DEF IsRecursive
  <2>3. g[0] = b
    BY <2>2
  <2>4. ASSUME NEW n \in Nat PROVE g[n + 1] = nx[g[n]]
    <3>1. n + 1 \in Nat
      OBVIOUS
    <3>2. QED
      BY <2>1, <2>2, <2>4, <3>1
  <2>5. QED
    BY <2>3, <2>4
<1>3. \A n \in Nat : g[n] \in Blocks \cup {Null}
  <2> DEFINE T == {n \in Nat : g[n] \in Blocks \cup {Null}}
  <2>1. 0 \in T
    BY <1>2
  <2>2. ASSUME NEW n \in Nat, n \in T PROVE n + 1 \in T
    <3>1. g[n] \in Blocks \cup {Null} /\ n + 1 \in Nat /\ g[n + 1] = nx[g[n]]
      BY <1>2, <2>2
    <3>2. nx[g[n]] \in Blocks \cup {Null}
      BY <3>1
    <3>3. QED
      BY <3>1, <3>2
  <2>3. Nat \subseteq T
    <3> HIDE DEF T
    <3>1. QED
      BY <2>1, <2>2, CountUp
  <2>4. QED
    BY <2>3
<1>4. g = [n \in Nat |-> IF n = 0 THEN b
                         ELSE IF g[n - 1] = Null THEN Null ELSE next[g[n - 1]]]
  <2>1. ASSUME NEW n \in Nat
        PROVE  g[n] = IF n = 0 THEN b
                      ELSE IF g[n - 1] = Null THEN Null ELSE next[g[n - 1]]
    <3>1. CASE n = 0
      BY <1>2, <3>1
    <3>2. CASE n # 0
      <4>1. n - 1 \in Nat /\ (n - 1) + 1 = n
        BY <3>2
      <4>2. g[n] = nx[g[n - 1]] /\ g[n - 1] \in Blocks \cup {Null}
        <5> HIDE DEF nx
        <5>1. QED
          BY <1>2, <1>3, <4>1
      <4>3. QED
        BY <3>2, <4>2
    <3>3. QED
      BY <3>1, <3>2
  <2>2. QED
    BY <1>1, <2>1 DEF IsRecursive
<1>5. nth = [n \in Nat |-> IF n = 0 THEN b
                           ELSE IF nth[n - 1] = Null THEN Null ELSE next[nth[n - 1]]]
  BY <1>4 DEF nth
<1>6. ChainFrom(b) = {nth[n] : n \in 0..MaxBlocks} \ {Null}
  BY DEF ChainFrom, nth
<1> HIDE DEF nth
<1>7. nth[0] = b /\ \A n \in Nat : n # 0 =>
        nth[n] = IF nth[n - 1] = Null THEN Null ELSE next[nth[n - 1]]
  BY <1>5
<1>8. IsPath(nth, b)
  <2>1. \A n \in Nat : n + 1 \in Nat /\ n + 1 # 0 /\ (n + 1) - 1 = n
    OBVIOUS
  <2>2. QED
    BY <1>7, <2>1 DEF IsPath
<1>9. \A n \in Nat : nth[n] \in Blocks \cup {Null}
  <2> DEFINE T == {n \in Nat : nth[n] \in Blocks \cup {Null}}
  <2>1. 0 \in T
    BY <1>7
  <2>2. \A n \in Nat : n \in T => n + 1 \in T
    BY <1>8 DEF IsPath
  <2>3. Nat \subseteq T
    <3> HIDE DEF T
    <3>1. QED
      BY <2>1, <2>2, CountUp
  <2>4. QED
    BY <2>3
<1>10. QED
  BY <1>6, <1>8, <1>9

\* A path that has ended goes no further, and each step is to the next block.
LEMMA PathStep ==
    ASSUME NEW f, NEW b, IsPath(f, b), \A n \in Nat : f[n] \in Blocks \cup {Null}
    PROVE  /\ f[0] = b
           /\ \A n \in Nat : f[n + 1] # Null =>
                f[n] \in Blocks /\ f[n + 1] = next[f[n]]
BY DEF IsPath

\* Where a chain begins: the head's block, and a block that is not linked yet.
Root(d) == d = headBlock \/ Unlinked(d)

\* An installer's block is ahead of the head, and no one else's.
LEMMA RootIsLive ==
    ASSUME MpmcInv
    PROVE  /\ \A d \in Blocks : Unlinked(d) =>
                start[d] \in Nat /\ start[d] > start[headBlock]
           /\ \A p, q \in Producers :
                (ppc[p] = "next" /\ ppc[q] = "next" /\ pnew[p] = pnew[q]) => p = q
           /\ \A p \in Producers : ppc[p] = "next" => pnew[p] \in Blocks
<1>1. IndexInv /\ BlockInv /\ start[headBlock] \in Nat /\ LAP \in Nat \ {0}
  BY KeepTypes
<1>2. ASSUME NEW p \in Producers, ppc[p] = "next"
      PROVE  /\ start[pnew[p]] \in Nat /\ start[pnew[p]] > start[headBlock]
             /\ ppos[p] \in Nat /\ start[pnew[p]] = ppos[p] + 2 /\ pnew[p] \in Blocks
  <2>1. /\ ppc[p] \in ClaimedPCs /\ ppc[p] \in InstallPCs /\ ppc[p] \in NewPCs
        /\ ppc[p] \in FoundPCs
    BY <1>2 DEF ClaimedPCs, FoundPCs, InstallPCs, NewPCs
  <2>2. /\ ppos[p] \in Nat /\ IsLastSlot(ppos[p])
        /\ start[pnew[p]] = LapStart(ppos[p]) + LAP
    BY <1>1, <1>2, <2>1 DEF IndexInv, IndexTypeOK, BlockInv, PointerInv, ChainInv
  <2>3. LapStart(ppos[p]) \in Nat /\ LapStart(ppos[p]) + LAP = ppos[p] + 2
    BY <2>2, PositionInLap, OffsetsAndLaps
  <2>4. start[headBlock] <= LapStart(ppos[p])
    BY <1>1, <2>1, ClaimedAhead
  <2>5. pnew[p] \in Blocks
    BY <2>1, InstallerBlocks
  <2>6. QED
    BY <1>1, <2>2, <2>3, <2>4, <2>5
<1>3. ASSUME NEW p \in Producers, NEW q \in Producers, ppc[p] = "next",
             ppc[q] = "next", pnew[p] = pnew[q]
      PROVE  p = q
  <2>1. ppos[p] = ppos[q]
    BY <1>2, <1>3
  <2>2. QED
    BY <1>1, <1>3, <2>1 DEF IndexInv, ClaimInv, ClaimsAreExclusive, ClaimedPCs, FoundPCs
<1>4. QED
  BY <1>2, <1>3 DEF Unlinked

\* Along the path of a root the laps go up, and no other root lies on the way.
Climbs(f, d, n) ==
    f[n] # Null =>
      /\ f[n] \in Blocks /\ start[f[n]] \in Nat /\ start[d] <= start[f[n]]
      /\ \A m \in Nat : m < n => f[m] # Null /\ start[f[m]] < start[f[n]]
      /\ \A e \in Blocks : Root(e) => ~(start[d] < start[e] /\ start[e] <= start[f[n]])

LEMMA PathClimbs ==
    ASSUME MpmcInv, KeepInv, NEW d \in Blocks, Root(d), NEW f, IsPath(f, d),
           \A n \in Nat : f[n] \in Blocks \cup {Null}
    PROVE  /\ \A n \in Nat : Climbs(f, d, n)
           /\ start[d] \in Nat /\ start[headBlock] <= start[d]
<1> DEFINE T == {n \in Nat : Climbs(f, d, n)}
<1>1. /\ IndexInv /\ BlockInv /\ start[headBlock] \in Nat /\ LAP \in Nat \ {0}
      /\ next \in [Blocks -> Blocks \cup {Null}] /\ headBlock \in Blocks
  BY KeepTypes
<1>2. start[d] \in Nat /\ start[headBlock] <= start[d]
  BY <1>1, RootIsLive DEF Root
<1>3. Null \notin Blocks
  BY DEF Blocks, Null
<1>4. 0 \in T
  <2>1. f[0] = d
    BY PathStep
  <2>2. \A e \in Blocks : Root(e) => start[e] \in Nat
    BY <1>1, RootIsLive DEF Root
  <2>3. \A e \in Blocks : Root(e) => ~(start[d] < start[e] /\ start[e] <= start[d])
    BY <1>2, <2>2
  <2>4. \A m \in Nat : ~(m < 0)
    OBVIOUS
  <2>5. Climbs(f, d, 0)
    BY <1>2, <2>1, <2>3, <2>4 DEF Climbs
  <2>6. QED
    BY <2>5
<1>5. ASSUME NEW n \in Nat, n \in T PROVE n + 1 \in T
  <2>1. SUFFICES ASSUME f[n + 1] # Null PROVE Climbs(f, d, n + 1)
    BY DEF Climbs
  <2> DEFINE a == f[n]
             z == f[n + 1]
  <2>2. a \in Blocks /\ z = next[a] /\ z # Null /\ a # Null
    BY <1>3, <2>1, PathStep
  <2>3. z \in Blocks
    BY <2>1
  <2>4. /\ start[a] \in Nat /\ start[d] <= start[a]
        /\ \A m \in Nat : m < n => f[m] # Null /\ start[f[m]] < start[a]
        /\ \A e \in Blocks : Root(e) => ~(start[d] < start[e] /\ start[e] <= start[a])
    BY <1>5, <2>2 DEF Climbs
  <2>5. start[z] = start[a] + LAP /\ ~Unlinked(z)
    BY <1>1, <1>2, <2>2, <2>4 DEF KeepInv, LinkInv, Live
  <2>6. start[z] \in Nat /\ start[a] < start[z] /\ start[d] < start[z]
    BY <1>1, <1>2, <2>4, <2>5
  <2>7. \A m \in Nat : m < n + 1 => f[m] # Null /\ start[f[m]] < start[z]
    <3>1. SUFFICES ASSUME NEW m \in Nat, m < n + 1
                   PROVE  f[m] # Null /\ start[f[m]] < start[z]
      OBVIOUS
    <3>2. CASE m = n
      BY <2>2, <2>6, <3>2
    <3>3. CASE m < n
      <4>1. f[m] # Null /\ start[f[m]] < start[a] /\ f[m] \in Blocks
        BY <2>4, <3>3
      <4>2. start[f[m]] \in Nat \cup {POOLED}
        BY <4>1, KeepTypes
      <4>3. QED
        BY <2>4, <2>6, <4>1, <4>2 DEF POOLED
    <3>4. QED
      BY <3>1, <3>2, <3>3
  <2>8. ASSUME NEW e \in Blocks, Root(e), start[d] < start[e], start[e] <= start[z]
        PROVE  FALSE
    <3>1. start[e] \in Nat /\ ~(start[e] <= start[a])
      BY <1>1, <2>4, <2>8, RootIsLive DEF Root
    <3>2. Offset(start[e]) = 0 /\ Offset(start[a]) = 0
      BY <1>1, <2>2, <2>4, <3>1 DEF BlockInv, LapInv, POOLED
    <3>3. start[a] + LAP <= start[e]
      BY <2>4, <3>1, <3>2, LapsApart
    <3>4. start[e] = start[z]
      BY <1>1, <2>4, <2>5, <2>8, <3>1, <3>3
    <3>5. e = z
      BY <1>1, <2>3, <2>6, <3>4 DEF BlockInv, LapInv, POOLED
    <3>6. start[headBlock] < start[e]
      BY <1>1, <1>2, <2>8, <3>1
    <3>7. QED
      BY <1>1, <2>5, <2>8, <3>5, <3>6 DEF Root
  <2>9. QED
    BY <1>2, <2>3, <2>4, <2>6, <2>7, <2>8 DEF Climbs
<1>6. Nat \subseteq T
  <2> HIDE DEF T
  <2>1. QED
    BY <1>4, <1>5, CountUp
<1>7. QED
  BY <1>2, <1>6

\* A path has no more blocks than there are.
LEMMA PathIsShort ==
    ASSUME MpmcInv, KeepInv, NEW d \in Blocks, Root(d), NEW f, IsPath(f, d),
           \A n \in Nat : f[n] \in Blocks \cup {Null},
           NEW n \in Nat, f[n] # Null
    PROVE  n \in 0..MaxBlocks /\ n < MaxBlocks
<1>1. SUFFICES ASSUME MaxBlocks <= n PROVE FALSE
  BY BoundsAssumption
<1>2. MaxBlocks \in Nat
  BY BoundsAssumption
<1>3. \A m \in 0..MaxBlocks : Climbs(f, d, m) /\ Climbs(f, d, n) /\ m \in Nat
  BY <1>2, PathClimbs
<1>4. \A m \in 0..MaxBlocks : f[m] # Null /\ f[m] \in Blocks
  BY <1>1, <1>2, <1>3 DEF Climbs
<1>5. \A m, k \in 0..MaxBlocks : m < k => start[f[m]] < start[f[k]] /\ start[f[k]] \in Nat
  BY <1>3, <1>4 DEF Climbs
<1>6. \A m, k \in 0..MaxBlocks : f[m] = f[k] => m = k
  <2>1. SUFFICES ASSUME NEW m \in 0..MaxBlocks, NEW k \in 0..MaxBlocks,
                        f[m] = f[k], m # k
                 PROVE  FALSE
    OBVIOUS
  <2>2. m < k \/ k < m
    BY <1>2, <2>1
  <2>3. QED
    BY <1>5, <2>1, <2>2
<1> DEFINE g == [m \in 0..MaxBlocks |-> f[m]]
<1>7. g \in [0..MaxBlocks -> Blocks]
  BY <1>4
<1>8. /\ IsFiniteSet(0..MaxBlocks) /\ Cardinality(0..MaxBlocks) = MaxBlocks + 1
      /\ IsFiniteSet(Blocks) /\ Cardinality(Blocks) = MaxBlocks
  <2>1. /\ IsFiniteSet(0..MaxBlocks) 
        /\ Cardinality(0..MaxBlocks) = IF 0 > MaxBlocks THEN 0 ELSE MaxBlocks - 0 + 1
    BY <1>2, FS_Interval
  <2>2. /\ IsFiniteSet(1..MaxBlocks)
        /\ Cardinality(1..MaxBlocks) = IF 1 > MaxBlocks THEN 0 ELSE MaxBlocks - 1 + 1
    BY <1>2, FS_Interval
  <2>3. QED
    BY <1>2, <2>1, <2>2 DEF Blocks
<1>9. \E x, y \in 0..MaxBlocks : x # y /\ g[x] = g[y]
  <2> DEFINE S == 0..MaxBlocks
  <2>1. /\ IsFiniteSet(S) /\ IsFiniteSet(Blocks) /\ g \in [S -> Blocks]
        /\ Cardinality(Blocks) < Cardinality(S)
    BY <1>2, <1>7, <1>8
  <2>2. \E x, y \in S : x # y /\ g[x] = g[y]
    <3> HIDE DEF S, g
    <3>1. QED
      BY <2>1, FS_PigeonHole
  <2>3. QED
    BY <2>2
<1>10. QED
  BY <1>6, <1>9


\* What a chain has: live blocks, and after a block the one it links to.
LEMMA ChainOfRoot ==
    ASSUME MpmcInv, KeepInv, NEW d \in Blocks, Root(d)
    PROVE  /\ d \in ChainFrom(d)
           /\ \A b \in ChainFrom(d) : b \in Blocks /\ Live(b) /\ start[d] <= start[b]
           /\ \A b \in ChainFrom(d) : next[b] # Null => next[b] \in ChainFrom(d)
           /\ \A b \in ChainFrom(d), e \in Blocks : Root(e) =>
                ~(start[d] < start[e] /\ start[e] <= start[b])
<1>1. /\ start[headBlock] \in Nat /\ next \in [Blocks -> Blocks \cup {Null}]
      /\ MaxBlocks \in Nat /\ Null \notin Blocks
  BY KeepTypes, BoundsAssumption DEF Null, Blocks
<1>2. PICK f : /\ IsPath(f, d) /\ \A n \in Nat : f[n] \in Blocks \cup {Null}
               /\ ChainFrom(d) = {f[n] : n \in 0..MaxBlocks} \ {Null}
  BY <1>1, ChainIsPath
<1>3. /\ \A n \in Nat : Climbs(f, d, n)
      /\ start[d] \in Nat /\ start[headBlock] <= start[d]
  BY <1>2, PathClimbs
<1>4. d \in ChainFrom(d)
  <2>1. f[0] = d /\ d # Null /\ 0 \in 0..MaxBlocks
    BY <1>1, <1>2 DEF IsPath
  <2>2. QED
    BY <1>2, <2>1
<1>5. ASSUME NEW b \in ChainFrom(d)
      PROVE  /\ b \in Blocks /\ Live(b) /\ start[d] <= start[b]
             /\ next[b] # Null => next[b] \in ChainFrom(d)
             /\ \A e \in Blocks : Root(e) => ~(start[d] < start[e] /\ start[e] <= start[b])
  <2>1. PICK n \in 0..MaxBlocks : b = f[n] /\ b # Null
    BY <1>2, <1>5
  <2>2. n \in Nat /\ n + 1 \in Nat
    BY <1>1
  <2>3. /\ b \in Blocks /\ start[b] \in Nat /\ start[d] <= start[b]
        /\ \A e \in Blocks : Root(e) => ~(start[d] < start[e] /\ start[e] <= start[b])
    BY <1>3, <2>1, <2>2 DEF Climbs
  <2>4. ASSUME next[b] # Null PROVE next[b] \in ChainFrom(d)
    <3>1. f[n + 1] = next[b]
      BY <1>2, <2>1, <2>2 DEF IsPath
    <3>2. n + 1 \in 0..MaxBlocks
      BY <1>2, <2>2, <2>4, <3>1, PathIsShort
    <3>3. QED
      BY <1>2, <2>4, <3>1, <3>2
  <2>5. QED
    BY <1>1, <1>3, <2>3, <2>4 DEF Live
<1>6. QED
  BY <1>4, <1>5

\* No block is in the chains of two roots.
LEMMA ChainsAreDisjoint ==
    ASSUME MpmcInv, KeepInv, NEW d \in Blocks, NEW e \in Blocks, Root(d), Root(e),
           NEW b \in Blocks, b \in ChainFrom(d), b \in ChainFrom(e)
    PROVE  d = e
<1>1. /\ start[d] <= start[b] /\ start[e] <= start[b]
      /\ ~(start[d] < start[e] /\ start[e] <= start[b])
      /\ ~(start[e] < start[d] /\ start[d] <= start[b])
  BY ChainOfRoot
<1>2. start[d] \in Nat /\ start[e] \in Nat
  BY KeepTypes, RootIsLive DEF Root
<1>3. start[d] = start[e]
  BY <1>1, <1>2
<1>4. QED
  BY <1>2, <1>3, KeepTypes DEF BlockInv, LapInv, POOLED

\* Every live block is in the chain of a root: going back from it, one comes to
\* the head's block or to one that its installer has yet to link.
LEMMA LiveIsChained ==
    ASSUME MpmcInv, KeepInv
    PROVE  \A b \in Blocks : Live(b) => \E d \in Blocks : Root(d) /\ b \in ChainFrom(d)
<1> DEFINE Chained(b) == \E d \in Blocks : Root(d) /\ b \in ChainFrom(d)
           T == {n \in Nat : \E b \in Blocks : Live(b) /\ start[b] = n /\ ~Chained(b)}
<1>1. /\ IndexInv /\ BlockInv /\ start[headBlock] \in Nat /\ headBlock \in Blocks
      /\ LAP \in Nat \ {0} /\ Null \notin Blocks
      /\ start \in [Blocks -> Nat \cup {POOLED}]
  BY KeepTypes DEF Null, Blocks
<1>2. SUFFICES ASSUME NEW x \in Blocks, Live(x), ~Chained(x) PROVE FALSE
  OBVIOUS
<1>3. start[x] \in T
  <2>1. start[x] \in Nat
    BY <1>1, <1>2 DEF Live, POOLED
  <2>2. QED
    BY <1>2, <2>1
<1>4. PICK n \in T : \A m \in T : n <= m
  <2>1. T \subseteq Nat /\ T # {}
    BY <1>3
  <2> HIDE DEF T
  <2>2. QED
    BY <2>1, SmallestOf
<1>5. PICK b \in Blocks : Live(b) /\ start[b] = n /\ ~Chained(b)
  BY <1>4
<1>6. ~Root(b)
  BY <1>5, ChainOfRoot
<1>7. start[b] > start[headBlock] /\ ~Unlinked(b)
  <2>1. start[b] # start[headBlock]
    BY <1>1, <1>6 DEF Root, BlockInv, LapInv, POOLED
  <2>2. QED
    BY <1>1, <1>5, <1>6, <2>1 DEF Root, Live, POOLED
<1> DEFINE a == prev[b]
<1>8. /\ a \in Blocks /\ start[a] \in Nat /\ start[a] = start[b] - LAP
      /\ start[b] \in Nat /\ start[a] >= start[headBlock]
  BY <1>1, <1>7, PrevIsLive
<1>9. next[a] = b
  BY <1>7 DEF KeepInv, LinkInv
<1>10. Chained(a)
  <2>1. start[a] < n
    BY <1>1, <1>5, <1>8
  <2>2. start[a] \notin T
    BY <1>4, <1>5, <1>8, <2>1
  <2>3. QED
    BY <1>8, <2>2 DEF Live
<1>11. Chained(b)
  <2>1. PICK d \in Blocks : Root(d) /\ a \in ChainFrom(d)
    BY <1>10
  <2>2. b # Null
    BY <1>1
  <2>3. b \in ChainFrom(d)
    BY <1>9, <2>1, <2>2, ChainOfRoot
  <2>4. QED
    BY <2>1, <2>3
<1>12. QED
  BY <1>5, <1>11

\* What a holder holds.
LEMMA HeldBy ==
    /\ Held(<<"queue", "chain">>) = ChainFrom(headBlock)
    /\ Held(<<"queue", "spare">>) = {spare} \ {Null}
    /\ Held(<<"queue", "ready">>) = ready
    /\ Held(<<"queue", "retired">>) = retired
    /\ \A p : Held(<<"producer", p>>) = IF Installs(p) THEN {pnew[p]}
                                        ELSE IF ppc[p] = "next" THEN ChainFrom(pnew[p])
                                        ELSE {}
    /\ \A c : Held(<<"consumer", c>>) = IF Finishes(c) THEN {cblk[c]} ELSE {}
<1> USE DEF Held, Chain, Installs, Finishes
<1>1. Held(<<"queue", "chain">>) = ChainFrom(headBlock)
  OBVIOUS
<1>2. /\ Held(<<"queue", "spare">>) = {spare} \ {Null}
      /\ Held(<<"queue", "ready">>) = ready
      /\ Held(<<"queue", "retired">>) = retired
  OBVIOUS
<1>3. ASSUME NEW p
      PROVE  Held(<<"producer", p>>) = IF Installs(p) THEN {pnew[p]}
                                       ELSE IF ppc[p] = "next" THEN ChainFrom(pnew[p])
                                       ELSE {}
  <2> DEFINE h == <<"producer", p>>
  <2>1. h[1] = "producer" /\ h[2] = p
    OBVIOUS
  <2> HIDE DEF h
  <2>2. CASE Installs(p)
    BY <2>1, <2>2
  <2>3. CASE ~Installs(p)
    BY <2>1, <2>3
  <2>4. QED
    BY <2>2, <2>3 DEF h
<1>4. ASSUME NEW c
      PROVE  Held(<<"consumer", c>>) = IF Finishes(c) THEN {cblk[c]} ELSE {}
  <2> DEFINE h == <<"consumer", c>>
  <2>1. h[1] = "consumer" /\ h[2] = c
    OBVIOUS
  <2> HIDE DEF h
  <2>2. Held(h) = IF Finishes(c) THEN {cblk[c]} ELSE {}
    BY <2>1
  <2>3. QED
    BY <2>2 DEF h
<1>5. QED
  BY <1>1, <1>2, <1>3, <1>4


\* So every allocated block is in one place, or in one hand.
LEMMA EveryBlockIsOwned == MpmcInv /\ KeepInv => EveryBlockHasOneOwner
<1> SUFFICES ASSUME MpmcInv, KeepInv, NEW b \in 1..(fresh - 1)
             PROVE  Cardinality({h \in Holders : b \in [g \in Holders |-> Held(g)][h]}) = 1
  BY DEF EveryBlockHasOneOwner
<1> DEFINE S == {h \in Holders : b \in Held(h)}
           Has(h) ==
             \/ h = <<"queue", "chain">> /\ b \in ChainFrom(headBlock)
             \/ h = <<"queue", "spare">> /\ b = spare
             \/ h = <<"queue", "ready">> /\ b \in ready
             \/ h = <<"queue", "retired">> /\ b \in retired
             \/ \E p \in Producers : h = <<"producer", p>> /\ Installs(p) /\ b = pnew[p]
             \/ \E p \in Producers : /\ h = <<"producer", p>> /\ ppc[p] = "next"
                                     /\ b \in ChainFrom(pnew[p])
             \/ \E c \in Consumers : h = <<"consumer", c>> /\ Finishes(c) /\ b = cblk[c]
<1>1. /\ IndexInv /\ BlockInv /\ headBlock \in Blocks /\ start[headBlock] \in Nat
      /\ b \in Blocks /\ b # Null
      /\ \A p : ppc[p] = "next" => ~Installs(p)
  BY KeepTypes, AllocatedBlocks DEF Installs, Blocks, Null
<1>2. \A h : h \in Holders /\ b \in Held(h) <=> Has(h)
  <2>1. ASSUME NEW h, h \in Holders, b \in Held(h) PROVE Has(h)
    <3>1. CASE h \in {"queue"} \X {"chain", "spare", "ready", "retired"}
      <4>1. \/ h = <<"queue", "chain">> \/ h = <<"queue", "spare">>
            \/ h = <<"queue", "ready">> \/ h = <<"queue", "retired">>
        BY <3>1
      <4>2. QED
        BY <2>1, <4>1, HeldBy
    <3>2. CASE h \in {"producer"} \X Producers
      <4>1. PICK p \in Producers : h = <<"producer", p>>
        BY <3>2
      <4>2. QED
        BY <2>1, <4>1, HeldBy
    <3>3. CASE h \in {"consumer"} \X Consumers
      <4>1. PICK c \in Consumers : h = <<"consumer", c>>
        BY <3>3
      <4>2. QED
        BY <2>1, <4>1, HeldBy
    <3>4. QED
      BY <2>1, <3>1, <3>2, <3>3 DEF Holders
  <2>2. ASSUME NEW h, Has(h) PROVE h \in Holders /\ b \in Held(h)
    <3>1. CASE \/ h = <<"queue", "chain">> /\ b \in ChainFrom(headBlock)
               \/ h = <<"queue", "spare">> /\ b = spare
               \/ h = <<"queue", "ready">> /\ b \in ready
               \/ h = <<"queue", "retired">> /\ b \in retired
      BY <1>1, <3>1, HeldBy DEF Holders
    <3>2. CASE \E p \in Producers : h = <<"producer", p>> /\ Installs(p) /\ b = pnew[p]
      <4>1. PICK p \in Producers : h = <<"producer", p>> /\ Installs(p) /\ b = pnew[p]
        BY <3>2
      <4>2. h \in Holders /\ Held(h) = {pnew[p]}
        BY <4>1, HeldBy DEF Holders
      <4>3. QED
        BY <4>1, <4>2
    <3>3. CASE \E p \in Producers : /\ h = <<"producer", p>> /\ ppc[p] = "next"
                                    /\ b \in ChainFrom(pnew[p])
      <4>1. PICK p \in Producers : /\ h = <<"producer", p>> /\ ppc[p] = "next"
                                   /\ b \in ChainFrom(pnew[p])
        BY <3>3
      <4>2. h \in Holders /\ Held(h) = ChainFrom(pnew[p])
        BY <1>1, <4>1, HeldBy DEF Holders
      <4>3. QED
        BY <4>1, <4>2
    <3>4. CASE \E c \in Consumers : h = <<"consumer", c>> /\ Finishes(c) /\ b = cblk[c]
      <4>1. PICK c \in Consumers : h = <<"consumer", c>> /\ Finishes(c) /\ b = cblk[c]
        BY <3>4
      <4>2. h \in Holders /\ Held(h) = {cblk[c]}
        BY <4>1, HeldBy DEF Holders
      <4>3. QED
        BY <4>1, <4>2
    <3>5. QED
      BY <2>2, <3>1, <3>2, <3>3, <3>4
  <2>3. QED
    BY <2>1, <2>2
<1>3. Root(headBlock) /\ \A p \in Producers : ppc[p] = "next" =>
        /\ pnew[p] \in Blocks /\ Root(pnew[p]) /\ pnew[p] # headBlock
        /\ \A q \in Producers : ppc[q] = "next" /\ pnew[q] = pnew[p] => q = p
  BY <1>1, RootIsLive DEF Root, Unlinked
<1>4. \E h : Has(h)
  <2>1. CASE Live(b)
    <3>1. PICK d \in Blocks : Root(d) /\ b \in ChainFrom(d)
      BY <1>1, <2>1, LiveIsChained
    <3>2. QED
      BY <3>1 DEF Root, Unlinked
  <2>2. CASE ~Live(b)
    <3>1. fresh \in Nat /\ ~(b >= fresh)
      BY KeepTypes
    <3>2. \/ InPool(b)
          \/ \E p \in Producers : Installs(p) /\ pnew[p] = b
          \/ \E c \in Consumers : Finishes(c) /\ cblk[c] = b
      BY <2>2 DEF KeepInv, PlaceInv
    <3>3. QED
      BY <3>1, <3>2 DEF InPool
  <2>3. QED
    BY <2>1, <2>2
<1>5. ASSUME NEW h, NEW g, Has(h), Has(g) PROVE h = g
  <2>1. CASE Live(b)
    <3>1. /\ ~InPool(b)
          /\ \A p \in Producers : Installs(p) => pnew[p] # b
          /\ \A c \in Consumers : Finishes(c) => cblk[c] # b
      BY <1>1, <2>1, LiveIsFree
    <3> DEFINE Roots(x) ==
                 \/ x = <<"queue", "chain">> /\ b \in ChainFrom(headBlock)
                 \/ \E p \in Producers : /\ x = <<"producer", p>> /\ ppc[p] = "next"
                                         /\ b \in ChainFrom(pnew[p])
    <3>2. Roots(h) /\ Roots(g)
      BY <1>5, <3>1 DEF InPool
    <3>3. \A d, e \in Blocks : Root(d) /\ Root(e) /\ b \in ChainFrom(d) /\ b \in ChainFrom(e)
            => d = e
      BY <1>1, ChainsAreDisjoint
    <3> HIDE DEF Has
    <3>4. QED
      BY <1>1, <1>3, <3>2, <3>3
  <2>2. CASE ~Live(b)
    <3>1. ~(b \in ChainFrom(headBlock))
      BY <1>1, <1>3, <2>2, ChainOfRoot
    <3>2. \A p \in Producers : ppc[p] = "next" => ~(b \in ChainFrom(pnew[p]))
      BY <1>3, <2>2, ChainOfRoot
    <3>3. ~(b = spare /\ b \in ready) /\ ~(b = spare /\ b \in retired)
          /\ ~(b \in ready /\ b \in retired)
      BY <1>1 DEF BlockInv, OwnerInv, PoolInv, Left
    <3>4. /\ \A p \in Producers : Installs(p) /\ b = pnew[p] =>
               /\ b # spare /\ b \notin ready /\ b \notin retired
               /\ \A q \in Producers : Installs(q) /\ b = pnew[q] => q = p
               /\ \A c \in Consumers : ~(Finishes(c) /\ b = cblk[c])
          /\ \A c \in Consumers : Finishes(c) /\ b = cblk[c] =>
               /\ b # spare /\ b \notin ready /\ b \notin retired
               /\ \A d \in Consumers : Finishes(d) /\ b = cblk[d] => d = c
      BY <1>1 DEF BlockInv, OwnerInv, InPool
    <3>5. QED
      BY <1>5, <3>1, <3>2, <3>3, <3>4
  <2>3. QED
    BY <2>1, <2>2
<1>6. {h \in Holders : b \in [g \in Holders |-> Held(g)][h]} = S
  OBVIOUS
<1>7. \E h : S = {h}
  <2>1. PICK h : Has(h)
    BY <1>4
  <2>2. \A g : g \in S <=> g = h
    <3> HIDE DEF Has
    <3>1. QED
      BY <1>2, <1>5, <2>1
  <2>3. S \subseteq {h} /\ {h} \subseteq S
    <3> HIDE DEF S
    <3>1. QED
      BY <2>2
  <2>4. S = {h}
    <3> HIDE DEF S
    <3>1. QED
      BY <2>3
  <2>5. QED
    BY ONLY <2>4
<1>8. QED
  <2> HIDE DEF S
  <2>1. QED
    BY <1>6, <1>7, FS_Singleton

----------------------------------------------------------------------------
(* The theorems.                                                            *)

\* Neither a value nor a block is lost, whatever the interleaving.
THEOREM NothingLost == Spec => [](MpmcInv /\ KeepInv)
<1>1. Init => KeepInv
  BY InitEstablishesKeep
<1>2. MpmcInv /\ KeepInv /\ [Next]_vars => KeepInv'
  BY NextKeepsAll
<1>3. QED
  BY <1>1, <1>2, BlockInvariant, PTL DEF Spec

\* Drop, which runs when no operation is in flight, drops the values that were
\* pushed and not received, each once, in whichever blocks they are
\* (queue.rs:1010-1040).
THEOREM DropIsComplete == Spec => []DropsTheUnread
<1>1. MpmcInv /\ KeepInv => DropsTheUnread
  BY DropIsExact
<1>2. QED
  BY <1>1, NothingLost, PTL

\* No block is lost, and no block is in two places: the live chain, the spare
\* cell, the pool lists, and the hands of the threads (queue.rs:349-352, 486-528).
THEOREM BlockOwnership == Spec => []EveryBlockHasOneOwner
<1>1. MpmcInv /\ KeepInv => EveryBlockHasOneOwner
  BY EveryBlockIsOwned
<1>2. QED
  BY <1>1, NothingLost, PTL
=============================================================================
