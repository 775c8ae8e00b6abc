----------------------------- MODULE BlockQueue -----------------------------
(***************************************************************************)
(* The block queue of src/src/queue.rs: its shared words, its block pool,  *)
(* and the producer side (push).  The consumer sides are in MpmcQueue (pop *)
(* and finish_block) and share the state declared here.                    *)
(*                                                                         *)
(* A thread takes one step per access to a shared word.  Accesses are      *)
(* merged only where no other thread can tell: stores to a block that no   *)
(* thread can reach by a pointer it will trust, the hint `contended` with  *)
(* the claim it belongs to, a section under the pool lock.  Values are     *)
(* named by the position their push claims: the queue never looks at them, *)
(* and every successful push claims one position.                          *)
(***************************************************************************)
EXTENDS Positions, Sequences

CONSTANTS
    Producers,          \* threads that push
    Consumers,          \* threads that pop
    Capacity,           \* bound given to Queue::new, or UNBOUNDED
    CONTENTION_WINDOW,  \* clean CAS claims before fetch_add is used again
    MaxBlocks,          \* blocks the allocator can hand out (model bound)
    PushLimit           \* no push begins at this tail or later (model bound)

UNBOUNDED == -1    \* usize::MAX read as a signed word: no capacity equals it
POOLED    == -1    \* usize::MAX again: no position equals it
Null      == 0     \* the null block pointer
NoValue   == -1    \* memory that holds no value

Blocks == 1..MaxBlocks
Slots  == 0..(BLOCK_CAP - 1)

ASSUME CapacityAssumption == Capacity \in (Nat \ {0}) \cup {UNBOUNDED}
ASSUME WindowAssumption   == CONTENTION_WINDOW \in Nat \ {0}
ASSUME BoundsAssumption   == MaxBlocks \in Nat \ {0} /\ PushLimit \in Nat

VARIABLES
    tail,       \* tail.index: next position to claim for writing
    tailBlock,  \* tail.block
    cached,     \* tail.cached: a head index some producer saw
    contended,  \* tail.contended: clean CAS claims left before fetch_add mode
    head,       \* head.index: next position to claim for reading
    headBlock,  \* head.block
    start,      \* [Blocks -> first position of the lap served, or POOLED]
    next,       \* [Blocks -> block of the following lap]
    prev,       \* [Blocks -> block of the lap before]
    marks,      \* [Blocks -> slots whose reader is done]
    state,      \* [Blocks -> [Slots -> sequence tag]]
    value,      \* [Blocks -> [Slots -> value]]
    spare,      \* one-block fast path of the pool
    ready,      \* pool.ready: blocks that can be reused at once
    retired,    \* pool.retired: blocks that may still have readers
    fresh,      \* the block the allocator returns next
    ppc,        \* producer: program counter
    ppos,       \* producer: `tail`, the position it expects or has claimed
    phead,      \* producer: `head` of the capacity check
    pfailed,    \* producer: `failed`, a CAS of this push has failed
    pblk,       \* producer: `block`
    pnew,       \* producer: the block being installed
    cpc,        \* consumer: program counter
    cpos,       \* consumer: `head`, the position it expects or has claimed
    cblk,       \* consumer: `block`
    cval,       \* consumer: the value it has moved out
    ccount      \* consumer: sentinel polls spent

indexVars == <<tail, cached, contended>>
headVars  == <<head, headBlock>>
linkVars  == <<start, next, prev>>
slotVars  == <<state, value>>
poolVars  == <<spare, ready, retired, fresh>>
blockVars == <<linkVars, marks, slotVars>>
claimLocals == <<ppos, phead, pfailed>>
prodVars  == <<ppc, claimLocals, pblk, pnew>>
consVars  == <<cpc, cpos, cblk, cval, ccount>>
vars == <<indexVars, tailBlock, headVars, blockVars, poolVars,
          prodVars, consVars>>

----------------------------------------------------------------------------
(* Queue::new and Block::allocate.                                          *)

Init ==
    /\ tail = 0 /\ tailBlock = 1 /\ cached = 0 /\ contended = 0
    /\ head = 0 /\ headBlock = 1
    /\ start = [b \in Blocks |-> IF b = 1 THEN 0 ELSE POOLED]
    /\ next = [b \in Blocks |-> Null]
    /\ prev = [b \in Blocks |-> Null]
    /\ marks = [b \in Blocks |-> {}]
    /\ state = [b \in Blocks |-> [s \in Slots |-> 0]]
    /\ value = [b \in Blocks |-> [s \in Slots |-> NoValue]]
    /\ spare = Null /\ ready = {} /\ retired = {} /\ fresh = 2
    /\ ppc = [p \in Producers |-> "idle"]
    /\ ppos = [p \in Producers |-> 0]
    /\ phead = [p \in Producers |-> 0]
    /\ pfailed = [p \in Producers |-> FALSE]
    /\ pblk = [p \in Producers |-> Null]
    /\ pnew = [p \in Producers |-> Null]
    /\ cpc = [c \in Consumers |-> "idle"]
    /\ cpos = [c \in Consumers |-> 0]
    /\ cblk = [c \in Consumers |-> Null]
    /\ cval = [c \in Consumers |-> NoValue]
    /\ ccount = [c \in Consumers |-> 0]

PStep(p, from, to) == ppc[p] = from /\ ppc' = [ppc EXCEPT ![p] = to]
SetPos(p, pos)     == ppos' = [ppos EXCEPT ![p] = pos]
SetBlock(p, b)     == pblk' = [pblk EXCEPT ![p] = b]

\* Every earlier reader of the block is done; the last slot belongs to the
\* consumer that retires the block.  The scan of the marks is one step: marks
\* are only added while it runs.
ReadersDone(b) == Slots \ {BLOCK_CAP - 1} \subseteq marks[b]

----------------------------------------------------------------------------
(* Claims: push, claim_fetch_add, claim_cas, claim_bounded.                 *)

\* Chooses the claim.  PushLimit bounds the model.
StartPush(p) ==
    /\ tail < PushLimit
    /\ PStep(p, "idle", IF Capacity # UNBOUNDED THEN "cap_load"
                        ELSE IF contended = 0 THEN "fa_load" ELSE "cas_load")
    /\ UNCHANGED <<indexVars, tailBlock, headVars, blockVars, poolVars,
                   claimLocals, pblk, pnew, consVars>>

\* The load of tail.index that opens each of the three claim loops.
LoadTail(p) ==
    /\ \/ PStep(p, "fa_load", "fa_add")
       \/ PStep(p, "cas_load", "cas")
       \/ PStep(p, "cap_load", "cap")
    /\ SetPos(p, tail)
    /\ UNCHANGED <<indexVars, tailBlock, headVars, blockVars, poolVars,
                   phead, pfailed, pblk, pnew, consVars>>

\* tail.index.fetch_add(1); a sentinel position is skipped by drawing again,
\* and a position other than the one loaded switches to CAS claims.
FetchAdd(p) ==
    /\ PStep(p, "fa_add", IF IsSentinel(tail) THEN "fa_load" ELSE "find")
    /\ SetPos(p, tail)
    /\ tail' = tail + 1
    /\ contended' = IF tail # ppos[p] THEN CONTENTION_WINDOW ELSE contended
    /\ UNCHANGED <<cached, tailBlock, headVars, blockVars, poolVars, phead,
                   pfailed, pblk, pnew, consVars>>

\* Mutant: the level is counted down without looking whether it is zero.
CasClaimUnderflow(p) ==
    /\ PStep(p, "cas", IF IsSentinel(tail) THEN "cas" ELSE "find")
    /\ ppos[p] = tail
    /\ tail' = tail + 1
    /\ IF IsSentinel(tail)
       THEN SetPos(p, tail + 1) /\ UNCHANGED <<contended, pfailed>>
       ELSE /\ contended' = IF pfailed[p] THEN CONTENTION_WINDOW ELSE contended - 1
            /\ pfailed' = [pfailed EXCEPT ![p] = FALSE]
            /\ UNCHANGED ppos
    /\ UNCHANGED <<cached, tailBlock, headVars, blockVars, poolVars, phead,
                   pblk, pnew, consVars>>

\* The CAS of claim_cas succeeds: go on past a sentinel, or own the position.
CasClaim(p) ==
    /\ PStep(p, "cas", IF IsSentinel(tail) THEN "cas" ELSE "find")
    /\ ppos[p] = tail
    /\ tail' = tail + 1
    /\ IF IsSentinel(tail)
       THEN SetPos(p, tail + 1) /\ UNCHANGED <<contended, pfailed>>
       ELSE /\ contended' = IF pfailed[p] THEN CONTENTION_WINDOW
                            ELSE IF contended > 0 THEN contended - 1 ELSE 0
            /\ pfailed' = [pfailed EXCEPT ![p] = FALSE]
            /\ UNCHANGED ppos
    /\ UNCHANGED <<cached, tailBlock, headVars, blockVars, poolVars, phead,
                   pblk, pnew, consVars>>

\* It fails, on a changed index or spuriously: go on from the actual index.
CasFail(p) ==
    /\ PStep(p, "cas", "cas")
    /\ SetPos(p, tail)
    /\ pfailed' = [pfailed EXCEPT ![p] = TRUE]
    /\ UNCHANGED <<indexVars, tailBlock, headVars, blockVars, poolVars, phead,
                   pblk, pnew, consVars>>

\* claim_bounded skips the sentinel on behalf of everyone, whatever the
\* capacity says.
SkipSentinel(p) ==
    /\ PStep(p, "cap", "cap")
    /\ IsSentinel(ppos[p]) /\ ppos[p] = tail
    /\ tail' = tail + 1
    /\ SetPos(p, tail + 1)
    /\ UNCHANGED <<cached, contended, tailBlock, headVars, blockVars, poolVars,
                   phead, pfailed, pblk, pnew, consVars>>

SkipSentinelFail(p) ==
    /\ PStep(p, "cap", "cap")
    /\ IsSentinel(ppos[p])
    /\ SetPos(p, tail)
    /\ UNCHANGED <<indexVars, tailBlock, headVars, blockVars, poolVars, phead,
                   pfailed, pblk, pnew, consVars>>

\* Mutant: the cached head alone decides that the queue is full.
CheckCachedOnly(p) ==
    /\ ~IsSentinel(ppos[p])
    /\ PStep(p, "cap", IF ItemsBetween(cached, ppos[p]) >= Capacity
                       THEN "idle" ELSE "cap_cas")
    /\ UNCHANGED <<indexVars, tailBlock, headVars, blockVars, poolVars,
                   claimLocals, pblk, pnew, consVars>>

\* Capacity check against the cached head.
CheckCached(p) ==
    /\ ~IsSentinel(ppos[p])
    /\ PStep(p, "cap", IF ItemsBetween(cached, ppos[p]) >= Capacity
                       THEN "cap_head" ELSE "cap_cas")
    /\ UNCHANGED <<indexVars, tailBlock, headVars, blockVars, poolVars,
                   claimLocals, pblk, pnew, consVars>>

\* The cache says full and so does the real head: push returns Err.
ReturnFull(p) ==
    /\ PStep(p, "cap_head", "idle")
    /\ ItemsBetween(head, ppos[p]) >= Capacity
    /\ SetPos(p, 0)
    /\ UNCHANGED <<indexVars, tailBlock, headVars, blockVars, poolVars, phead,
                   pfailed, pblk, pnew, consVars>>

\* The real head has room.
ReadHead(p) ==
    /\ PStep(p, "cap_head", "cap_store")
    /\ ItemsBetween(head, ppos[p]) < Capacity
    /\ phead' = [phead EXCEPT ![p] = head]
    /\ UNCHANGED <<indexVars, tailBlock, headVars, blockVars, poolVars, ppos,
                   pfailed, pblk, pnew, consVars>>

\* A plain store: a slower producer may put an older head back.
StoreCached(p) ==
    /\ PStep(p, "cap_store", "cap_cas")
    /\ cached' = phead[p]
    /\ phead' = [phead EXCEPT ![p] = 0]
    /\ UNCHANGED <<tail, contended, tailBlock, headVars, blockVars, poolVars,
                   ppos, pfailed, pblk, pnew, consVars>>

CapClaim(p) ==
    /\ PStep(p, "cap_cas", "find")
    /\ ppos[p] = tail
    /\ tail' = tail + 1
    /\ UNCHANGED <<cached, contended, tailBlock, headVars, blockVars, poolVars,
                   claimLocals, pblk, pnew, consVars>>

\* Mutant: a lost race is retried without checking the capacity again.
CapFailKeepsVerdict(p) ==
    /\ PStep(p, "cap_cas", "cap_cas")
    /\ SetPos(p, tail)
    /\ UNCHANGED <<indexVars, tailBlock, headVars, blockVars, poolVars, phead,
                   pfailed, pblk, pnew, consVars>>

CapFail(p) ==
    /\ PStep(p, "cap_cas", "cap")
    /\ SetPos(p, tail)
    /\ UNCHANGED <<indexVars, tailBlock, headVars, blockVars, poolVars, phead,
                   pfailed, pblk, pnew, consVars>>

----------------------------------------------------------------------------
(* find_block and find_block_slow: the block serving the claimed lap.       *)

\* Unchanged by a producer that only looks for its block.
searchFrame == <<indexVars, tailBlock, headVars, blockVars, poolVars,
                 claimLocals, pnew, consVars>>

AfterFound(p) == IF IsLastSlot(ppos[p]) THEN "take" ELSE "write"

\* Load tail.block: find_block, then find_block_slow, which loads it again.
LoadTailBlock(p) ==
    /\ \/ PStep(p, "find", "fast")
       \/ PStep(p, "reload", "walk")
    /\ SetBlock(p, tailBlock)
    /\ UNCHANGED searchFrame

FastCheck(p) ==
    /\ PStep(p, "fast", IF start[pblk[p]] = LapStart(ppos[p])
                        THEN AfterFound(p) ELSE "reload")
    /\ UNCHANGED <<pblk, searchFrame>>

\* Mutant: any block that is not behind the target is taken for it.
WalkCheckNoExactMatch(p) ==
    LET s == start[pblk[p]]
    IN /\ PStep(p, "walk", CASE s >= LapStart(ppos[p]) -> AfterFound(p)
                             [] OTHER                  -> "reload")
       /\ UNCHANGED <<pblk, searchFrame>>

\* Mutant: the walk follows `prev` of a pooled block too.
WalkCheckThroughPool(p) ==
    LET s == start[pblk[p]]
    IN /\ PStep(p, "walk", CASE s = LapStart(ppos[p]) -> AfterFound(p)
                             [] s > LapStart(ppos[p]) \/ s = POOLED -> "prev"
                             [] OTHER                 -> "reload")
       /\ UNCHANGED <<pblk, searchFrame>>

\* The block's `start` tells: ours; ahead of ours, follow `prev`; behind or
\* pooled, load tail.block again.
WalkCheck(p) ==
    LET s == start[pblk[p]]
        target == LapStart(ppos[p])
    IN /\ PStep(p, "walk", CASE s = target                 -> AfterFound(p)
                             [] s > target /\ s # POOLED -> "prev"
                             [] OTHER                      -> "reload")
       /\ UNCHANGED <<pblk, searchFrame>>

FollowPrev(p) ==
    /\ PStep(p, "prev", "walk")
    /\ SetBlock(p, prev[pblk[p]])
    /\ UNCHANGED searchFrame

----------------------------------------------------------------------------
(* install_next, take_block and take_block_slow.                            *)

\* Unchanged by a producer that takes a block out of the pool.
takeFrame == <<indexVars, tailBlock, headVars, linkVars, slotVars,
               claimLocals, pblk, consVars>>

SetNew(p, b) == pnew' = [pnew EXCEPT ![p] = b]

\* spare.swap(null).
TakeSpare(p) ==
    /\ PStep(p, "take", IF spare # Null THEN "link" ELSE "take_slow")
    /\ SetNew(p, spare)
    /\ spare' = Null
    /\ UNCHANGED <<ready, retired, fresh, marks, takeFrame>>

\* Under the pool lock: a ready block ...
TakeReady(p) ==
    /\ PStep(p, "take_slow", "link")
    /\ \E b \in ready : SetNew(p, b) /\ ready' = ready \ {b}
    /\ UNCHANGED <<spare, retired, fresh, marks, takeFrame>>

\* Mutant: a retired block is taken although a reader may still be in it.
TakeRetiredUnchecked(p) ==
    /\ PStep(p, "take_slow", "reset")
    /\ ready = {}
    /\ \E b \in retired : SetNew(p, b) /\ retired' = retired \ {b}
    /\ UNCHANGED <<spare, ready, fresh, marks, takeFrame>>

\* ... or else a retired block whose readers are done ...
TakeRetired(p) ==
    /\ PStep(p, "take_slow", "reset")
    /\ ready = {}
    /\ \E b \in retired :
         ReadersDone(b) /\ SetNew(p, b) /\ retired' = retired \ {b}
    /\ UNCHANGED <<spare, ready, fresh, marks, takeFrame>>

\* ... or else a new one; a producer never waits for a reader.
Allocate(p) ==
    /\ PStep(p, "take_slow", "link")
    /\ fresh <= MaxBlocks
    /\ ready = {} /\ \A b \in retired : ~ReadersDone(b)
    /\ SetNew(p, fresh)
    /\ fresh' = fresh + 1
    /\ UNCHANGED <<spare, ready, retired, marks, takeFrame>>

\* Block::reset of the retired block: clear the marks, unset `start`, keep
\* the links.
ResetTaken(p) ==
    /\ PStep(p, "reset", "link")
    /\ marks' = [marks EXCEPT ![pnew[p]] = {}]
    /\ start' = [start EXCEPT ![pnew[p]] = POOLED]
    /\ UNCHANGED <<indexVars, tailBlock, headVars, next, prev, slotVars,
                   poolVars, claimLocals, pblk, pnew, consVars>>

\* Unchanged by a producer that links its block and writes its value.
installFrame == <<indexVars, headVars, marks, poolVars, claimLocals, consVars>>

\* The links of a block nobody trusts before its `start` is set.
Link(p) ==
    /\ PStep(p, "link", "start")
    /\ prev' = [prev EXCEPT ![pnew[p]] = pblk[p]]
    /\ next' = [next EXCEPT ![pnew[p]] = Null]
    /\ UNCHANGED <<tailBlock, start, slotVars, pblk, pnew, installFrame>>

SetStart(p) ==
    /\ PStep(p, "start", "next")
    /\ start' = [start EXCEPT ![pnew[p]] = LapStart(ppos[p]) + LAP]
    /\ UNCHANGED <<tailBlock, next, prev, slotVars, pblk, pnew, installFrame>>

\* Mutant: the value is published before the next block is linked.
SetNextLate(p) ==
    /\ PStep(p, "next", "tail")
    /\ state' = [state EXCEPT ![pblk[p]][Offset(ppos[p])] =
                   WrittenTag(Lap(ppos[p]))]
    /\ value' = [value EXCEPT ![pblk[p]][Offset(ppos[p])] = ppos[p]]
    /\ UNCHANGED <<tailBlock, linkVars, pblk, pnew, installFrame>>

\* Consumers reach the new block through `next` ...
SetNext(p) ==
    /\ PStep(p, "next", "tail")
    /\ next' = [next EXCEPT ![pblk[p]] = pnew[p]]
    /\ UNCHANGED <<tailBlock, start, prev, slotVars, pblk, pnew, installFrame>>

\* Mutant: tail.block is left on the full block.
SetTailBlockForgotten(p) ==
    /\ PStep(p, "tail", "write")
    /\ SetNew(p, Null)
    /\ UNCHANGED <<tailBlock, linkVars, slotVars, pblk, installFrame>>

\* ... and producers through tail.block.
SetTailBlock(p) ==
    /\ PStep(p, "tail", "write")
    /\ tailBlock' = pnew[p]
    /\ SetNew(p, Null)
    /\ UNCHANGED <<linkVars, slotVars, pblk, installFrame>>

----------------------------------------------------------------------------
(* The end of push: write the value, then publish the slot.                 *)

WriteValue(p) ==
    /\ PStep(p, "write", "publish")
    /\ value' = [value EXCEPT ![pblk[p]][Offset(ppos[p])] = ppos[p]]
    /\ UNCHANGED <<tailBlock, linkVars, state, pblk, pnew, installFrame>>

\* The Release store of the tag; push returns Ok.
Publish(p) ==
    /\ PStep(p, "publish", "idle")
    /\ state' = [state EXCEPT ![pblk[p]][Offset(ppos[p])] =
                   WrittenTag(Lap(ppos[p]))]
    /\ SetPos(p, 0) /\ SetBlock(p, Null)
    /\ UNCHANGED <<indexVars, tailBlock, headVars, linkVars, marks, value,
                   poolVars, phead, pfailed, pnew, consVars>>

Producer(p) ==
    \/ StartPush(p) \/ LoadTail(p) \/ FetchAdd(p) \/ CasClaim(p) \/ CasFail(p)
    \/ SkipSentinel(p) \/ SkipSentinelFail(p) \/ CheckCached(p)
    \/ ReturnFull(p) \/ ReadHead(p) \/ StoreCached(p)
    \/ CapClaim(p) \/ CapFail(p)
    \/ LoadTailBlock(p) \/ FastCheck(p) \/ WalkCheck(p) \/ FollowPrev(p)
    \/ TakeSpare(p) \/ TakeReady(p) \/ TakeRetired(p) \/ Allocate(p)
    \/ ResetTaken(p) \/ Link(p) \/ SetStart(p) \/ SetNext(p)
    \/ SetTailBlock(p) \/ WriteValue(p) \/ Publish(p)

----------------------------------------------------------------------------
(* What both consumer sides use: their frames, and recycle.                  *)

CStep(c, from, to) == cpc[c] = from /\ cpc' = [cpc EXCEPT ![c] = to]

\* Locals of a consumer outside pop.
ForgetLocals(c) ==
    /\ cpos' = [cpos EXCEPT ![c] = 0]
    /\ cblk' = [cblk EXCEPT ![c] = Null]
    /\ cval' = [cval EXCEPT ![c] = NoValue]
    /\ ccount' = [ccount EXCEPT ![c] = 0]

\* spare.compare_exchange(null, block) succeeds ...
Recycle(c) ==
    /\ CStep(c, "recycle", "idle")
    /\ spare = Null
    /\ spare' = cblk[c]
    /\ ForgetLocals(c)
    /\ UNCHANGED <<indexVars, tailBlock, headVars, blockVars, ready, retired,
                   fresh, prodVars>>

\* ... or fails, and recycle_slow puts the block under the lock.
RecycleFail(c) ==
    /\ CStep(c, "recycle", "recycle_slow")
    /\ spare # Null
    /\ UNCHANGED <<indexVars, tailBlock, headVars, blockVars, poolVars,
                   prodVars, cpos, cblk, cval, ccount>>

RecycleSlow(c) ==
    /\ CStep(c, "recycle_slow", "idle")
    /\ ready' = ready \cup {cblk[c]}
    /\ ForgetLocals(c)
    /\ UNCHANGED <<indexVars, tailBlock, headVars, blockVars, spare, retired,
                   fresh, prodVars>>

----------------------------------------------------------------------------
(* Drop for Queue, which runs when no operation is in flight.               *)

Quiescent == /\ \A p \in Producers : ppc[p] = "idle"
             /\ \A c \in Consumers : cpc[c] = "idle"

\* The block Drop visits for each position between head and tail.
DropBlock[i \in Nat] ==
    IF i <= head THEN headBlock
    ELSE IF IsSentinel(i - 1) THEN next[DropBlock[i - 1]] ELSE DropBlock[i - 1]

\* Mutant: Drop stays in the head block.
DropValuesOfOneBlock ==
    {value[headBlock][Offset(i)] : i \in
        {j \in ValuePositions(head, tail) :
            state[headBlock][Offset(j)] = WrittenTag(Lap(j))}}

\* The values it drops: those of the slots written in the lap it is in.
DropValues ==
    {value[DropBlock[i]][Offset(i)] : i \in
        {j \in ValuePositions(head, tail) :
            state[DropBlock[j]][Offset(j)] = WrittenTag(Lap(j))}}

\* The chain of blocks from b along `next`.
ChainFrom(b) ==
    LET nth[n \in Nat] ==
          IF n = 0 THEN b
          ELSE IF nth[n - 1] = Null THEN Null ELSE next[nth[n - 1]]
    IN {nth[n] : n \in 0..MaxBlocks} \ {Null}

\* The one from head.block, which Drop releases.
Chain == ChainFrom(headBlock)

----------------------------------------------------------------------------
(* Properties of the producers and the pool, whichever consumer side runs.  *)

\* Where a producer owns the position `ppos`, and has found its block.
FoundPCs == {"take", "take_slow", "reset", "link", "start", "next", "tail",
             "write", "publish"}
ClaimedPCs == FoundPCs \cup {"find", "fast", "reload", "walk", "prev"}

ProducerPCs == ClaimedPCs \cup
    {"idle", "fa_load", "fa_add", "cas_load", "cas", "cap_load", "cap",
     "cap_head", "cap_store", "cap_cas"}

BlockTypeOK ==
    /\ tailBlock \in Blocks /\ headBlock \in Blocks
    /\ start \in [Blocks -> Nat \cup {POOLED}]
    /\ next \in [Blocks -> Blocks \cup {Null}]
    /\ prev \in [Blocks -> Blocks \cup {Null}]
    /\ marks \in [Blocks -> SUBSET Slots]
    /\ state \in [Blocks -> [Slots -> Nat]]
    /\ value \in [Blocks -> [Slots -> Nat \cup {NoValue}]]
    /\ spare \in Blocks \cup {Null}
    /\ ready \subseteq Blocks /\ retired \subseteq Blocks
    /\ fresh \in 1..(MaxBlocks + 1)
    /\ pblk \in [Producers -> Blocks \cup {Null}]
    /\ pnew \in [Producers -> Blocks \cup {Null}]
    /\ cblk \in [Consumers -> Blocks \cup {Null}]
    /\ cval \in [Consumers -> Nat \cup {NoValue}]

Published(pos) ==
    \E b \in Blocks : /\ start[b] = LapStart(pos)
                      /\ state[b][Offset(pos)] = WrittenTag(Lap(pos))

\* A producer that walks back from a block ahead of its own finds the
\* block's predecessor, one lap earlier (queue.rs:741-747, debug_assert).
WalkStaysOnChain ==
    \A p \in Producers :
        ppc[p] = "prev" =>
            /\ prev[pblk[p]] # Null
            /\ start[pblk[p]] > LapStart(ppos[p])
            /\ start[prev[pblk[p]]] = start[pblk[p]] - LAP

\* From the moment a producer has found its block until it has published its
\* slot, the block keeps serving its lap and the slot stays its own: no one
\* else holds the position, and the slot is not readable (queue.rs:556-567).
WritesOwnSlot ==
    \A p \in Producers :
        ppc[p] \in FoundPCs =>
            /\ start[pblk[p]] = LapStart(ppos[p])
            /\ ~IsSentinel(ppos[p]) /\ ~Published(ppos[p])
            /\ \A q \in Producers \ {p} :
                 ppc[q] \in ClaimedPCs => ppos[q] # ppos[p]

\* Where a consumer owns the block it has left behind.
FinishingPCs == {"advance", "readers", "retire", "reset", "recycle",
                 "recycle_slow"}

\* Blocks are neither lost nor shared: every allocated block is in exactly
\* one of the live chain, the spare cell, the two pool lists and the hands of
\* one thread that installs or finishes it (queue.rs:349-352, 486-528).  An
\* installer that has yet to link its block holds all that hangs on it: others
\* can find the block before it is linked, and install the next one.
Holders == ({"queue"} \X {"chain", "spare", "ready", "retired"})
             \cup ({"producer"} \X Producers) \cup ({"consumer"} \X Consumers)

Held(h) ==
    LET who == h[2]
    IN CASE h[1] = "producer" ->
              CASE ppc[who] \in {"reset", "link", "start"} -> {pnew[who]}
                [] ppc[who] = "next" -> ChainFrom(pnew[who])
                [] OTHER -> {}
         [] h[1] = "consumer" ->
              IF cpc[who] \in FinishingPCs THEN {cblk[who]} ELSE {}
         [] h = <<"queue", "chain">>   -> Chain
         [] h = <<"queue", "spare">>   -> {spare} \ {Null}
         [] h = <<"queue", "ready">>   -> ready
         [] h = <<"queue", "retired">> -> retired

EveryBlockHasOneOwner ==
    LET held == [h \in Holders |-> Held(h)]
    IN \A b \in 1..(fresh - 1) : Cardinality({h \in Holders : b \in held[h]}) = 1

\* A bounded queue never holds more values than its capacity, counting the
\* claimed ones, although the check and the claim are separate steps
\* (queue.rs:632-675).
CapacityHeld ==
    Capacity # UNBOUNDED => ItemsBetween(head, tail) <= Capacity

\* A push that reports Full does so at a moment when the queue is full:
\* the cached head never decides it alone (queue.rs:650-661).
FullVerdictIsExact ==
    [][\A p \in Producers :
         (ppc[p] \in {"cap", "cap_head", "cap_cas"} /\ ppc'[p] = "idle")
            => ItemsBetween(head, tail) >= Capacity]_vars
=============================================================================
