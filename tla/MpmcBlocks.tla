------------------------------ MODULE MpmcBlocks ------------------------------
(***************************************************************************)
(* The inductive invariant of the blocks of the shared-consumer queue      *)
(* (MpmcQueue), on top of the invariant of its indices (MpmcIndices): which *)
(* block serves which lap, what a slot's tag stands for, and who holds a   *)
(* block that serves none.                                                 *)
(*                                                                         *)
(* It says little of tail.block: an installer that is overtaken may put it *)
(* back to an earlier block (MCTailBlock), so that nothing rests on it but *)
(* the `start` a producer checks behind it.                                *)
(***************************************************************************)
EXTENDS MpmcIndices

\* Where a producer holds a block that it has read.
PointerPCs == FoundPCs \cup {"fast", "walk", "prev"}

\* Where it installs the next block, and holds that block.
InstallPCs == {"take", "take_slow", "reset", "link", "start", "next", "tail"}
NewPCs     == InstallPCs \ {"take", "take_slow"}

\* Pointers are not null where they are followed, and only the owner of the
\* last slot installs.
PointerInv ==
    /\ \A p \in Producers :
         /\ ppc[p] \in PointerPCs => pblk[p] # Null
         /\ ppc[p] \in InstallPCs => IsLastSlot(ppos[p])
         /\ ppc[p] \in NewPCs => pnew[p] # Null
    /\ \A c \in Consumers :
         /\ cpc[c] \in TakenPCs \cup {"slot", "recheck", "cas"} => cblk[c] # Null
         /\ cpc[c] \in TakenPCs => ~IsSentinel(cpos[c])
         /\ cpc[c] = "mark" => ~IsLastSlot(cpos[c])
         /\ cpc[c] \in FinishingPCs => IsLastSlot(cpos[c])

\* The lap that starts at s has been given its block: its installer, who owns
\* the last slot of the lap before, has stored the block's `start`.
StartedPCs  == {"next", "tail", "write", "publish"}
LapBegun(s) ==
    \/ s = 0
    \/ /\ s - 2 < tail
       /\ \A p \in Producers :
            ppc[p] \in ClaimedPCs \ StartedPCs => ppos[p] # s - 2

\* A block serves no lap, or one that has begun, and no other block serves it.
LapInv ==
    /\ \A b \in Blocks : start[b] # POOLED =>
         start[b] \in Nat /\ Offset(start[b]) = 0 /\ LapBegun(start[b])
    /\ \A b, d \in Blocks : start[b] # POOLED /\ start[b] = start[d] => b = d

\* Where the head is: at most one ahead of the tail, past no unwritten slot,
\* in the block of its lap, or about to follow head.block over the sentinel.
HeadInv ==
    /\ head <= tail \/ (head = tail + 1 /\ IsSentinel(tail))
    /\ \A p \in Producers : ppc[p] \in ClaimedPCs => head <= ppos[p]
    /\ start[headBlock] = IF \E c \in Consumers : cpc[c] = "advance"
                          THEN head + 1 ELSE LapStart(head)

\* A tag that is not zero stands for one position of a lap that has begun,
\* whose push is over; a block that serves this lap holds its value.
StandsFor(b, s, pos) ==
    /\ Offset(pos) = s /\ state[b][s] = WrittenTag(Lap(pos))
    /\ LapBegun(LapStart(pos))
    /\ \A p \in Producers : ppc[p] \in ClaimedPCs => ppos[p] # pos
    /\ start[b] = LapStart(pos) => value[b][s] = pos
TagInv ==
    \A b \in Blocks, s \in Slots : state[b][s] # 0 =>
        \E pos \in 0..(tail - 1) : StandsFor(b, s, pos)

\* A block that the head has not left, and the next one.
Live(b)   == start[b] >= start[headBlock]
Linked(b) == next[b] # Null /\ start[next[b]] = start[b] + LAP

\* The live blocks are linked both ways: back from each but the first, and on
\* from each whose last slot is written, or about to be.
ChainInv ==
    /\ \A b \in Blocks : start[b] > start[headBlock] =>
         prev[b] # Null /\ start[prev[b]] = start[b] - LAP
    /\ \A b \in Blocks :
         Live(b) /\ state[b][BLOCK_CAP - 1] = WrittenTag(Lap(start[b])) => Linked(b)
    /\ \A p \in Producers :
         /\ ppc[p] \in {"tail", "write", "publish"} /\ IsLastSlot(ppos[p])
              => Linked(pblk[p])
         /\ ppc[p] = "start" => prev[pnew[p]] = pblk[p]
         /\ ppc[p] \in {"next", "tail"} => start[pnew[p]] = LapStart(ppos[p]) + LAP

\* A producer's block serves the lap of its position once it has found it, and
\* a later lap while it goes back.
FindInv ==
    \A p \in Producers :
        /\ ppc[p] \in FoundPCs => start[pblk[p]] = LapStart(ppos[p])
        /\ ppc[p] = "prev" => start[pblk[p]] > LapStart(ppos[p])
        /\ ppc[p] = "publish" => value[pblk[p]][Offset(ppos[p])] = ppos[p]

\* A consumer's block: the head's while the head has not moved, and the one
\* its position is in from its claim until it has marked or recycled it.
ReadInv ==
    /\ \A c \in Consumers :
         LET written == state[cblk[c]][Offset(cpos[c])] = WrittenTag(Lap(cpos[c]))
         IN /\ (cpc[c] \in {"slot", "recheck", "cas"} /\ head = cpos[c]) =>
                 /\ start[cblk[c]] = LapStart(cpos[c])
                 /\ cpc[c] = "cas" => written
            /\ cpc[c] \in TakenPCs \ {"recycle", "recycle_slow"} =>
                 /\ start[cblk[c]] = LapStart(cpos[c])
                 /\ cpc[c] \in {"read", "next"} => written
            /\ cpc[c] \in {"read", "mark"} => Offset(cpos[c]) \notin marks[cblk[c]]
            /\ cpc[c] = "reset" => ReadersDone(cblk[c])
    /\ \A p \in Producers : ppc[p] = "reset" => ReadersDone(pnew[p])
    /\ \A b \in Blocks : \A s \in marks[b] :
         start[b] # POOLED /\ start[b] + s < head

\* Where a producer, or a consumer, holds a block that no one else can reach.
Installs(p) == ppc[p] \in {"reset", "link", "start"}
Finishes(c) == cpc[c] \in FinishingPCs

\* Blocks that can be reused serve no lap, and the others outside the chain
\* serve one that the head has left.
Left(b) == start[b] # POOLED /\ start[b] < start[headBlock]
PoolInv ==
    /\ spare # Null => start[spare] = POOLED
    /\ \A b \in Blocks : b \in ready \/ b >= fresh => start[b] = POOLED
    /\ \A b \in retired : Left(b)
    /\ \A p \in Producers :
         /\ ppc[p] \in {"link", "start"} => start[pnew[p]] = POOLED
         /\ ppc[p] = "reset" => Left(pnew[p])
    /\ \A c \in Consumers :
         /\ cpc[c] \in {"recycle", "recycle_slow"} => start[cblk[c]] = POOLED
         /\ Finishes(c) /\ start[cblk[c]] # POOLED => Left(cblk[c])

\* No block outside the chain is in two places, or in two hands.
InPool(b) == b = spare \/ b \in ready \cup retired \/ b >= fresh
OwnerInv ==
    /\ spare < fresh /\ ready \cup retired \subseteq 1..(fresh - 1)
    /\ spare \notin ready
    /\ \A p \in Producers : Installs(p) =>
         /\ ~InPool(pnew[p])
         /\ \A q \in Producers \ {p} : Installs(q) => pnew[q] # pnew[p]
         /\ \A c \in Consumers : Finishes(c) => cblk[c] # pnew[p]
    /\ \A c \in Consumers : Finishes(c) =>
         /\ ~InPool(cblk[c])
         /\ \A d \in Consumers \ {c} : Finishes(d) => cblk[d] # cblk[c]

BlockInv ==
    /\ BlockTypeOK /\ PointerInv /\ LapInv /\ HeadInv /\ TagInv /\ ChainInv
    /\ FindInv /\ ReadInv /\ PoolInv /\ OwnerInv

MpmcInv == IndexInv /\ BlockInv

----------------------------------------------------------------------------
(* Nothing is lost: neither a value that was pushed, nor a block.           *)

\* A head that rests on a sentinel is being moved.
SentinelInv == IsSentinel(head) => \E c \in Consumers : Moving(c)

\* A claimed position that has not been taken is published, or still its
\* producer's.
WrittenInv ==
    \A pos \in head..(tail - 1) : ~IsSentinel(pos) =>
        \/ Published(pos)
        \/ \E p \in Producers : ppc[p] \in ClaimedPCs /\ ppos[p] = pos

\* A block that serves a lap already, and that its installer has yet to link.
Unlinked(b) == \E p \in Producers : ppc[p] = "next" /\ pnew[p] = b

\* A live block is linked from the one before, unless its installer has yet to
\* do so, and to nothing but the one after.
LinkInv ==
    /\ \A b \in Blocks : start[b] > start[headBlock] /\ ~Unlinked(b) =>
         next[prev[b]] = b
    /\ \A b \in Blocks : Live(b) /\ next[b] # Null =>
         start[next[b]] = start[b] + LAP /\ ~Unlinked(next[b])
    /\ \A p \in Producers : ppc[p] = "start" => next[pnew[p]] = Null

\* An allocated block is live, in the pool or in someone's hands.
PlaceInv ==
    \A b \in 1..(fresh - 1) :
        \/ Live(b) \/ InPool(b)
        \/ \E p \in Producers : Installs(p) /\ pnew[p] = b
        \/ \E c \in Consumers : Finishes(c) /\ cblk[c] = b

KeepInv == SentinelInv /\ WrittenInv /\ LinkInv /\ PlaceInv
=============================================================================
