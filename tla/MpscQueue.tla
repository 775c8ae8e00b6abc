------------------------------ MODULE MpscQueue ------------------------------
(***************************************************************************)
(* The exclusive-consumer side of the block queue (src/src/queue.rs):      *)
(* pop_single, pop_single_batch and recycle_single.  It shares every word  *)
(* and the whole producer side with MpmcQueue, but claims nothing: the one *)
(* consumer reads first and releases the positions afterwards, leaves no   *)
(* read marks, and recycles a block at once.                               *)
(***************************************************************************)
EXTENDS BlockQueue

\* The contract of both functions: one consumer for the life of the queue.
ASSUME ExclusiveAssumption == IsFiniteSet(Consumers) /\ Cardinality(Consumers) = 1

VARIABLES
    cmax,     \* `max`: values this batch may take
    received  \* history: the values moved out, in order

batchVars  == <<cmax, received>>
singleVars == <<vars, batchVars>>

SingleInit == Init /\ cmax = 0 /\ received = <<>>

\* Unchanged by a consumer that only reads.
readFrame == <<indexVars, tailBlock, headVars, blockVars, poolVars, prodVars>>

----------------------------------------------------------------------------
(* pop_single (a batch of one) and pop_single_batch.                        *)

\* Mutant: the batch may run over the end of its block.
StartPastBlock(c) ==
    \E limit \in 1..BLOCK_CAP :
        /\ CStep(c, "idle", "read")
        /\ state[headBlock][Offset(head)] = WrittenTag(Lap(head))
        /\ cmax' = limit
        /\ cpos' = [cpos EXCEPT ![c] = head]
        /\ cblk' = [cblk EXCEPT ![c] = headBlock]
        /\ UNCHANGED <<cval, ccount, received, readFrame>>

\* The loads of head.index, head.block and the first slot: nobody else moves
\* the head.
Start(c) ==
    \E limit \in 1..BLOCK_CAP :
        /\ CStep(c, "idle", "read")
        /\ state[headBlock][Offset(head)] = WrittenTag(Lap(head))
        /\ limit <= BLOCK_CAP - Offset(head)
        /\ cmax' = limit
        /\ cpos' = [cpos EXCEPT ![c] = head]
        /\ cblk' = [cblk EXCEPT ![c] = headBlock]
        /\ UNCHANGED <<cval, ccount, received, readFrame>>

\* The slot is not written, or the buffer cannot grow: the call leaves no trace.
ReturnNothing(c) ==
    /\ cpc[c] = "idle"
    /\ UNCHANGED singleVars

\* Move the next value out; the head still covers it.
ReadValue(c) ==
    LET pos == cpos[c] + ccount[c]
    IN /\ CStep(c, "read", IF ccount[c] + 1 < cmax THEN "more"
                           ELSE IF IsLastSlot(pos) THEN "next" ELSE "release")
       /\ cval' = [cval EXCEPT ![c] = value[cblk[c]][Offset(pos)]]
       /\ ccount' = [ccount EXCEPT ![c] = @ + 1]
       /\ received' = Append(received, cval'[c])
       /\ UNCHANGED <<cmax, cpos, cblk, readFrame>>

\* Mutant: a slot written in an earlier lap continues the batch.
CheckMoreAnyLap(c) ==
    /\ CStep(c, "more",
             IF state[cblk[c]][Offset(cpos[c] + ccount[c])] # 0
             THEN "read" ELSE "release")
    /\ UNCHANGED <<cmax, received, cpos, cblk, cval, ccount, readFrame>>

\* Mutant: the buffer grows value by value, and may panic in between.
CheckMoreMayPanic(c) ==
    /\ \/ CStep(c, "more", "read") \/ CStep(c, "more", "idle")
    /\ state[cblk[c]][Offset(cpos[c] + ccount[c])] = WrittenTag(Lap(cpos[c]))
    /\ IF cpc'[c] = "idle" THEN ForgetLocals(c) /\ cmax' = 0
       ELSE UNCHANGED <<cmax, cpos, cblk, cval, ccount>>
    /\ UNCHANGED <<received, readFrame>>

\* The batch goes on while the next slot is written in this lap.
CheckMore(c) ==
    /\ CStep(c, "more",
             IF state[cblk[c]][Offset(cpos[c] + ccount[c])]
                = WrittenTag(Lap(cpos[c])) THEN "read" ELSE "release")
    /\ UNCHANGED <<cmax, received, cpos, cblk, cval, ccount, readFrame>>

\* head.index releases the slots of the batch.
Release(c) ==
    /\ CStep(c, "release", "idle")
    /\ head' = cpos[c] + ccount[c]
    /\ ForgetLocals(c) /\ cmax' = 0
    /\ UNCHANGED <<indexVars, tailBlock, headBlock, blockVars, poolVars,
                   prodVars, received>>

\* After a last slot: first head.block, ...
MoveHeadBlock(c) ==
    /\ CStep(c, "next", "advance")
    /\ headBlock' = next[cblk[c]]
    /\ UNCHANGED <<indexVars, tailBlock, head, blockVars, poolVars, prodVars,
                   cpos, cblk, cval, ccount, batchVars>>

\* Mutant: the sentinel is not skipped.
MoveHeadIndexShort(c) ==
    /\ CStep(c, "advance", "reset")
    /\ head' = cpos[c] + ccount[c]
    /\ cmax' = 0
    /\ UNCHANGED <<indexVars, tailBlock, headBlock, blockVars, poolVars,
                   prodVars, cpos, cblk, cval, ccount, received>>

\* ... then head.index, over the sentinel.
MoveHeadIndex(c) ==
    /\ CStep(c, "advance", "reset")
    /\ head' = cpos[c] + ccount[c] + 1
    /\ cmax' = 0
    /\ UNCHANGED <<indexVars, tailBlock, headBlock, blockVars, poolVars,
                   prodVars, cpos, cblk, cval, ccount, received>>

\* Mutant: head.block, which has moved on, is recycled.
RecycleSingleHead(c) ==
    /\ CStep(c, "reset", "recycle")
    /\ start' = [start EXCEPT ![headBlock] = POOLED]
    /\ cblk' = [cblk EXCEPT ![c] = headBlock]
    /\ UNCHANGED <<indexVars, tailBlock, headVars, next, prev, marks, slotVars,
                   poolVars, prodVars, cpos, cval, ccount, batchVars>>

\* recycle_single: no marks to clear; the links stay.
RecycleSingle(c) ==
    /\ CStep(c, "reset", "recycle")
    /\ start' = [start EXCEPT ![cblk[c]] = POOLED]
    /\ UNCHANGED <<indexVars, tailBlock, headVars, next, prev, marks, slotVars,
                   poolVars, prodVars, cpos, cblk, cval, ccount, batchVars>>

SingleConsumer(c) ==
    \/ Start(c) \/ ReturnNothing(c) \/ ReadValue(c) \/ CheckMore(c)
    \/ Release(c) \/ MoveHeadBlock(c) \/ MoveHeadIndex(c) \/ RecycleSingle(c)
    \/ (Recycle(c) \/ RecycleFail(c) \/ RecycleSlow(c)) /\ UNCHANGED batchVars

Next == \/ \E p \in Producers : Producer(p) /\ UNCHANGED batchVars
        \/ \E c \in Consumers : SingleConsumer(c)

Spec == SingleInit /\ [][Next]_singleVars

----------------------------------------------------------------------------
(* Properties.                                                              *)

BatchPCs == {"read", "more", "release", "next", "advance"}

\* Types of every word and local.  A batch stays in its block (queue.rs:927).
TypeOK ==
    /\ tail \in Nat /\ cached \in Nat /\ head \in Nat
    /\ contended \in 0..CONTENTION_WINDOW
    /\ ppc \in [Producers -> ProducerPCs]
    /\ ppos \in [Producers -> Nat] /\ phead \in [Producers -> Nat]
    /\ pfailed \in [Producers -> BOOLEAN]
    /\ cpc \in [Consumers -> BatchPCs \cup {"idle"} \cup FinishingPCs]
    /\ cpos \in [Consumers -> Nat] /\ ccount \in [Consumers -> 0..BLOCK_CAP]
    /\ BlockTypeOK
    /\ cmax \in 0..BLOCK_CAP /\ received \in Seq(Nat)
    /\ \A c \in Consumers :
         cpc[c] \in BatchPCs =>
             /\ ccount[c] <= cmax
             /\ Offset(cpos[c]) + cmax <= BLOCK_CAP

\* Between two receives the head rests on a value position, never on a
\* sentinel, and head.block serves it (queue.rs:866, debug_assert).
HeadServesItsBlock ==
    \A c \in Consumers :
        cpc[c] \notin BatchPCs =>
            ~IsSentinel(head) /\ start[headBlock] = LapStart(head)

Receiver == CHOOSE c \in Consumers : TRUE

\* The first position that has not been moved out.
UnreadFrom ==
    IF cpc[Receiver] \in BatchPCs
    THEN cpos[Receiver] + ccount[Receiver] ELSE head

\* Every value is received exactly once, in order, or destroyed by Drop,
\* never both: moving values out and releasing their positions are separate
\* steps, and nothing ends a receive between them, so that whenever none is
\* going on, whatever the producers are doing, the head is behind the last
\* value moved out (queue.rs:931-933).
EachValueOnce ==
    /\ (\A c \in Consumers : cpc[c] \notin BatchPCs)
         => received = PositionsBetween(0, head)
    /\ Quiescent => DropValues = ValuePositions(head, tail)

\* The places that have not been moved out, ...
UnreadItems ==
    LET places == PositionsBetween(UnreadFrom, tail)
    IN [i \in DOMAIN places |->
          [val |-> places[i], ready |-> Published(places[i])]]

\* ... the values of the pushes that have one and have not published it, ...
SingleSending == [p \in Producers |->
                    IF ppc[p] \in ClaimedPCs THEN ppos[p] ELSE NoValue]

\* ... and the value a batch has moved out last.
SingleTaken == [c \in Consumers |->
                  IF cpc[c] = "read" THEN NoValue ELSE cval[c]]

Abstract == INSTANCE FifoQueue WITH
    Values <- Nat, items <- UnreadItems, sending <- SingleSending, taken <- SingleTaken

\* The queue with one exclusive consumer implements the same FIFO queue: a
\* value is taken when it is moved out, and the slots of a batch are released
\* together (queue.rs:854-960).
ImplementsFifo == Abstract!Spec
=============================================================================
