------------------------------ MODULE MpscBlocks ------------------------------
(***************************************************************************)
(* The exclusive-consumer queue (MpscQueue), seen as the shared-consumer   *)
(* queue (MpmcQueue) with the same blocks and the same producers.  The     *)
(* head of the shared queue is then at the first value that has not been   *)
(* moved out, and its consumer claims nothing before that; what it does on *)
(* leaving a block is the same in both queues.  The invariants of          *)
(* MpmcIndices and MpmcBlocks hold of the queue seen in this way; BatchInv *)
(* says how far the batch has come.                                        *)
(***************************************************************************)
EXTENDS MpscQueue

\* Where the consumer leaves a block behind, which the shared queue does too.
LeavingPCs == {"next", "advance", "reset", "recycle", "recycle_slow"}

\* The consumer of the shared queue.  No reader can be in the block it leaves:
\* it goes from the move of the head to the reset without looking.
SharedPC(c)    == IF cpc[c] = "reset" THEN "readers"
                  ELSE IF cpc[c] \in LeavingPCs THEN cpc[c] ELSE "idle"
SharedCpc      == [c \in Consumers |-> SharedPC(c)]
SharedCpos     == [c \in Consumers |->
                     IF cpc[c] \in LeavingPCs THEN cpos[c] + ccount[c] - 1 ELSE 0]
SharedCblk     == [c \in Consumers |-> IF cpc[c] \in LeavingPCs THEN cblk[c] ELSE Null]
SharedCval     == [c \in Consumers |-> NoValue]
SharedCcount   == [c \in Consumers |-> 0]

\* What an idle consumer of the shared queue looks like.
IdleCpc  == [c \in Consumers |-> "idle"]
IdleCpos == [c \in Consumers |-> 0]
IdleCblk == [c \in Consumers |-> Null]

\* A batch starts at the head and stays in the head's block; the slot it is
\* about to read is written, and it leaves the block after the last slot only.
BatchInv ==
    /\ head \in Nat
    /\ cpc \in [Consumers -> BatchPCs \cup {"idle"} \cup FinishingPCs]
    /\ cpos \in [Consumers -> Nat] /\ ccount \in [Consumers -> Nat] /\ cmax \in Nat
    /\ cblk \in [Consumers -> Blocks \cup {Null}]
    /\ cval \in [Consumers -> Nat \cup {NoValue}]
    /\ cmax <= BLOCK_CAP
    /\ \A c \in Consumers :
         /\ ccount[c] <= BLOCK_CAP
         /\ cpc[c] \in BatchPCs =>
              /\ cpos[c] = head /\ ccount[c] <= cmax
              /\ Offset(cpos[c]) + cmax <= BLOCK_CAP
         /\ cpc[c] \in {"read", "more"} => ccount[c] < cmax
         /\ cpc[c] \in BatchPCs \ {"advance"} => cblk[c] = headBlock
         /\ cpc[c] = "read" =>
              state[cblk[c]][Offset(cpos[c] + ccount[c])] = WrittenTag(Lap(cpos[c]))
         /\ cpc[c] = "release" => ~IsSentinel(cpos[c] + ccount[c])
         /\ cpc[c] \in LeavingPCs =>
              ccount[c] # 0 /\ IsLastSlot(cpos[c] + ccount[c] - 1)
         /\ cpc[c] \in LeavingPCs \ BatchPCs => cpos[c] + ccount[c] + 1 <= head
         /\ cpc[c] \notin {"retire", "readers"}
         /\ cpc[c] = "idle" => ccount[c] = 0 /\ cval[c] = NoValue
         /\ cpc[c] \notin BatchPCs => ~IsSentinel(head)
    /\ retired = {} /\ \A p \in Producers : ppc[p] # "reset"
    /\ marks = [b \in Blocks |-> {}]

\* What has been moved out is every value below the first unread position.
ReceivedInv == received = PositionsBetween(0, UnreadFrom)
=============================================================================
