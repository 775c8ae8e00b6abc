------------------------------ MODULE MpmcQueue ------------------------------
(***************************************************************************)
(* The shared-consumer side of the block queue (src/src/queue.rs): pop and *)
(* finish_block.                                                           *)
(***************************************************************************)
EXTENDS BlockQueue

CONSTANT SNOOZE_LIMIT  \* polls of a sentinel before pop gives up

ASSUME SnoozeAssumption == SNOOZE_LIMIT \in Nat

\* Unchanged by a consumer that has not claimed a position.
lookFrame == <<indexVars, tailBlock, headVars, blockVars, poolVars, prodVars,
               cval>>

----------------------------------------------------------------------------
(* pop up to its claim.                                                     *)

\* Load head.index.
StartPop(c) ==
    /\ CStep(c, "idle", "block")
    /\ cpos' = [cpos EXCEPT ![c] = head]
    /\ UNCHANGED <<cblk, ccount, lookFrame>>

\* Load head.block; a sentinel index means that the head is being moved.
LoadHeadBlock(c) ==
    /\ CStep(c, "block", IF IsSentinel(cpos[c]) THEN "spin" ELSE "slot")
    /\ cblk' = [cblk EXCEPT ![c] =
                  IF IsSentinel(cpos[c]) THEN Null ELSE headBlock]
    /\ UNCHANGED <<cpos, ccount, lookFrame>>

\* Mutant: pop waits for the head to leave the sentinel, however long.
PollSentinelForever(c) ==
    /\ CStep(c, "spin", "block")
    /\ cpos' = [cpos EXCEPT ![c] = head]
    /\ UNCHANGED <<cblk, ccount, lookFrame>>

\* snooze_bounded: poll the head again, ...
PollSentinel(c) ==
    /\ CStep(c, "spin", "block")
    /\ ccount[c] < SNOOZE_LIMIT
    /\ ccount' = [ccount EXCEPT ![c] = @ + 1]
    /\ cpos' = [cpos EXCEPT ![c] = head]
    /\ UNCHANGED <<cblk, lookFrame>>

\* ... or return None when the budget is spent.
GiveUpOnSentinel(c) ==
    /\ CStep(c, "spin", "idle")
    /\ ccount[c] >= SNOOZE_LIMIT
    /\ ForgetLocals(c)
    /\ UNCHANGED <<indexVars, tailBlock, headVars, blockVars, poolVars,
                   prodVars>>

\* Mutant: any written slot will do, whatever its lap.
CheckSlotAnyLap(c) ==
    /\ CStep(c, "slot", IF state[cblk[c]][Offset(cpos[c])] # 0
                        THEN "cas" ELSE "recheck")
    /\ UNCHANGED <<cpos, cblk, ccount, lookFrame>>

\* Mutant: the slot is not looked at before it is claimed.
CheckSlotNever(c) ==
    /\ CStep(c, "slot", "cas")
    /\ UNCHANGED <<cpos, cblk, ccount, lookFrame>>

\* Is the slot written in the lap of the head?
CheckSlot(c) ==
    /\ CStep(c, "slot",
             IF state[cblk[c]][Offset(cpos[c])] = WrittenTag(Lap(cpos[c]))
             THEN "cas" ELSE "recheck")
    /\ UNCHANGED <<cpos, cblk, ccount, lookFrame>>

\* Not written, and the head has not moved: return None.
ReturnNone(c) ==
    /\ CStep(c, "recheck", "idle")
    /\ head = cpos[c]
    /\ ForgetLocals(c)
    /\ UNCHANGED <<indexVars, tailBlock, headVars, blockVars, poolVars,
                   prodVars>>

\* Not written, but the pair of head and block may be stale: look again.
LookAgain(c) ==
    /\ CStep(c, "recheck", "block")
    /\ head # cpos[c]
    /\ cpos' = [cpos EXCEPT ![c] = head]
    /\ UNCHANGED <<cblk, ccount, lookFrame>>

ClaimFail(c) ==
    /\ CStep(c, "cas", "block")
    /\ cpos' = [cpos EXCEPT ![c] = head]
    /\ UNCHANGED <<cblk, ccount, lookFrame>>

\* Mutant: the head is advanced by a plain store.
ClaimHeadByStore(c) ==
    /\ CStep(c, "cas", "read")
    /\ head' = cpos[c] + 1
    /\ UNCHANGED <<indexVars, tailBlock, headBlock, blockVars, poolVars,
                   prodVars, cpos, cblk, cval, ccount>>

\* The CAS proves that the pair was current.
ClaimHead(c) ==
    /\ CStep(c, "cas", "read")
    /\ head = cpos[c]
    /\ head' = head + 1
    /\ UNCHANGED <<indexVars, tailBlock, headBlock, blockVars, poolVars,
                   prodVars, cpos, cblk, cval, ccount>>

----------------------------------------------------------------------------
(* pop after its claim, finish_block and recycle.                           *)

\* Move the value out of the slot.
ReadValue(c) ==
    /\ CStep(c, "read", IF IsLastSlot(cpos[c]) THEN "next" ELSE "mark")
    /\ cval' = [cval EXCEPT ![c] = value[cblk[c]][Offset(cpos[c])]]
    /\ UNCHANGED <<indexVars, tailBlock, headVars, blockVars, poolVars,
                   prodVars, cpos, cblk, ccount>>

\* mark_read; pop returns the value.
MarkRead(c) ==
    /\ CStep(c, "mark", "idle")
    /\ marks' = [marks EXCEPT ![cblk[c]] = @ \cup {Offset(cpos[c])}]
    /\ ForgetLocals(c)
    /\ UNCHANGED <<indexVars, tailBlock, headVars, linkVars, slotVars,
                   poolVars, prodVars>>

\* Mutant: the index is moved to the sentinel's lap before the block is.
MoveHeadIndexFirst(c) ==
    /\ CStep(c, "next", "advance")
    /\ head' = cpos[c] + 2
    /\ UNCHANGED <<indexVars, tailBlock, headBlock, blockVars, poolVars,
                   prodVars, cpos, cblk, cval, ccount>>

\* finish_block moves the head: first the block, ...
MoveHeadBlock(c) ==
    /\ CStep(c, "next", "advance")
    /\ headBlock' = next[cblk[c]]
    /\ UNCHANGED <<indexVars, tailBlock, head, blockVars, poolVars, prodVars,
                   cpos, cblk, cval, ccount>>

\* Mutant: the index stays on the sentinel.
MoveHeadIndexByOne(c) ==
    /\ CStep(c, "advance", "readers")
    /\ head' = cpos[c] + 1
    /\ UNCHANGED <<indexVars, tailBlock, headBlock, blockVars, poolVars,
                   prodVars, cpos, cblk, cval, ccount>>

\* ... then the index, over the sentinel.
MoveHeadIndex(c) ==
    /\ CStep(c, "advance", "readers")
    /\ head' = cpos[c] + 2
    /\ UNCHANGED <<indexVars, tailBlock, headBlock, blockVars, poolVars,
                   prodVars, cpos, cblk, cval, ccount>>

\* Are the readers of the finished block done?
CheckReaders(c) ==
    /\ CStep(c, "readers", IF ReadersDone(cblk[c]) THEN "reset" ELSE "retire")
    /\ UNCHANGED <<indexVars, tailBlock, headVars, blockVars, poolVars,
                   prodVars, cpos, cblk, cval, ccount>>

\* Mutant: the block is left behind.
RetireNowhere(c) ==
    /\ CStep(c, "retire", "idle")
    /\ ForgetLocals(c)
    /\ UNCHANGED <<indexVars, tailBlock, headVars, blockVars, poolVars,
                   prodVars>>

\* Not yet: leave the block to a later installer.
Retire(c) ==
    /\ CStep(c, "retire", "idle")
    /\ retired' = retired \cup {cblk[c]}
    /\ ForgetLocals(c)
    /\ UNCHANGED <<indexVars, tailBlock, headVars, blockVars, spare, ready,
                   fresh, prodVars>>

\* Block::reset.
Reset(c) ==
    /\ CStep(c, "reset", "recycle")
    /\ marks' = [marks EXCEPT ![cblk[c]] = {}]
    /\ start' = [start EXCEPT ![cblk[c]] = POOLED]
    /\ UNCHANGED <<indexVars, tailBlock, headVars, next, prev, slotVars,
                   poolVars, prodVars, cpos, cblk, cval, ccount>>

Consumer(c) ==
    \/ StartPop(c) \/ LoadHeadBlock(c) \/ PollSentinel(c)
    \/ GiveUpOnSentinel(c) \/ CheckSlot(c) \/ ReturnNone(c) \/ LookAgain(c)
    \/ ClaimFail(c) \/ ClaimHead(c) \/ ReadValue(c) \/ MarkRead(c)
    \/ MoveHeadBlock(c) \/ MoveHeadIndex(c) \/ CheckReaders(c) \/ Retire(c)
    \/ Reset(c) \/ Recycle(c) \/ RecycleFail(c) \/ RecycleSlow(c)

Next == \/ \E p \in Producers : Producer(p)
        \/ \E c \in Consumers : Consumer(c)

Spec == Init /\ [][Next]_vars

----------------------------------------------------------------------------
(* Properties.                                                              *)

\* Where a consumer owns the position `cpos`.
TakenPCs == {"read", "mark", "next", "advance", "readers", "retire", "reset",
             "recycle", "recycle_slow"}

ConsumerPCs == TakenPCs \cup {"idle", "block", "spin", "slot", "recheck", "cas"}

\* Types.  `contended` never leaves its window: claim_cas counts it down to
\* zero and no further (queue.rs:611), whatever other producers store.
IndexTypeOK ==
    /\ tail \in Nat /\ cached \in Nat /\ head \in Nat
    /\ contended \in 0..CONTENTION_WINDOW
    /\ ppc \in [Producers -> ProducerPCs]
    /\ ppos \in [Producers -> Nat]
    /\ phead \in [Producers -> Nat]
    /\ pfailed \in [Producers -> BOOLEAN]
    /\ cpc \in [Consumers -> ConsumerPCs]
    /\ cpos \in [Consumers -> Nat]
    /\ ccount \in [Consumers -> 0..SNOOZE_LIMIT]

TypeOK == IndexTypeOK /\ BlockTypeOK

\* No data race on a value: no two threads access the value of one slot at
\* the same time.  A paused reader keeps its block from being written again
\* however far the queue has moved on (queue.rs:985-992).
ValueAccesses ==
    {<<p, pblk[p], Offset(ppos[p])>> : p \in {q \in Producers : ppc[q] = "write"}}
    \cup
    {<<c, cblk[c], Offset(cpos[c])>> : c \in {d \in Consumers : cpc[d] = "read"}}

DataRaceFree ==
    \A a, b \in ValueAccesses :
        a[1] # b[1] => <<a[2], a[3]>> # <<b[2], b[3]>>

\* A consumer that has claimed a position reads the value pushed at that
\* position, however long it is paused between its CAS and its read
\* (queue.rs:830-835).
ClaimedValueStays ==
    \A c \in Consumers :
        cpc[c] = "read" => value[cblk[c]][Offset(cpos[c])] = cpos[c]

\* A consumer that compares its slot while the head is still where it loaded
\* it compares the slot of that very position, although head.index and
\* head.block are loaded separately (queue.rs:810-812, 831-833).
PairIsCoherent ==
    \A c \in Consumers :
        (cpc[c] \in {"slot", "cas", "recheck"} /\ head = cpos[c])
            => start[cblk[c]] = LapStart(cpos[c])

\* The head moves one position at a time, over a sentinel or a published
\* slot: values leave in the order of their claims, each once, and a claimed
\* slot that is still being written holds the head back (queue.rs:809-822).
HeadStepsOverPublished ==
    [][head' # head => /\ head' = head + 1
                       /\ IsSentinel(head) \/ Published(head)]_vars

\* Whoever takes the last slot of a block finds the next block linked, and it
\* serves the lap after (queue.rs:975-979, debug_assert).
NextIsLinked ==
    \A c \in Consumers :
        cpc[c] = "next" => /\ next[cblk[c]] # Null
                           /\ start[next[cblk[c]]] = cpos[c] + 2

\* Drop destroys exactly the values that were pushed and never received, each
\* as itself, wherever the head and the tail were left (queue.rs:1051-1065).
DropsTheUnread ==
    Quiescent => DropValues = ValuePositions(head, tail)

----------------------------------------------------------------------------
(* Refinement: the queue implements a FIFO queue whose values are named by  *)
(* their positions.                                                         *)

\* The places between head and tail, ...
FifoItems ==
    LET places == PositionsBetween(head, tail)
    IN [i \in DOMAIN places |->
          [val |-> places[i], ready |-> Published(places[i])]]

\* ... the values of the pushes that have one and have not published it, ...
FifoSending == [p \in Producers |->
                  IF ppc[p] \in ClaimedPCs THEN ppos[p] ELSE NoValue]

\* ... and the value each pop has claimed, before and after it moves it out.
FifoTaken == [c \in Consumers |->
                IF cpc[c] = "read" THEN cpos[c] ELSE cval[c]]

Abstract == INSTANCE FifoQueue WITH
    Values <- Nat, items <- FifoItems, sending <- FifoSending, taken <- FifoTaken

\* Every step of push and pop is a step of the FIFO queue or none: a push takes
\* its place with its claim, becomes receivable with its tag, and the value a
\* pop moves out is the one whose place its CAS took from the front
\* (queue.rs:15-46, 536-573, 784-852).
ImplementsFifo == Abstract!Spec

----------------------------------------------------------------------------
(* Liveness.                                                                *)

\* A running producer takes its next step; a weak CAS does not fail for ever
\* when nobody interferes (in the loops that retry on the spot a spurious
\* failure changes nothing, so weak fairness says so already).  No producer
\* has to begin a push.
PushFairness(p) ==
    WF_vars(Producer(p) /\ ppc[p] # "idle") /\ SF_vars(CapClaim(p))

\* A running consumer takes its next step.
PopFairness(c) ==
    /\ WF_vars(Consumer(c) /\ cpc[c] # "idle")
    /\ SF_vars(ClaimHead(c))

\* A push returns, Ok or Full: it waits for other producers at most (for the
\* installer of its block), never for a consumer (queue.rs:494, 686-752).
PushReturns == \A p \in Producers : ppc[p] # "idle" ~> ppc[p] = "idle"

\* A pop returns, whatever the other threads are stopped at: a paused reader,
\* a half-moved head, a claimed slot that is never written (queue.rs:792-820,
\* 985-988).
PopReturns(c) == cpc[c] # "idle" ~> cpc[c] = "idle"

\* Consumers run, and pop again and again.
ConsumersRun ==
    \A c \in Consumers : WF_vars(Consumer(c)) /\ SF_vars(ClaimHead(c))

\* What has been pushed is received if the threads keep running and the
\* consumers keep popping: no value is skipped or stranded at a transition.
\* (PushLimit ends the pushes, so that draining once means no claim was left.)
QueueDrains ==
    ConsumersRun => (ItemsBetween(head, tail) > 0 ~> ItemsBetween(head, tail) = 0)
=============================================================================
