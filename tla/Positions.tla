----------------------------- MODULE Positions -----------------------------
(***************************************************************************)
(* Arithmetic on queue positions (src/src/queue.rs).  A position is an     *)
(* absolute index.  LAP consecutive positions form a lap, served by one    *)
(* block; the last position of a lap is the sentinel, which holds no value *)
(* and marks the transition to the next block.                             *)
(***************************************************************************)
EXTENDS Integers, FiniteSets

CONSTANT LAP  \* positions per block: 1 << LAP_SHIFT

\* LAP_SHIFT is 2 in the loom and small-block builds and 6 in every other.
ASSUME LapAssumption == LAP \in {4, 64}

\* Values per block: the sentinel takes the last position.
BLOCK_CAP == LAP - 1

\* `pos & OFFSET_MASK`, `pos >> LAP_SHIFT` and `pos & !OFFSET_MASK`.
Offset(pos)   == pos % LAP
Lap(pos)      == pos \div LAP
LapStart(pos) == pos - Offset(pos)

IsSentinel(pos) == Offset(pos) = BLOCK_CAP
IsLastSlot(pos) == Offset(pos) + 1 = BLOCK_CAP

\* Sequence tag of a slot written in lap `lap`: (lap << 2) | TAG_WRITTEN.
WrittenTag(lap) == 4 * lap + 1

\* Mutant: the sentinels are found from the length instead of the two ends.
ItemsBetweenByLength(head, tail) ==
    IF head >= tail THEN 0 ELSE (tail - head) - Lap(tail - head)

\* Number of value positions in [head, tail).  The head may be one ahead of
\* the tail: finish_block steps over a sentinel no producer has drawn yet.
ItemsBetween(head, tail) ==
    IF head >= tail
    THEN 0
    ELSE (tail - head) - (Lap(tail) - Lap(head))

----------------------------------------------------------------------------
\* Reference definitions, which the code's arithmetic is checked against.
ValuePositions(head, tail) == {i \in head..(tail - 1) : ~IsSentinel(i)}

\* The value positions below pos, counted; the value position that has n below
\* it; and the value positions of [head, tail) in order.
ValuesBelow(pos) == pos - Lap(pos)
PositionOf(n)    == n + n \div BLOCK_CAP
PositionsBetween(head, tail) ==
    [i \in 1..(ValuesBelow(tail) - ValuesBelow(head)) |->
        PositionOf(ValuesBelow(head) + i - 1)]
=============================================================================
