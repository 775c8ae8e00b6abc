---------------------------- MODULE QueueIndices ----------------------------
(***************************************************************************)
(* The verdicts drawn from the two indices alone (src/src/queue.rs): len   *)
(* and is_empty_seqcst load head.index and then tail.index while other     *)
(* threads move both.                                                      *)
(***************************************************************************)
EXTENDS Positions

CONSTANTS Capacity,   \* the queue's bound
          TailLimit   \* no position is claimed at this index or later (bound)

ASSUME IndicesAssumption == Capacity \in Nat \ {0} /\ TailLimit \in Nat

VARIABLES
    head, tail,  \* head.index and tail.index
    opc,         \* observer: "idle" or "tail", about to load the tail
    seenHead,    \* observer: the head it loaded
    length,      \* the result of the last call of len
    empty        \* the result of the last call of is_empty_seqcst

vars == <<head, tail, opc, seenHead, length, empty>>

Init == /\ head = 0 /\ tail = 0
        /\ opc = "idle" /\ seenHead = 0 /\ length = 0 /\ empty = TRUE

\* A producer moves the tail: over a sentinel, or with room left.
MoveTail ==
    /\ tail < TailLimit
    /\ IsSentinel(tail) \/ ItemsBetween(head, tail) < Capacity
    /\ tail' = tail + 1
    /\ UNCHANGED <<head, opc, seenHead, length, empty>>

\* A consumer moves the head: over a claimed position, or over a sentinel.
MoveHead ==
    /\ head < tail \/ (head = tail /\ IsSentinel(head))
    /\ head' = head + 1
    /\ UNCHANGED <<tail, opc, seenHead, length, empty>>

\* The first load of len and of is_empty_seqcst.
LoadHead ==
    /\ opc = "idle"
    /\ opc' = "tail"
    /\ seenHead' = head
    /\ UNCHANGED <<head, tail, length, empty>>

\* Mutant: the estimate is not cut at the capacity.
EstimateUncut(n) == n

\* The estimate of len, cut at the capacity.
Estimate(n) == IF n < Capacity THEN n ELSE Capacity

\* Mutant: only equal indices count as empty.
IsEmptyByEquality(h, t) == h = t

IsEmpty(h, t) == ItemsBetween(h, t) = 0

\* The second load and the verdicts.
LoadTail ==
    /\ opc = "tail"
    /\ opc' = "idle"
    /\ seenHead' = 0
    /\ length' = Estimate(ItemsBetween(seenHead, tail))
    /\ empty' = IsEmpty(seenHead, tail)
    /\ UNCHANGED <<head, tail>>

Next == MoveTail \/ MoveHead \/ LoadHead \/ LoadTail

Spec == Init /\ [][Next]_vars

----------------------------------------------------------------------------
\* items_between counts the value positions between two indices, whatever
\* laps they are in (queue.rs:125-133).
ItemsBetweenCounts ==
    ItemsBetween(head, tail) = Cardinality(ValuePositions(head, tail))

\* len never exceeds the capacity, and never misses a value that is in the
\* queue when the second index is loaded (queue.rs:461-469).
LengthIsSafe ==
    [][opc = "tail" /\ opc' = "idle" =>
         ItemsBetween(head, tail) <= length' /\ length' <= Capacity]_vars

\* When is_empty_seqcst says empty, the queue is empty at that moment: the
\* final verdict on a closed channel misses no claimed value.  And a queue
\* that was empty at both loads is not reported to hold one, even with the
\* head on a sentinel or one ahead of the tail (queue.rs:450-457).
EmptyIsExact ==
    [][opc = "tail" /\ opc' = "idle" =>
         /\ empty' => ItemsBetween(head, tail) = 0
         /\ (head = seenHead /\ ItemsBetween(head, tail) = 0) => empty']_vars
=============================================================================
