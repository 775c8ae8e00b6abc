------------------------ MODULE QueueIndicesTheorems ------------------------
(***************************************************************************)
(* The verdicts of len and is_empty_seqcst, for every capacity and every   *)
(* interleaving with the threads that move the indices.                    *)
(***************************************************************************)
EXTENDS QueueIndices, PositionsTheorems, FiniteSetTheorems

\* The head an observer has loaded is an old one.
IndicesInv ==
    /\ head \in Nat /\ tail \in Nat /\ seenHead \in Nat
    /\ seenHead <= head

LEMMA IndicesInvariant == Spec => []IndicesInv
<1>1. Init => IndicesInv
  BY DEF Init, IndicesInv
<1>2. IndicesInv /\ [Next]_vars => IndicesInv'
  <2> SUFFICES ASSUME IndicesInv, [Next]_vars PROVE IndicesInv'
    OBVIOUS
  <2>1. CASE MoveTail
    BY <2>1 DEF MoveTail, IndicesInv
  <2>2. CASE MoveHead
    BY <2>2 DEF MoveHead, IndicesInv
  <2>3. CASE LoadHead
    BY <2>3 DEF LoadHead, IndicesInv
  <2>4. CASE LoadTail
    BY <2>4 DEF LoadTail, IndicesInv
  <2>5. CASE UNCHANGED vars
    BY <2>5 DEF vars, IndicesInv
  <2>6. QED
    BY <2>1, <2>2, <2>3, <2>4, <2>5 DEF Next
<1>3. QED
  BY <1>1, <1>2, PTL DEF Spec

\* Only the second load ends a call.
LEMMA VerdictStep ==
    ASSUME Next, opc = "tail", opc' = "idle"
    PROVE  LoadTail
BY DEF Next, MoveTail, MoveHead, LoadHead

\* An empty verdict is true when it is given, and an idle empty queue gets it.
THEOREM EmptyVerdict == Spec => EmptyIsExact
<1>1. ASSUME IndicesInv, [Next]_vars, opc = "tail", opc' = "idle"
      PROVE  /\ empty' => ItemsBetween(head, tail) = 0
             /\ (head = seenHead /\ ItemsBetween(head, tail) = 0) => empty'
  <2>1. LoadTail
    BY <1>1, VerdictStep DEF vars
  <2>2. empty' <=> ItemsBetween(seenHead, tail) = 0
    BY <2>1 DEF LoadTail, IsEmpty
  <2>3. /\ ItemsBetween(head, tail) <= ItemsBetween(seenHead, tail)
        /\ ItemsBetween(head, tail) \in Nat
    BY <1>1, OlderHeadCountsMore, ItemsBetweenIsNat DEF IndicesInv
  <2>4. QED
    BY <2>2, <2>3
<1>2. IndicesInv /\ [Next]_vars =>
        [opc = "tail" /\ opc' = "idle" =>
           /\ empty' => ItemsBetween(head, tail) = 0
           /\ (head = seenHead /\ ItemsBetween(head, tail) = 0) => empty']_vars
  BY <1>1
<1>3. QED
  BY <1>2, IndicesInvariant, PTL DEF Spec, EmptyIsExact

----------------------------------------------------------------------------
(* The estimate of len.                                                     *)

\* The producers' guard keeps the values between the indices within the bound.
LEMMA BoundInvariant == Spec => [](ItemsBetween(head, tail) <= Capacity)
<1> DEFINE Bound == ItemsBetween(head, tail) <= Capacity
<1>1. Init => Bound
  BY IndicesAssumption DEF Init, ItemsBetween
<1>2. IndicesInv /\ Bound /\ [Next]_vars => Bound'
  <2> SUFFICES ASSUME IndicesInv, Bound, [Next]_vars PROVE Bound'
    OBVIOUS
  <2>1. CASE MoveTail
    <3>1. CASE IsSentinel(tail)
      BY <2>1, <3>1, SentinelAddsNothing DEF MoveTail, IndicesInv
    <3>2. CASE ItemsBetween(head, tail) < Capacity
      BY <2>1, <3>2, ClaimAddsOne, ItemsBetweenIsNat, IndicesAssumption
         DEF MoveTail, IndicesInv
    <3>3. QED
      BY <2>1, <3>1, <3>2 DEF MoveTail
  <2>2. CASE MoveHead
    <3>1. head + 1 \in Nat /\ head <= head + 1
      BY DEF IndicesInv
    <3>2. ItemsBetween(head + 1, tail) <= ItemsBetween(head, tail)
      BY <3>1, OlderHeadCountsMore DEF IndicesInv
    <3>3. QED
      BY <2>2, <3>1, <3>2, ItemsBetweenIsNat, IndicesAssumption
         DEF MoveHead, IndicesInv
  <2>3. CASE LoadHead \/ LoadTail \/ UNCHANGED vars
    BY <2>3 DEF LoadHead, LoadTail, vars
  <2>4. QED
    BY <2>1, <2>2, <2>3 DEF Next
<1>3. QED
  BY <1>1, <1>2, IndicesInvariant, PTL DEF Spec

\* len misses no value that is in the queue at its second load and never reports
\* more than the capacity, although it pairs an old head with a newer tail.
THEOREM LengthVerdict == Spec => LengthIsSafe
<1>1. ASSUME IndicesInv, ItemsBetween(head, tail) <= Capacity, [Next]_vars,
             opc = "tail", opc' = "idle"
      PROVE  ItemsBetween(head, tail) <= length' /\ length' <= Capacity
  <2>1. length' = Estimate(ItemsBetween(seenHead, tail))
    BY <1>1, VerdictStep DEF LoadTail, vars
  <2>2. /\ ItemsBetween(head, tail) <= ItemsBetween(seenHead, tail)
        /\ ItemsBetween(head, tail) \in Nat /\ ItemsBetween(seenHead, tail) \in Nat
    BY <1>1, OlderHeadCountsMore, ItemsBetweenIsNat DEF IndicesInv
  <2>3. QED
    BY <1>1, <2>1, <2>2, IndicesAssumption DEF Estimate
<1>2. IndicesInv /\ ItemsBetween(head, tail) <= Capacity /\ [Next]_vars =>
        [opc = "tail" /\ opc' = "idle" =>
           ItemsBetween(head, tail) <= length' /\ length' <= Capacity]_vars
  BY <1>1
<1>3. QED
  BY <1>2, IndicesInvariant, BoundInvariant, PTL DEF Spec, LengthIsSafe

----------------------------------------------------------------------------
(* items_between counts.                                                    *)

\* A step of either index over one position.
LEMMA ItemsBetweenSteps ==
    ASSUME NEW h \in Nat, NEW t \in Nat
    PROVE  /\ h >= t => ItemsBetween(h, t) = 0
           /\ h <= t => ItemsBetween(h, t + 1) =
                          ItemsBetween(h, t) + (IF IsSentinel(t) THEN 0 ELSE 1)
           /\ h < t => ItemsBetween(h, t) =
                         ItemsBetween(h + 1, t) + (IF IsSentinel(h) THEN 0 ELSE 1)
<1>1. CASE LAP = 4
  BY <1>1 DEF ItemsBetween, Lap, IsSentinel, Offset, BLOCK_CAP
<1>2. CASE LAP = 64
  BY <1>2 DEF ItemsBetween, Lap, IsSentinel, Offset, BLOCK_CAP
<1>3. QED
  BY <1>1, <1>2, LapAssumption

\* The same steps of the set that is counted.
LEMMA ValuePositionsSteps ==
    ASSUME NEW h \in Nat, NEW t \in Nat
    PROVE  /\ IsFiniteSet(ValuePositions(h, t))
           /\ h <= t => ValuePositions(h, t + 1) =
                          IF IsSentinel(t) THEN ValuePositions(h, t)
                          ELSE ValuePositions(h, t) \cup {t}
           /\ h < t => ValuePositions(h, t) =
                         IF IsSentinel(h) THEN ValuePositions(h + 1, t)
                         ELSE ValuePositions(h + 1, t) \cup {h}
<1>1. IsFiniteSet(ValuePositions(h, t))
  <2>1. IsFiniteSet(h..(t - 1))
    BY FS_Interval
  <2>2. ValuePositions(h, t) \in SUBSET (h..(t - 1))
    BY DEF ValuePositions
  <2>3. QED
    BY <2>1, <2>2, FS_Subset
<1>2. ASSUME h <= t
      PROVE  ValuePositions(h, t + 1) =
               IF IsSentinel(t) THEN ValuePositions(h, t)
               ELSE ValuePositions(h, t) \cup {t}
  <2>1. h..((t + 1) - 1) = (h..(t - 1)) \cup {t}
    BY <1>2
  <2>2. QED
    BY <2>1 DEF ValuePositions
<1>3. ASSUME h < t
      PROVE  ValuePositions(h, t) =
               IF IsSentinel(h) THEN ValuePositions(h + 1, t)
               ELSE ValuePositions(h + 1, t) \cup {h}
  <2>1. h..(t - 1) = ((h + 1)..(t - 1)) \cup {h}
    BY <1>3
  <2>2. QED
    BY <2>1 DEF ValuePositions
<1>4. QED
  BY <1>1, <1>2, <1>3

\* The head passes the tail by one at most, over a sentinel that no producer has
\* drawn.
CountInv ==
    /\ IndicesInv
    /\ head <= tail \/ (head = tail + 1 /\ IsSentinel(tail))
    /\ ItemsBetweenCounts

LEMMA MoveTailCounts ==
    ASSUME CountInv, MoveTail
    PROVE  ItemsBetween(head, tail + 1) = Cardinality(ValuePositions(head, tail + 1))
<1>1. head \in Nat /\ tail \in Nat /\ tail + 1 \in Nat
  BY DEF CountInv, IndicesInv
<1>2. CASE head = tail + 1
  <2>1. ItemsBetween(head, tail + 1) = 0
    BY <1>1, <1>2, ItemsBetweenSteps
  <2>2. ValuePositions(head, tail + 1) = {}
    BY <1>1, <1>2 DEF ValuePositions
  <2>3. QED
    BY <2>1, <2>2, FS_EmptySet
<1>3. CASE head <= tail /\ IsSentinel(tail)
  <2>1. ItemsBetween(head, tail + 1) = ItemsBetween(head, tail)
    BY <1>1, <1>3, SentinelAddsNothing
  <2>2. ValuePositions(head, tail + 1) = ValuePositions(head, tail)
    BY <1>1, <1>3, ValuePositionsSteps
  <2>3. QED
    BY <2>1, <2>2 DEF CountInv, ItemsBetweenCounts
<1>4. CASE head <= tail /\ ~IsSentinel(tail)
  <2>1. tail \notin ValuePositions(head, tail)
    BY <1>1 DEF ValuePositions
  <2>2. Cardinality(ValuePositions(head, tail) \cup {tail})
          = Cardinality(ValuePositions(head, tail)) + 1
    BY <1>1, <2>1, ValuePositionsSteps, FS_AddElement
  <2>3. ItemsBetween(head, tail + 1) = ItemsBetween(head, tail) + 1
    BY <1>1, <1>4, ItemsBetweenSteps
  <2>4. ValuePositions(head, tail + 1) = ValuePositions(head, tail) \cup {tail}
    BY <1>1, <1>4, ValuePositionsSteps
  <2>5. QED
    BY <2>2, <2>3, <2>4 DEF CountInv, ItemsBetweenCounts
<1>5. QED
  BY <1>2, <1>3, <1>4 DEF CountInv

LEMMA MoveHeadCounts ==
    ASSUME CountInv, MoveHead
    PROVE  ItemsBetween(head + 1, tail) = Cardinality(ValuePositions(head + 1, tail))
<1>1. head \in Nat /\ tail \in Nat /\ head + 1 \in Nat
  BY DEF CountInv, IndicesInv
<1>2. CASE head = tail
  <2>1. ItemsBetween(head + 1, tail) = 0
    BY <1>1, <1>2, ItemsBetweenSteps
  <2>2. ValuePositions(head + 1, tail) = {}
    BY <1>1, <1>2 DEF ValuePositions
  <2>3. QED
    BY <2>1, <2>2, FS_EmptySet
<1>3. CASE head < tail /\ IsSentinel(head)
  <2>1. ItemsBetween(head + 1, tail) = ItemsBetween(head, tail)
    BY <1>1, <1>3, ItemsBetweenSteps, ItemsBetweenIsNat
  <2>2. ValuePositions(head + 1, tail) = ValuePositions(head, tail)
    BY <1>1, <1>3, ValuePositionsSteps
  <2>3. QED
    BY <2>1, <2>2 DEF CountInv, ItemsBetweenCounts
<1>4. CASE head < tail /\ ~IsSentinel(head)
  <2>1. /\ IsFiniteSet(ValuePositions(head + 1, tail))
        /\ head \notin ValuePositions(head + 1, tail)
    <3>1. IsFiniteSet(ValuePositions(head + 1, tail))
      BY <1>1, ValuePositionsSteps
    <3>2. head \notin ValuePositions(head + 1, tail)
      BY <1>1 DEF ValuePositions
    <3>3. QED
      BY <3>1, <3>2
  <2>2. /\ Cardinality(ValuePositions(head + 1, tail) \cup {head})
             = Cardinality(ValuePositions(head + 1, tail)) + 1
        /\ Cardinality(ValuePositions(head + 1, tail)) \in Nat
    BY <2>1, FS_AddElement, FS_CardinalityType
  <2>3. ItemsBetween(head, tail) = ItemsBetween(head + 1, tail) + 1
    BY <1>1, <1>4, ItemsBetweenSteps
  <2>4. ValuePositions(head, tail) = ValuePositions(head + 1, tail) \cup {head}
    BY <1>1, <1>4, ValuePositionsSteps
  <2>5. ItemsBetween(head + 1, tail) \in Nat
    BY <1>1, ItemsBetweenIsNat
  <2>6. ItemsBetween(head + 1, tail) + 1 = Cardinality(ValuePositions(head + 1, tail)) + 1
    BY <2>2, <2>3, <2>4 DEF CountInv, ItemsBetweenCounts
  <2>7. QED
    BY <2>2, <2>5, <2>6
<1>5. QED
  BY <1>1, <1>2, <1>3, <1>4 DEF MoveHead

\* items_between is the number of values between the indices, whatever laps they
\* are in and also when the head is one ahead of the tail.
THEOREM CountIsExact == Spec => []ItemsBetweenCounts
<1>1. Init => CountInv
  <2>1. ItemsBetween(0, 0) = 0 /\ ValuePositions(0, 0) = {}
    BY DEF ItemsBetween, ValuePositions
  <2>2. QED
    BY <2>1, FS_EmptySet DEF Init, CountInv, IndicesInv, ItemsBetweenCounts
<1>2. CountInv /\ IndicesInv' /\ [Next]_vars => CountInv'
  <2> SUFFICES ASSUME CountInv, IndicesInv', [Next]_vars PROVE CountInv'
    OBVIOUS
  <2>1. CASE MoveTail
    <3>1. head <= tail + 1
      BY DEF CountInv, IndicesInv
    <3>2. QED
      BY <2>1, <3>1, MoveTailCounts DEF MoveTail, CountInv, ItemsBetweenCounts
  <2>2. CASE MoveHead
    <3>1. head + 1 <= tail \/ (head + 1 = tail + 1 /\ IsSentinel(tail))
      BY <2>2 DEF MoveHead, CountInv, IndicesInv
    <3>2. QED
      BY <2>2, <3>1, MoveHeadCounts DEF MoveHead, CountInv, ItemsBetweenCounts
  <2>3. CASE LoadHead \/ LoadTail \/ UNCHANGED vars
    BY <2>3 DEF LoadHead, LoadTail, vars, CountInv, ItemsBetweenCounts
  <2>4. QED
    BY <2>1, <2>2, <2>3 DEF Next
<1>3. CountInv => ItemsBetweenCounts
  BY DEF CountInv
<1>4. QED
  BY <1>1, <1>2, <1>3, IndicesInvariant, PTL DEF Spec
=============================================================================
