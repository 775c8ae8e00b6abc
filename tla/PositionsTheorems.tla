-------------------------- MODULE PositionsTheorems --------------------------
(***************************************************************************)
(* Facts about items_between, for both values LAP can have, and induction  *)
(* over the natural numbers.                                               *)
(***************************************************************************)
EXTENDS Positions, WellFoundedInduction, TLAPS

----------------------------------------------------------------------------
(* Induction, without an operator as a parameter: a set that is closed under *)
(* the step, and the least element of a set.                                 *)

\* A set of natural numbers has a least element.
LEMMA SmallestOf ==
    ASSUME NEW T, T \subseteq Nat, T # {}
    PROVE  \E n \in T : \A m \in T : n <= m
<1> DEFINE Below == {pair \in Nat \X Nat : pair[1] < pair[2]}
<1>1. IsWellFoundedOn(Below, Nat)
  BY NatLessThanWellFounded DEF OpToRel
<1>2. PICK n \in T : \A m \in T : ~(<<m, n>> \in Below)
  BY <1>1, WFMin
<1>3. ASSUME NEW m \in T PROVE n <= m
  <2>1. <<m, n>> \in Nat \X Nat /\ <<m, n>>[1] = m /\ <<m, n>>[2] = n
    OBVIOUS
  <2>2. ~(m < n)
    BY <1>2, <2>1
  <2>3. QED
    BY <2>2
<1>4. QED
  BY <1>3

\* A set that has 0, and n + 1 with n, has every natural number.
LEMMA CountUp ==
    ASSUME NEW T, 0 \in T, \A n \in Nat : n \in T => n + 1 \in T
    PROVE  Nat \subseteq T
<1> DEFINE M == Nat \ T
<1>1. SUFFICES ASSUME M # {} PROVE FALSE
  OBVIOUS
<1>2. PICK n \in M : \A m \in M : n <= m
  BY <1>1, SmallestOf
<1>3. n # 0 /\ n - 1 \in Nat
  BY <1>2
<1>4. n - 1 \in T
  BY <1>2, <1>3
<1>5. QED
  BY <1>2, <1>3, <1>4

\* A recursive function on the natural numbers: base up to k, and from there on
\* the value before it, or, after an element of A, what nx maps that to.
IsRecursive(g, k, A, base, nx) ==
    /\ g = [n \in Nat |-> g[n]]
    /\ \A n \in Nat : g[n] = IF n <= k THEN base
                             ELSE IF n - 1 \in A THEN nx[g[n - 1]] ELSE g[n - 1]

\* There is one, so that its recursive definition says what it seems to say.
LEMMA RecursionExists ==
    ASSUME NEW k \in Nat, NEW A, NEW base, NEW nx
    PROVE  \E g : IsRecursive(g, k, A, base, nx)
<1> DEFINE Val(g, n) == IF n <= k THEN base
                        ELSE IF n - 1 \in A THEN nx[g[n - 1]] ELSE g[n - 1]
           Upto(g, n) == g = [m \in 0..n |-> Val(g, m)]
<1>1. ASSUME NEW n \in Nat, NEW m \in Nat, n <= m, NEW g, NEW h, Upto(g, n), Upto(h, m)
      PROVE  \A i \in 0..n : g[i] = h[i]
  <2> DEFINE T == {i \in Nat : i <= n => g[i] = h[i]}
  <2>1. 0 \in T
    BY <1>1
  <2>2. ASSUME NEW i \in Nat, i \in T PROVE i + 1 \in T
    <3>1. SUFFICES ASSUME i + 1 <= n PROVE g[i + 1] = h[i + 1]
      OBVIOUS
    <3>2. i + 1 \in 0..n /\ i + 1 \in 0..m /\ (i + 1) - 1 = i /\ g[i] = h[i]
      BY <1>1, <2>2, <3>1
    <3>3. g[i + 1] = Val(g, i + 1) /\ h[i + 1] = Val(h, i + 1)
      BY <1>1, <3>2
    <3>4. QED
      BY <3>2, <3>3
  <2>3. Nat \subseteq T
    <3> HIDE DEF T
    <3>1. QED
      BY <2>1, <2>2, CountUp
  <2>4. QED
    BY <2>3
<1>2. \A n \in Nat : \E g : Upto(g, n)
  <2> DEFINE T == {n \in Nat : \E g : Upto(g, n)}
  <2>1. 0 \in T
    <3>1. Upto([m \in 0..0 |-> base], 0)
      OBVIOUS
    <3>2. QED
      BY <3>1
  <2>2. ASSUME NEW n \in Nat, n \in T PROVE n + 1 \in T
    <3>1. PICK g : Upto(g, n)
      BY <2>2
    <3> DEFINE h == [m \in 0..(n + 1) |-> IF m = n + 1 THEN Val(g, n + 1) ELSE g[m]]
    <3>2. \A m \in 0..(n + 1) : h[m] = Val(h, m)
      <4>1. SUFFICES ASSUME NEW m \in 0..(n + 1) PROVE h[m] = Val(h, m)
        OBVIOUS
      <4>2. m > k => m - 1 \in 0..n /\ m - 1 # n + 1 /\ h[m - 1] = g[m - 1]
        OBVIOUS
      <4>3. Val(h, m) = Val(g, m)
        BY <4>2
      <4>4. CASE m = n + 1
        BY <4>3, <4>4
      <4>5. CASE m # n + 1
        <5>1. m \in 0..n
          BY <4>5
        <5>2. g[m] = Val(g, m)
          BY <3>1, <5>1
        <5>3. QED
          BY <4>3, <4>5, <5>2
      <4>6. QED
        BY <4>4, <4>5
    <3>3. Upto(h, n + 1)
      <4> HIDE DEF Val
      <4>1. QED
        BY <3>2
    <3> HIDE DEF Upto, h
    <3>4. QED
      BY <3>3
  <2>3. Nat \subseteq T
    <3> HIDE DEF T
    <3>1. QED
      BY <2>1, <2>2, CountUp
  <2>4. QED
    BY <2>3
<1> DEFINE H(n) == CHOOSE g : Upto(g, n)
           f == [n \in Nat |-> H(n)[n]]
<1>3. \A n \in Nat : Upto(H(n), n)
  BY <1>2
<1>4. \A n \in Nat : f[n] = Val(f, n)
  <2>1. SUFFICES ASSUME NEW n \in Nat PROVE f[n] = Val(f, n)
    OBVIOUS
  <2>2. H(n)[n] = Val(H(n), n)
    <3>1. Upto(H(n), n) /\ n \in 0..n
      <4> HIDE DEF H, Upto
      <4>1. QED
        BY <1>3
    <3>2. \A g : Upto(g, n) => g[n] = Val(g, n)
      BY <3>1
    <3> HIDE DEF H
    <3>3. QED
      BY <3>1, <3>2
  <2>3. ASSUME n > k PROVE H(n)[n - 1] = f[n - 1]
    <3>1. /\ n - 1 \in Nat /\ n - 1 <= n /\ n - 1 \in 0..(n - 1)
      BY <2>3
    <3>2. Upto(H(n), n) /\ Upto(H(n - 1), n - 1)
      BY <1>3, <3>1
    <3>3. f[n - 1] = H(n - 1)[n - 1]
      BY <3>1
    <3> HIDE DEF H, f
    <3>4. H(n - 1)[n - 1] = H(n)[n - 1]
      <4> HIDE DEF Upto
      <4>1. QED
        BY <1>1, <3>1, <3>2
    <3>5. QED
      BY <3>3, <3>4
  <2>4. f[n] = H(n)[n]
    OBVIOUS
  <2> HIDE DEF H, f
  <2>5. QED
    BY <2>2, <2>3, <2>4
<1>5. f = [n \in Nat |-> f[n]]
  <2> HIDE DEF H
  <2>1. QED
    OBVIOUS
<1> HIDE DEF f
<1>6. QED
  BY <1>4, <1>5 DEF IsRecursive

----------------------------------------------------------------------------
(* Positions.                                                               *)

\* What the claimed positions below a tail are.
LEMMA BelowTail ==
    ASSUME NEW pos \in Nat, NEW t \in Nat, pos < t
    PROVE  pos \in 0..(t - 1)
OBVIOUS

\* items_between returns a natural number.
LEMMA ItemsBetweenIsNat ==
    ASSUME NEW h \in Nat, NEW t \in Nat
    PROVE  ItemsBetween(h, t) \in Nat
<1>1. CASE LAP = 4
  BY <1>1 DEF ItemsBetween, Lap
<1>2. CASE LAP = 64
  BY <1>2 DEF ItemsBetween, Lap
<1>3. QED
  BY <1>1, <1>2, LapAssumption

\* A sentinel adds nothing when the tail moves over it.
LEMMA SentinelAddsNothing ==
    ASSUME NEW h \in Nat, NEW t \in Nat, IsSentinel(t)
    PROVE  ItemsBetween(h, t + 1) = ItemsBetween(h, t)
<1>1. CASE LAP = 4
  BY <1>1 DEF ItemsBetween, Lap, IsSentinel, Offset, BLOCK_CAP
<1>2. CASE LAP = 64
  BY <1>2 DEF ItemsBetween, Lap, IsSentinel, Offset, BLOCK_CAP
<1>3. QED
  BY <1>1, <1>2, LapAssumption

\* A claim adds one value at most.
LEMMA ClaimAddsOne ==
    ASSUME NEW h \in Nat, NEW t \in Nat
    PROVE  ItemsBetween(h, t + 1) <= ItemsBetween(h, t) + 1
<1>1. CASE LAP = 4
  BY <1>1 DEF ItemsBetween, Lap
<1>2. CASE LAP = 64
  BY <1>2 DEF ItemsBetween, Lap
<1>3. QED
  BY <1>1, <1>2, LapAssumption

\* An older head counts at least as many values.
LEMMA OlderHeadCountsMore ==
    ASSUME NEW h \in Nat, NEW h2 \in Nat, NEW t \in Nat, h <= h2
    PROVE  ItemsBetween(h2, t) <= ItemsBetween(h, t)
<1>1. CASE LAP = 4
  BY <1>1 DEF ItemsBetween, Lap
<1>2. CASE LAP = 64
  BY <1>2 DEF ItemsBetween, Lap
<1>3. QED
  BY <1>1, <1>2, LapAssumption

\* A newer tail counts at least as many values.
LEMMA NewerTailCountsMore ==
    ASSUME NEW h \in Nat, NEW t \in Nat, NEW t2 \in Nat, t <= t2
    PROVE  ItemsBetween(h, t) <= ItemsBetween(h, t2)
<1>1. CASE LAP = 4
  BY <1>1 DEF ItemsBetween, Lap
<1>2. CASE LAP = 64
  BY <1>2 DEF ItemsBetween, Lap
<1>3. QED
  BY <1>1, <1>2, LapAssumption

\* The position after the last slot of a block is the sentinel of its lap.
LEMMA SentinelFollowsLastSlot ==
    ASSUME NEW pos \in Nat, IsLastSlot(pos)
    PROVE  IsSentinel(pos + 1) /\ ~IsSentinel(pos) /\ ~IsSentinel(pos + 2)
<1>1. CASE LAP = 4
  BY <1>1 DEF IsLastSlot, IsSentinel, Offset, BLOCK_CAP
<1>2. CASE LAP = 64
  BY <1>2 DEF IsLastSlot, IsSentinel, Offset, BLOCK_CAP
<1>3. QED
  BY <1>1, <1>2, LapAssumption

\* The first position of the lap of a position, and the one after a position
\* that is neither the last slot nor the sentinel of its lap.
LEMMA OffsetsAndLaps ==
    ASSUME NEW pos \in Nat
    PROVE  /\ Offset(pos) \in 0..(LAP - 1)
           /\ Lap(pos) \in Nat
           /\ LapStart(pos) \in Nat
           /\ WrittenTag(Lap(pos)) \in Nat
           /\ IsSentinel(pos + 1) <=> IsLastSlot(pos)
<1>1. CASE LAP = 4
  BY <1>1 DEF Offset, Lap, LapStart, WrittenTag, IsSentinel, IsLastSlot, BLOCK_CAP
<1>2. CASE LAP = 64
  BY <1>2 DEF Offset, Lap, LapStart, WrittenTag, IsSentinel, IsLastSlot, BLOCK_CAP
<1>3. QED
  BY <1>1, <1>2, LapAssumption

\* A position is its offset in its lap; the last slot comes two before the next
\* lap.
LEMMA PositionInLap ==
    ASSUME NEW pos \in Nat
    PROVE  /\ pos = LapStart(pos) + Offset(pos)
           /\ Offset(LapStart(pos)) = 0 /\ LapStart(LapStart(pos)) = LapStart(pos)
           /\ Offset(LapStart(pos) + LAP) = 0 /\ LapStart(pos) + LAP \in Nat
           /\ WrittenTag(Lap(pos)) # 0
           /\ ~IsSentinel(pos) => Offset(pos) \in 0..(BLOCK_CAP - 1)
           /\ IsLastSlot(pos) => /\ LapStart(pos) + LAP = pos + 2
                                /\ Offset(pos) = BLOCK_CAP - 1
<1>1. CASE LAP = 4
  BY <1>1 DEF Offset, Lap, LapStart, WrittenTag, IsSentinel, IsLastSlot, BLOCK_CAP
<1>2. CASE LAP = 64
  BY <1>2 DEF Offset, Lap, LapStart, WrittenTag, IsSentinel, IsLastSlot, BLOCK_CAP
<1>3. QED
  BY <1>1, <1>2, LapAssumption

\* A batch that fits in its lap stays there.
LEMMA StaysInLap ==
    ASSUME NEW pos \in Nat, NEW n \in Nat, Offset(pos) + n < LAP
    PROVE  /\ pos + n \in Nat /\ Offset(pos + n) = Offset(pos) + n
           /\ Lap(pos + n) = Lap(pos) /\ LapStart(pos + n) = LapStart(pos)
<1>1. CASE LAP = 4
  BY <1>1 DEF Offset, Lap, LapStart
<1>2. CASE LAP = 64
  BY <1>2 DEF Offset, Lap, LapStart
<1>3. QED
  BY <1>1, <1>2, LapAssumption

\* A tag tells the lap it was written in, and the lap and the offset tell the
\* position.
LEMMA TagTellsLap ==
    ASSUME NEW pos \in Nat, NEW qos \in Nat
    PROVE  /\ WrittenTag(Lap(pos)) = WrittenTag(Lap(qos)) <=> LapStart(pos) = LapStart(qos)
           /\ LapStart(pos) = LapStart(qos) /\ Offset(pos) = Offset(qos) => pos = qos
<1>1. CASE LAP = 4
  BY <1>1 DEF Offset, Lap, LapStart, WrittenTag, IsSentinel, IsLastSlot, BLOCK_CAP
<1>2. CASE LAP = 64
  BY <1>2 DEF Offset, Lap, LapStart, WrittenTag, IsSentinel, IsLastSlot, BLOCK_CAP
<1>3. QED
  BY <1>1, <1>2, LapAssumption

\* Two laps are a whole number of laps apart.
LEMMA LapsApart ==
    ASSUME NEW s \in Nat, NEW t \in Nat, Offset(s) = 0, Offset(t) = 0, s < t
    PROVE  s + LAP <= t
<1>1. CASE LAP = 4
  BY <1>1 DEF Offset, Lap, LapStart, WrittenTag, IsSentinel, IsLastSlot, BLOCK_CAP
<1>2. CASE LAP = 64
  BY <1>2 DEF Offset, Lap, LapStart, WrittenTag, IsSentinel, IsLastSlot, BLOCK_CAP
<1>3. QED
  BY <1>1, <1>2, LapAssumption

\* Laps follow each other in the order of their positions; the next lap begins
\* after the sentinel.
LEMMA LapsInOrder ==
    ASSUME NEW pos \in Nat, NEW qos \in Nat, pos <= qos
    PROVE  /\ LapStart(pos) <= LapStart(qos)
           /\ ~IsSentinel(pos) => LapStart(pos + 1) = LapStart(pos)
           /\ IsSentinel(pos) => LapStart(pos + 1) = pos + 1
           /\ IsSentinel(pos) /\ ~IsSentinel(qos) => pos + 1 <= LapStart(qos)
<1>1. CASE LAP = 4
  BY <1>1 DEF Offset, Lap, LapStart, WrittenTag, IsSentinel, IsLastSlot, BLOCK_CAP
<1>2. CASE LAP = 64
  BY <1>2 DEF Offset, Lap, LapStart, WrittenTag, IsSentinel, IsLastSlot, BLOCK_CAP
<1>3. QED
  BY <1>1, <1>2, LapAssumption

\* A value position is the one with as many value positions below it; a sentinel
\* is not counted.
LEMMA PlaceOfPosition ==
    ASSUME NEW pos \in Nat
    PROVE  /\ ValuesBelow(pos) \in Nat
           /\ ~IsSentinel(pos) => /\ ValuesBelow(pos + 1) = ValuesBelow(pos) + 1
                                  /\ PositionOf(ValuesBelow(pos)) = pos
           /\ IsSentinel(pos) => ValuesBelow(pos + 1) = ValuesBelow(pos)
<1>1. CASE LAP = 4
  BY <1>1 DEF ValuesBelow, PositionOf, Lap, IsSentinel, Offset, BLOCK_CAP
<1>2. CASE LAP = 64
  BY <1>2 DEF ValuesBelow, PositionOf, Lap, IsSentinel, Offset, BLOCK_CAP
<1>3. QED
  BY <1>1, <1>2, LapAssumption

\* And the other way round.
LEMMA PositionOfPlace ==
    ASSUME NEW n \in Nat
    PROVE  /\ PositionOf(n) \in Nat /\ ~IsSentinel(PositionOf(n))
           /\ ValuesBelow(PositionOf(n)) = n
<1>1. CASE LAP = 4
  BY <1>1 DEF ValuesBelow, PositionOf, Lap, IsSentinel, Offset, BLOCK_CAP
<1>2. CASE LAP = 64
  BY <1>2 DEF ValuesBelow, PositionOf, Lap, IsSentinel, Offset, BLOCK_CAP
<1>3. QED
  BY <1>1, <1>2, LapAssumption

\* A higher position has at least as many value positions below it.
LEMMA PlacesInOrder ==
    ASSUME NEW pos \in Nat, NEW qos \in Nat, pos <= qos
    PROVE  ValuesBelow(pos) <= ValuesBelow(qos)
<1>1. CASE LAP = 4
  BY <1>1 DEF ValuesBelow, Lap
<1>2. CASE LAP = 64
  BY <1>2 DEF ValuesBelow, Lap
<1>3. QED
  BY <1>1, <1>2, LapAssumption

\* items_between counts the value positions.
LEMMA ItemsBetweenArePlaces ==
    ASSUME NEW h \in Nat, NEW t \in Nat,
           h <= t \/ (h = t + 1 /\ IsSentinel(t))
    PROVE  ItemsBetween(h, t) = ValuesBelow(t) - ValuesBelow(h)
<1>1. CASE LAP = 4
  BY <1>1 DEF ItemsBetween, ValuesBelow, Lap, IsSentinel, Offset, BLOCK_CAP
<1>2. CASE LAP = 64
  BY <1>2 DEF ItemsBetween, ValuesBelow, Lap, IsSentinel, Offset, BLOCK_CAP
<1>3. QED
  BY <1>1, <1>2, LapAssumption

\* The sequence of the value positions in [h, t) has no others, and has them in
\* order.
LEMMA PlacesBetween ==
    ASSUME NEW h \in Nat, NEW t \in Nat,
           NEW i \in 1..(ValuesBelow(t) - ValuesBelow(h))
    PROVE  LET pos == PositionOf(ValuesBelow(h) + i - 1)
           IN /\ pos \in Nat /\ h <= pos /\ pos < t /\ ~IsSentinel(pos)
              /\ ValuesBelow(pos) = ValuesBelow(h) + i - 1
<1> DEFINE n   == ValuesBelow(h) + i - 1
           pos == PositionOf(n)
<1>1. /\ ValuesBelow(h) \in Nat /\ ValuesBelow(t) \in Nat /\ n \in Nat
      /\ ValuesBelow(h) <= n /\ n < ValuesBelow(t)
  BY PlaceOfPosition
<1>2. pos \in Nat /\ ~IsSentinel(pos) /\ ValuesBelow(pos) = n
  BY <1>1, PositionOfPlace
<1>3. pos < t
  <2>1. t <= pos => ValuesBelow(t) <= ValuesBelow(pos)
    BY <1>2, PlacesInOrder
  <2>2. QED
    BY <1>1, <1>2, <2>1
<1>4. h <= pos
  <2>1. ValuesBelow(pos + 1) = n + 1
    BY <1>2, PlaceOfPosition
  <2>2. pos + 1 <= h => ValuesBelow(pos + 1) <= ValuesBelow(h)
    BY <1>2, PlacesInOrder
  <2>3. QED
    BY <1>1, <1>2, <2>1, <2>2
<1>5. QED
  BY <1>2, <1>3, <1>4
=============================================================================
