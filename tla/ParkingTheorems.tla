--------------------------- MODULE ParkingTheorems ---------------------------
(***************************************************************************)
(* The memory ordering of the sleep/wake hand-off (ParkingOrder), for any  *)
(* number of threads: every waiter that had parked is counted, and no poll *)
(* leaves an entry behind.                                                 *)
(***************************************************************************)
EXTENDS ParkingOrder, WaiterListTheorems

USE ParkingAssumption DEF Threads

\* Nothing else is needed of a state in which the count is what it should be.
LEMMA CountOfList ==
    ASSUME ParkingInv, lock = Nobody
    PROVE  /\ Last(count) = count[Len(count)]
           /\ Count = Len(list) /\ Count = Cardinality(ToSet(list))
<1>1. count \in Seq(Nat) /\ lockView \in 1..Len(count)
  BY DEF ParkingInv, TypeOK
<1>2. Last(count) = count[Len(count)]
  BY DEF Last
<1>3. Count = Len(list)
  BY DEF ParkingInv, TypeOK, CountIsLength
<1>4. Cardinality(ToSet(list)) = Len(list)
  BY CountedEntries DEF ParkingInv, NoStaleEntry
<1>5. QED
  BY <1>2, <1>3, <1>4

LEMMA EntriesAreContained ==
    ASSUME NEW S, NEW l \in Seq(S)
    PROVE  \A e : Contains(l, e) <=> e \in ToSet(l)
BY DEF Contains, ToSet

LEMMA RegisteredAreEntries ==
    ASSUME ParkingInv, NEW i
    PROVE  /\ IsFiniteSet(ToSet(list)) /\ IsFiniteSet(RegisteredBy(i))
           /\ Cardinality(RegisteredBy(i)) \in Nat
           /\ Cardinality(RegisteredBy(i)) <= Cardinality(ToSet(list))
<1>1. IsFiniteSet(ToSet(list))
  BY FiniteEntries DEF ParkingInv
<1>2. RegisteredBy(i) \subseteq ToSet(list)
  BY DEF RegisteredBy
<1>3. QED
  BY <1>1, <1>2, FS_Subset, FS_CardinalityType

----------------------------------------------------------------------------
(* The invariant holds initially and every step keeps it.                   *)

LEMMA InitParks == Init => ParkingInv
<1> SUFFICES ASSUME Init PROVE ParkingInv
  OBVIOUS
<1>1. count \in Seq(Nat) /\ Len(count) = 1 /\ count[1] = 0 /\ Last(count) = 0
  BY DEF Init, Last
<1>2. list \in Seq(Sleepers) /\ IsInjective(list) /\ ToSet(list) = {} /\ Len(list) = 0
  BY EmptyList DEF Init
<1>3. TypeOK
  BY <1>1, <1>2 DEF TypeOK, Init, CountIsLength, Count
<1>4. NoStaleEntry
  <2>1. \A s : ~Contains(list, s)
    BY <1>2 DEF Contains
  <2>2. QED
    BY <1>2, <2>1 DEF NoStaleEntry
<1>5. CountInv
  <2>1. \A i : RegisteredBy(i) = {}
    BY <1>2 DEF RegisteredBy
  <2>2. \A i : Cardinality(RegisteredBy(i)) = 0
    BY <2>1, FS_EmptySet
  <2>3. QED
    BY <1>1, <2>2 DEF CountInv
<1>6. ViewInv
  BY <1>2 DEF ViewInv, Init
<1>7. LockInv
  BY DEF LockInv, Init
<1>8. ForwardInv
  BY DEF ForwardInv, Init
<1>9. QED
  BY <1>2, <1>3, <1>4, <1>5, <1>6, <1>7, <1>8 DEF ParkingInv, Init, Places

\* A section under the lock that changes the list.  Only its own thread may
\* be new in it, and the new count is its length.
LEMMA SectionParks ==
    ASSUME ParkingInv, NEW t \in Sleepers \cup Movers,
           NEW newList \in Seq(Sleepers), NEW newCount,
           Section(t, newList, newCount),
           IsInjective(newList), newCount = Len(newList),
           ToSet(newList) \subseteq ToSet(list) \cup {t},
           NEW from, NEW to \in Places \ {"drain"}, Go(t, from, to),
           from # "drain",
           to = "parking" => from = "idle",
           t \in Sleepers /\ to # "parking" => t \notin ToSet(newList),
           loaded' \in [Movers -> Nat]
    PROVE  ParkingInv'
<1> DEFINE n == Len(count)
<1>1. /\ count \in Seq(Nat) /\ n \in Nat \ {0}
      /\ lockView \in 1..n /\ indexView \in 1..n /\ view \in [Threads -> 1..n]
  BY DEF ParkingInv, TypeOK
<1>2. \A i \in 1..n : count[i] \in Nat
  BY <1>1
<1>3. /\ list' = newList /\ count' = Append(count, newCount)
      /\ view' = [view EXCEPT ![t] = n + 1] /\ lockView' = n + 1
      /\ known' = [m \in Movers |-> known[m] \cap ToSet(newList)]
      /\ lock = Nobody /\ lock' = Nobody /\ indexView' = indexView
      /\ newCount \in Nat
  BY <1>1 DEF Section
<1>4. /\ count' \in Seq(Nat) /\ Len(count') = n + 1
      /\ \A i \in 1..n : count'[i] = count[i]
      /\ count'[n + 1] = newCount
      /\ Last(count') = newCount
  BY <1>1, <1>3 DEF Last
<1>5. /\ view' \in [Threads -> 1..(n + 1)] /\ view'[t] = n + 1
      /\ \A u \in Threads \ {t} : view'[u] = view[u]
  <2>1. view \in [Threads -> 1..(n + 1)] /\ n + 1 \in 1..(n + 1) /\ t \in Threads
    BY <1>1
  <2>2. QED
    BY <2>1, <1>3
<1>6. /\ pc[t] = from /\ pc'[t] = to /\ pc' \in [Threads -> Places]
      /\ \A u \in Threads \ {t} : pc'[u] = pc[u]
  BY DEF ParkingInv, Go
<1> HIDE DEF n
<1>7. TypeOK'
  BY <1>1, <1>3, <1>4, <1>5 DEF TypeOK, CountIsLength, Count
<1>8. NoStaleEntry'
  <2>1. ASSUME NEW s \in Sleepers, pc'[s] = "idle" PROVE s \notin ToSet(newList)
    <3>1. CASE s = t
      BY <3>1, <2>1, <1>6
    <3>2. CASE s # t
      <4>1. pc[s] = "idle"
        BY <3>2, <2>1, <1>6
      <4>2. ~Contains(list, s)
        BY <4>1, <1>3 DEF ParkingInv, NoStaleEntry
      <4>3. QED
        BY <4>2, <3>2 DEF Contains, ToSet
    <3>3. QED
      BY <3>1, <3>2
  <2>2. \A s : ~Contains(newList, s) <=> s \notin ToSet(newList)
    BY EntriesAreContained
  <2>3. QED
    BY <2>1, <2>2, <1>3 DEF NoStaleEntry
<1>9. CountInv'
  <2>1. SUFFICES ASSUME NEW i \in 1..(n + 1)
                 PROVE  count'[i] >= Cardinality(RegisteredBy(i)')
    BY <1>4 DEF CountInv
  <2>2. CASE i = n + 1
    <3>1. RegisteredBy(i)' \subseteq ToSet(newList)
      BY <1>3 DEF RegisteredBy
    <3>2. IsFiniteSet(ToSet(newList)) /\ Cardinality(ToSet(newList)) = newCount
      BY FiniteEntries, CountedEntries
    <3>3. QED
      BY <2>2, <3>1, <3>2, <1>3, <1>4, FS_Subset, FS_CardinalityType
  <2>3. CASE i \in 1..n
    <3>1. RegisteredBy(i)' \subseteq RegisteredBy(i)
      <4>1. ASSUME NEW s \in ToSet(newList), view'[s] <= i
            PROVE  s \in ToSet(list) /\ view[s] <= i
        <5>1. s \in Sleepers
          BY SomeEntry
        <5>2. s # t
          BY <4>1, <2>3, <1>1, <1>5
        <5>3. QED
          BY <5>1, <5>2, <4>1, <1>5
      <4>2. QED
        BY <4>1, <1>3 DEF RegisteredBy
    <3>2. count[i] >= Cardinality(RegisteredBy(i))
      BY <2>3, <1>3 DEF ParkingInv, CountInv, n
    <3>3. /\ IsFiniteSet(RegisteredBy(i))
          /\ Cardinality(RegisteredBy(i)') <= Cardinality(RegisteredBy(i))
      BY <3>1, RegisteredAreEntries, FS_Subset
    <3>4. IsFiniteSet(RegisteredBy(i)')
      BY <3>1, <3>3, FS_Subset
    <3>5. /\ Cardinality(RegisteredBy(i)) \in Nat
          /\ Cardinality(RegisteredBy(i)') \in Nat
      BY <3>3, <3>4, FS_CardinalityType
    <3>6. count'[i] = count[i] /\ count[i] \in Nat
      BY <2>3, <1>2, <1>4
    <3>7. QED
      BY <3>2, <3>3, <3>5, <3>6
  <2>4. QED
    BY <2>1, <2>2, <2>3, <1>1
<1>10. ViewInv'
  <2>1. ASSUME NEW s \in ToSet(newList), pc'[s] \notin {"idle", "parking"}
        PROVE  view'[s] <= indexView'
    <3>1. s \in Sleepers
      BY SomeEntry
    <3>2. s # t
      BY <3>1, <2>1, <1>6
    <3>3. s \in ToSet(list) /\ pc[s] \notin {"idle", "parking"}
      BY <3>1, <3>2, <2>1, <1>6
    <3>4. view[s] <= indexView
      BY <3>3 DEF ParkingInv, ViewInv
    <3>5. QED
      BY <3>1, <3>2, <3>4, <1>3, <1>5
  <2>2. ASSUME NEW m \in Movers, NEW s \in known'[m]
        PROVE  s \in ToSet(newList) /\ pc'[s] # "parking" /\ view'[s] <= view'[m]
    <3>1. s \in known[m] /\ s \in ToSet(newList) /\ s \in Sleepers
      BY <1>3, SomeEntry
    <3>2. s \in ToSet(list) /\ pc[s] # "parking" /\ view[s] <= view[m]
      BY <3>1 DEF ParkingInv, ViewInv
    <3>3. s # t
      <4>1. CASE s = t
        <5>1. to = "parking" /\ pc[s] = "idle"
          BY <4>1, <3>1, <1>6
        <5>2. ~Contains(list, s)
          BY <5>1, <3>1, <1>3 DEF ParkingInv, NoStaleEntry
        <5>3. QED
          BY <5>2, <3>2 DEF Contains, ToSet
      <4>2. QED
        BY <4>1
    <3>4. view[m] <= view'[m]
      <4>1. view[m] \in 1..n /\ (m = t \/ m \in Threads \ {t})
        BY <1>1
      <4>2. CASE m = t
        BY <4>1, <4>2, <1>1, <1>5
      <4>3. CASE m # t
        BY <4>1, <4>3, <1>5
      <4>4. QED
        BY <4>2, <4>3
    <3>5. view'[s] = view[s] /\ pc'[s] = pc[s]
      BY <3>1, <3>3, <1>5, <1>6
    <3>6. view[s] \in Nat /\ view[m] \in Nat /\ view'[m] \in Nat
      BY <3>1, <1>1, <1>5
    <3>7. QED
      BY <3>1, <3>2, <3>4, <3>5, <3>6
  <2>3. QED
    BY <2>1, <2>2, <1>3 DEF ViewInv
<1>11. LockInv'
  <2>1. pc'[Closer] = pc[Closer]
    BY <1>6
  <2>2. pc[Closer] # "drain"
    BY <1>3 DEF ParkingInv, LockInv
  <2>3. QED
    BY <2>1, <2>2, <1>3 DEF LockInv
<1>12. ForwardInv'
  <2>1. ASSUME NEW s \in Sleepers, pc'[s] = "notify" PROVE s \notin ToSet(newList)
    <3>1. CASE s = t
      BY <3>1, <2>1, <1>6
    <3>2. CASE s # t
      BY <3>2, <2>1, <1>3, <1>6 DEF ParkingInv, ForwardInv
    <3>3. QED
      BY <3>1, <3>2
  <2>2. QED
    BY <2>1, <1>3 DEF ForwardInv
<1>13. known' \in [Movers -> SUBSET Sleepers]
  BY <1>3, SomeEntry DEF ParkingInv
<1>14. list' \in Seq(Sleepers)
  BY <1>3
<1>15. QED
  BY <1>6, <1>7, <1>8, <1>9, <1>10, <1>11, <1>12, <1>13, <1>14 DEF ParkingInv

\* A section that finds nothing to change: the thread is in no list.
LEMMA LookOnlyParks ==
    ASSUME ParkingInv, NEW t \in Sleepers \cup Movers, LookOnly(t),
           t \notin ToSet(list),
           NEW from, NEW to \in Places \ {"drain", "parking"}, Go(t, from, to),
           loaded' \in [Movers -> Nat]
    PROVE  ParkingInv'
<1> DEFINE n == Len(count)
<1>1. /\ count \in Seq(Nat) /\ n \in Nat \ {0}
      /\ lockView \in 1..n /\ indexView \in 1..n /\ view \in [Threads -> 1..n]
  BY DEF ParkingInv, TypeOK
<1>2. /\ list' = list /\ count' = count /\ lock = Nobody /\ lock' = Nobody
      /\ indexView' = indexView /\ known' = known /\ lockView' = view'[t]
      /\ list \in Seq(Sleepers)
  BY DEF LookOnly, ParkingInv
<1>3. /\ view' \in [Threads -> 1..n] /\ view'[t] \in 1..n
      /\ \A u \in Threads : view[u] <= view'[u]
      /\ \A u \in Threads \ {t} : view'[u] = view[u]
  BY <1>1 DEF LookOnly, Join
<1>4. /\ pc'[t] = to /\ pc' \in [Threads -> Places]
      /\ \A u \in Threads \ {t} : pc'[u] = pc[u]
  BY DEF ParkingInv, Go
<1> HIDE DEF n
<1>5. \A s \in ToSet(list) : s \in Sleepers /\ s \in Threads \ {t}
  BY <1>2, SomeEntry
<1>6. TypeOK'
  BY <1>1, <1>2, <1>3 DEF TypeOK, CountIsLength, Count, ParkingInv, n
<1>7. NoStaleEntry'
  <2>1. ASSUME NEW s \in Sleepers, pc'[s] = "idle" PROVE ~Contains(list, s)
    <3>1. CASE s = t
      BY <3>1, <1>2, EntriesAreContained
    <3>2. CASE s # t
      BY <3>2, <2>1, <1>2, <1>4 DEF ParkingInv, NoStaleEntry
    <3>3. QED
      BY <3>1, <3>2
  <2>2. IsInjective(list)
    BY DEF ParkingInv, NoStaleEntry
  <2>3. QED
    BY <2>1, <2>2, <1>2 DEF NoStaleEntry
<1>8. CountInv'
  <2>1. \A i : RegisteredBy(i)' = RegisteredBy(i)
    BY <1>2, <1>3, <1>5 DEF RegisteredBy
  <2>2. QED
    BY <2>1, <1>2 DEF CountInv, ParkingInv
<1>9. ViewInv'
  <2>1. ASSUME NEW s \in ToSet(list), pc'[s] \notin {"idle", "parking"}
        PROVE  view'[s] <= indexView
    BY <2>1, <1>3, <1>4, <1>5 DEF ParkingInv, ViewInv
  <2>2. ASSUME NEW m \in Movers, NEW s \in known[m]
        PROVE  s \in ToSet(list) /\ pc'[s] # "parking" /\ view'[s] <= view'[m]
    <3>1. s \in ToSet(list) /\ pc[s] # "parking" /\ view[s] <= view[m]
      BY DEF ParkingInv, ViewInv
    <3>2. view'[s] = view[s] /\ pc'[s] = pc[s] /\ view[m] <= view'[m]
      BY <3>1, <1>3, <1>4, <1>5
    <3>3. view[s] \in Nat /\ view[m] \in Nat /\ view'[m] \in Nat
      BY <3>1, <1>1, <1>3, <1>5
    <3>4. QED
      BY <3>1, <3>2, <3>3
  <2>3. QED
    BY <2>1, <2>2, <1>2 DEF ViewInv
<1>10. LockInv'
  <2>1. pc'[Closer] = pc[Closer]
    BY <1>4
  <2>2. QED
    BY <2>1, <1>2 DEF ParkingInv, LockInv
<1>11. ForwardInv'
  <2>1. ASSUME NEW s \in Sleepers, pc'[s] = "notify" PROVE s \notin ToSet(list)
    <3>1. CASE s = t
      BY <3>1
    <3>2. CASE s # t
      BY <3>2, <2>1, <1>2, <1>4 DEF ParkingInv, ForwardInv
    <3>3. QED
      BY <3>1, <3>2
  <2>2. QED
    BY <2>1, <1>2 DEF ForwardInv
<1>12. QED
  BY <1>2, <1>4, <1>6, <1>7, <1>8, <1>9, <1>10, <1>11 DEF ParkingInv

\* A step of one thread that touches neither list nor count: views only grow.
LEMMA ViewParks ==
    ASSUME ParkingInv, NEW t \in Sleepers \cup Movers,
           UNCHANGED <<count, list, lock, lockView>>,
           NEW from, NEW to \in Places \ {"drain", "parking"}, Go(t, from, to),
           view' \in [Threads -> 1..Len(count)],
           \A u \in Threads : view[u] <= view'[u],
           \A u \in Threads \ {t} : view'[u] = view[u],
           indexView' \in 1..Len(count), indexView <= indexView',
           loaded' \in [Movers -> Nat],
           known' \in [Movers -> SUBSET Sleepers],
           lock = Nobody /\ t \in Sleepers /\ to \in {"idle", "notify"}
              => t \notin ToSet(list),
           t \in ToSet(list) /\ to # "idle" => view'[t] <= indexView',
           \A m \in Movers : known'[m] \subseteq known[m]
              \/ /\ m = t /\ lock = Nobody
                 /\ \A s \in known'[m] :
                      /\ s \in ToSet(list) /\ pc[s] # "parking"
                      /\ view[s] <= view'[m],
           \/ view' = view \/ lock # Nobody \/ t \notin ToSet(list)
           \/ \A m \in Movers : t \notin known[m]
    PROVE  ParkingInv'
<1> DEFINE n == Len(count)
<1>1. TypeOK /\ list \in Seq(Sleepers)
  BY DEF ParkingInv
<1>2. count \in Seq(Nat) /\ n \in Nat
  BY <1>1 DEF TypeOK
<1>3. \A i \in 1..n : count[i] \in Nat
  BY <1>2
<1>4. /\ count \in Seq(Nat) /\ n \in Nat \ {0} /\ list \in Seq(Sleepers)
      /\ lockView \in 1..n /\ indexView \in 1..n /\ view \in [Threads -> 1..n]
  BY <1>1, <1>2 DEF TypeOK
<1>5. \A u \in Threads : view[u] \in 1..n /\ view'[u] \in 1..n
  BY <1>4
<1>6. list' = list /\ count' = count /\ lock = lock' /\ lockView' = lockView
  OBVIOUS
<1>7. /\ pc[t] = from /\ pc'[t] = to /\ pc' \in [Threads -> Places]
      /\ \A u \in Threads \ {t} : pc'[u] = pc[u]
  BY DEF ParkingInv, Go
<1>8. \A s \in ToSet(list) : s \in Sleepers /\ s \in Threads
  BY <1>4, SomeEntry
<1>9. TypeOK'
  <2>1. CountIsLength'
    BY <1>6 DEF CountIsLength, Count, ParkingInv, TypeOK
  <2>2. QED
    BY <2>1, <1>4, <1>6 DEF TypeOK
<1> HIDE DEF n
<1>10. NoStaleEntry'
  <2>1. ASSUME lock = Nobody, NEW s \in Sleepers, pc'[s] = "idle"
        PROVE  ~Contains(list, s)
    <3>1. CASE s = t
      BY <3>1, <2>1, <1>4, <1>7, EntriesAreContained
    <3>2. CASE s # t
      BY <3>2, <2>1, <1>7 DEF ParkingInv, NoStaleEntry
    <3>3. QED
      BY <3>1, <3>2
  <2>2. IsInjective(list)
    BY DEF ParkingInv, NoStaleEntry
  <2>3. QED
    BY <2>1, <2>2, <1>6 DEF NoStaleEntry
<1>11. CountInv'
  <2>1. ASSUME lock = Nobody, NEW i \in 1..n
        PROVE  count[i] >= Cardinality(RegisteredBy(i)')
    <3>1. RegisteredBy(i)' \subseteq RegisteredBy(i)
      <4>1. ASSUME NEW s \in ToSet(list), view'[s] <= i PROVE view[s] <= i
        <5>1. view[s] \in 1..n /\ view'[s] \in 1..n /\ view[s] <= view'[s]
          BY <1>4, <1>8 DEF n
        <5>2. QED
          BY <5>1, <4>1
      <4>2. QED
        BY <4>1, <1>6 DEF RegisteredBy
    <3>2. count[i] >= Cardinality(RegisteredBy(i))
      BY <2>1 DEF ParkingInv, CountInv, n
    <3>3. /\ IsFiniteSet(RegisteredBy(i))
          /\ Cardinality(RegisteredBy(i)') <= Cardinality(RegisteredBy(i))
      BY <3>1, RegisteredAreEntries, FS_Subset
    <3>4. IsFiniteSet(RegisteredBy(i)')
      BY <3>1, <3>3, FS_Subset
    <3>5. /\ Cardinality(RegisteredBy(i)) \in Nat
          /\ Cardinality(RegisteredBy(i)') \in Nat
      BY <3>3, <3>4, FS_CardinalityType
    <3>6. QED
      BY <1>3, <3>2, <3>3, <3>5
  <2>2. QED
    BY <2>1, <1>6 DEF CountInv, n
<1>12. ViewInv'
  <2>1. ASSUME NEW s \in ToSet(list), pc'[s] \notin {"idle", "parking"}
        PROVE  view'[s] <= indexView'
    <3>1. CASE s = t
      BY <3>1, <2>1, <1>7
    <3>2. CASE s # t
      <4>1. view'[s] = view[s] /\ pc'[s] = pc[s]
        BY <3>2, <1>7, <1>8
      <4>2. view[s] <= indexView
        BY <4>1, <2>1 DEF ParkingInv, ViewInv
      <4>3. view[s] \in Nat /\ indexView \in Nat /\ indexView' \in Nat
        BY <1>4, <1>8
      <4>4. QED
        BY <4>1, <4>2, <4>3
    <3>3. QED
      BY <3>1, <3>2
  <2>2. ASSUME NEW m \in Movers, NEW s \in known'[m]
        PROVE  s \in ToSet(list) /\ pc'[s] # "parking" /\ view'[s] <= view'[m]
    <3>1. CASE s \in known[m]
      <4>1. s \in ToSet(list) /\ pc[s] # "parking" /\ view[s] <= view[m]
        BY <3>1 DEF ParkingInv, ViewInv
      <4>2. lock = Nobody
        BY <3>1 DEF ParkingInv, LockInv
      <4>3. view'[s] = view[s]
        BY <3>1, <4>1, <4>2, <1>8
      <4>4. pc'[s] # "parking" /\ view[m] <= view'[m]
        BY <4>1, <1>7, <1>8
      <4>5. view[s] \in Nat /\ view[m] \in Nat /\ view'[m] \in Nat
        <5>1. s \in Threads /\ m \in Threads
          BY <4>1, <1>8
        <5>2. \A k \in 1..n : k \in Nat
          BY <1>2
        <5>3. QED
          BY <5>1, <5>2, <1>5
      <4>6. QED
        BY <4>1, <4>3, <4>4, <4>5
    <3>2. CASE s \notin known[m]
      <4>1. m = t /\ s \in ToSet(list) /\ pc[s] # "parking" /\ view[s] <= view'[m]
        BY <3>2
      <4>2. s \in Threads \ {t}
        BY <4>1, <1>8
      <4>3. QED
        BY <4>1, <4>2, <1>7
    <3>3. QED
      BY <3>1, <3>2
  <2>3. QED
    BY <2>1, <2>2, <1>6 DEF ViewInv
<1>13. LockInv'
  <2>1. pc'[Closer] = pc[Closer]
    BY <1>7
  <2>2. lock \in {Nobody, Closer} /\ Closer # Nobody
    BY DEF ParkingInv, LockInv
  <2>3. lock = Closer => \A m \in Movers : known'[m] = {}
    BY <2>2 DEF ParkingInv, LockInv
  <2>4. QED
    BY <2>1, <2>3, <1>6 DEF ParkingInv, LockInv, Count
<1>14. ForwardInv'
  <2>1. ASSUME lock = Nobody, NEW s \in Sleepers, pc'[s] = "notify"
        PROVE  s \notin ToSet(list)
    <3>1. CASE s = t
      BY <3>1, <2>1, <1>7
    <3>2. CASE s # t
      BY <3>2, <2>1, <1>7 DEF ParkingInv, ForwardInv
    <3>3. QED
      BY <3>1, <3>2
  <2>2. QED
    BY <2>1, <1>6 DEF ForwardInv
<1>15. QED
  BY <1>4, <1>6, <1>7, <1>9, <1>10, <1>11, <1>12, <1>13, <1>14 DEF ParkingInv

LEMMA RegisterParks ==
    ASSUME ParkingInv, NEW s \in Sleepers, Register(s)
    PROVE  ParkingInv'
<1>1. /\ Go(s, "idle", "parking") /\ loaded' = loaded /\ lock = Nobody
      /\ Section(s, Append(list, s), Count + 1)
  BY DEF Register, Section
<1>2. list \in Seq(Sleepers) /\ IsInjective(list) /\ s \notin ToSet(list)
  <2>1. list \in Seq(Sleepers) /\ IsInjective(list) /\ ~Contains(list, s)
    BY <1>1 DEF ParkingInv, NoStaleEntry, Go
  <2>2. QED
    BY <2>1, EntriesAreContained
<1>3. /\ Append(list, s) \in Seq(Sleepers) /\ IsInjective(Append(list, s))
      /\ ToSet(Append(list, s)) = ToSet(list) \cup {s}
  BY <1>2, AddedEntry
<1>4. Len(Append(list, s)) = Count + 1
  BY <1>1, <1>2, CountOfList
<1>5. loaded' \in [Movers -> Nat]
  BY <1>1 DEF ParkingInv
<1>6. "parking" \in Places \ {"drain"}
  BY DEF Places
<1>7. QED
  BY <1>1, <1>3, <1>4, <1>5, <1>6, SectionParks

LEMMA Remove1Parks ==
    ASSUME ParkingInv, NEW s \in Sleepers, NEW from, NEW to \in {"idle"},
           from # "drain", Remove1(s, from, to)
    PROVE  ParkingInv'
<1> DEFINE rest == RemoveFirst(list, s)
<1>1. /\ Go(s, from, to) /\ loaded' = loaded /\ lock = Nobody
      /\ Section(s, rest, Count - 1) /\ Contains(list, s)
  BY DEF Remove1, Section
<1>2. list \in Seq(Sleepers) /\ IsInjective(list) /\ s \in ToSet(list)
  <2>1. list \in Seq(Sleepers) /\ IsInjective(list) /\ Contains(list, s)
    BY <1>1 DEF ParkingInv, NoStaleEntry
  <2>2. QED
    BY <2>1, EntriesAreContained
<1>3. /\ rest \in Seq(Sleepers) /\ IsInjective(rest)
      /\ ToSet(rest) = ToSet(list) \ {s}
  BY <1>2, RemovedEntry
<1> HIDE DEF rest
<1>4. Len(rest) = Count - 1
  <2>1. Cardinality(ToSet(rest)) = Len(rest)
    BY <1>3, CountedEntries
  <2>2. IsFiniteSet(ToSet(list)) /\ Count = Cardinality(ToSet(list))
    BY <1>1, <1>2, FiniteEntries, CountOfList
  <2>3. Cardinality(ToSet(list) \ {s}) = Cardinality(ToSet(list)) - 1
    BY <1>2, <2>2, FS_RemoveElement
  <2>4. QED
    BY <1>3, <2>1, <2>2, <2>3
<1>5. loaded' \in [Movers -> Nat]
  BY <1>1 DEF ParkingInv
<1>6. to \in Places \ {"drain"} /\ to # "parking"
  BY DEF Places
<1>7. ToSet(rest) \subseteq ToSet(list) \cup {s} /\ s \notin ToSet(rest)
  BY <1>3
<1>8. QED
  BY <1>1, <1>3, <1>4, <1>5, <1>6, <1>7, SectionParks

LEMMA NotifyParks ==
    ASSUME ParkingInv, NEW t \in Sleepers \cup Movers, NEW limit \in Nat,
           NEW from, NEW to \in {"idle"}, from # "drain",
           Notify(t, limit, from, to), t \notin ToSet(list),
           loaded' \in [Movers -> Nat]
    PROVE  ParkingInv'
<1>1. Go(t, from, to) /\ to \in Places \ {"drain", "parking"}
  BY DEF Notify, Places
<1>2. CASE list = <<>>
  <2>1. LookOnly(t)
    BY <1>2 DEF Notify
  <2>2. QED
    BY <1>1, <2>1, LookOnlyParks
<1>3. CASE list # <<>>
  <2> DEFINE n == IF Len(list) < limit THEN Len(list) ELSE limit
             rest == SubSeq(list, n + 1, Len(list))
  <2>1. Section(t, rest, Count - n) /\ lock = Nobody
    BY <1>3 DEF Notify, Section
  <2>2. list \in Seq(Sleepers) /\ IsInjective(list) /\ n \in 0..Len(list)
    BY DEF ParkingInv, NoStaleEntry
  <2> HIDE DEF n
  <2>3. /\ rest \in Seq(Sleepers) /\ IsInjective(rest)
        /\ Len(rest) = Len(list) - n /\ ToSet(rest) \subseteq ToSet(list)
    BY <2>2, CutEntries
  <2> HIDE DEF rest
  <2>4. Len(rest) = Count - n
    BY <2>1, <2>3, CountOfList
  <2>5. ToSet(rest) \subseteq ToSet(list) \cup {t} /\ t \notin ToSet(rest)
    BY <2>3
  <2>6. QED
    BY <1>1, <2>1, <2>3, <2>4, <2>5, SectionParks
<1>4. QED
  BY <1>2, <1>3

\* The entry of a task that reads zero without the lock is gone: otherwise
\* the message it reads would count it.
LEMMA ZeroIsNotStale ==
    ASSUME ParkingInv, lock = Nobody, NEW s \in Sleepers,
           NEW i \in view[s]..Len(count), count[i] = 0
    PROVE  s \notin ToSet(list)
<1> SUFFICES ASSUME s \in ToSet(list) PROVE FALSE
  OBVIOUS
<1>1. view[s] \in 1..Len(count) /\ Len(count) \in Nat
  BY DEF ParkingInv, TypeOK
<1>2. i \in 1..Len(count) /\ view[s] <= i
  BY <1>1
<1>3. s \in RegisteredBy(i)
  BY <1>2 DEF RegisteredBy
<1>4. 0 >= Cardinality(RegisteredBy(i))
  BY <1>2 DEF ParkingInv, CountInv
<1>5. IsFiniteSet(RegisteredBy(i)) /\ Cardinality(RegisteredBy(i)) \in Nat
  BY RegisteredAreEntries
<1>6. QED
  BY <1>3, <1>4, <1>5, FS_EmptySet

LEMMA SleeperParks ==
    ASSUME ParkingInv, NEW s \in Sleepers, Sleeper(s)
    PROVE  ParkingInv'
<1>1. CASE Register(s)
  BY <1>1, RegisterParks
<1> DEFINE n == Len(count)
<1>2. /\ view \in [Threads -> 1..n] /\ indexView \in 1..n /\ n \in Nat
      /\ loaded \in [Movers -> Nat] /\ known \in [Movers -> SUBSET Sleepers]
  BY DEF ParkingInv, TypeOK
<1>3. list \in Seq(Sleepers)
  BY DEF ParkingInv
<1>4. CASE Park(s)
  <2>1. /\ Go(s, "parking", "recheck") /\ "recheck" \in Places \ {"drain", "parking"}
        /\ UNCHANGED <<count, list, lock, lockView>>
        /\ loaded' = loaded /\ known' = known
    BY <1>4 DEF Park, Places
  <2>2. /\ view' \in [Threads -> 1..n] /\ indexView' \in 1..n
        /\ \A u \in Threads : view[u] <= view'[u]
        /\ \A u \in Threads \ {s} : view'[u] = view[u]
        /\ indexView <= indexView' /\ view'[s] = indexView'
    BY <1>2, <1>4 DEF Park, Join
  <2>3. \A m \in Movers : s \notin known[m]
    BY <2>1 DEF ParkingInv, ViewInv, Go
  <2>4. view'[s] <= indexView'
    BY <2>2
  <2>5. QED
    BY <1>2, <2>1, <2>2, <2>3, <2>4, ViewParks
<1>5. CASE Recheck(s) \/ Wake(s)
  <2>1. PICK from \in {"recheck", "asleep"},
             to \in {"asleep", "forwarding", "discard"} : Go(s, from, to)
    BY <1>5 DEF Recheck, Wake
  <2>2. /\ UNCHANGED <<count, list, lock, lockView>> /\ view' = view
        /\ loaded' = loaded /\ known' = known /\ indexView' = indexView
    BY <1>5 DEF Recheck, Wake
  <2>3. to \in Places \ {"drain", "parking"} /\ to \notin {"idle", "notify"}
    BY DEF Places
  <2>4. s \in ToSet(list) => view[s] <= indexView
    BY <2>1 DEF ParkingInv, ViewInv, Go
  <2>5. \A u \in Threads : view[u] <= view'[u]
    BY <1>2, <2>2
  <2>6. indexView <= indexView'
    BY <1>2, <2>2
  <2>7. QED
    BY <1>2, <2>1, <2>2, <2>3, <2>4, <2>5, <2>6, ViewParks
<1>6. CASE Shortcut(s)
  <2>1. PICK i \in view[s]..n : count[i] = 0 /\ view' = [view EXCEPT ![s] = i]
    BY <1>6 DEF Shortcut
  <2>2. /\ Go(s, "discard", "idle") /\ "idle" \in Places \ {"drain", "parking"}
        /\ UNCHANGED <<count, list, lock, lockView>>
        /\ loaded' = loaded /\ known' = known /\ indexView' = indexView
    BY <1>6 DEF Shortcut, Places
  <2>3. lock = Nobody => s \notin ToSet(list)
    BY <2>1, ZeroIsNotStale
  <2>4. /\ view' \in [Threads -> 1..n] /\ indexView <= indexView'
        /\ \A u \in Threads : view[u] <= view'[u]
        /\ \A u \in Threads \ {s} : view'[u] = view[u]
    BY <1>2, <2>1, <2>2
  <2>5. QED
    BY <1>2, <2>2, <2>3, <2>4, ViewParks
<1>7. CASE Discard(s)
  <2>1. CASE Remove1(s, "discard", "idle")
    BY <2>1, Remove1Parks
  <2>2. CASE /\ ~Contains(list, s) /\ Go(s, "discard", "idle")
             /\ LookOnly(s) /\ UNCHANGED loaded
    <3>1. s \notin ToSet(list)
      BY <2>2, <1>3, EntriesAreContained
    <3>2. "idle" \in Places \ {"drain", "parking"} /\ loaded' \in [Movers -> Nat]
      BY <2>2, <1>2 DEF Places
    <3>3. QED
      BY <2>2, <3>1, <3>2, LookOnlyParks
  <2>3. QED
    BY <1>7, <2>1, <2>2 DEF Discard
<1>8. CASE Forward(s)
  <2>1. CASE Remove1(s, "forwarding", "idle")
    BY <2>1, Remove1Parks
  <2>2. CASE /\ ~Contains(list, s) /\ Go(s, "forwarding", "notify")
             /\ LookOnly(s) /\ UNCHANGED loaded
    <3>1. s \notin ToSet(list)
      BY <2>2, <1>3, EntriesAreContained
    <3>2. "notify" \in Places \ {"drain", "parking"} /\ loaded' \in [Movers -> Nat]
      BY <2>2, <1>2 DEF Places
    <3>3. QED
      BY <2>2, <3>1, <3>2, LookOnlyParks
  <2>3. QED
    BY <1>8, <2>1, <2>2 DEF Forward
<1>9. CASE Notify(s, 1, "notify", "idle") /\ UNCHANGED loaded
  <2>1. lock = Nobody /\ pc[s] = "notify"
    BY <1>9 DEF Notify, LookOnly, Section, Go
  <2>2. s \notin ToSet(list)
    BY <2>1 DEF ParkingInv, ForwardInv
  <2>3. QED
    BY <1>2, <1>9, <2>2, NotifyParks
<1>10. QED
  BY <1>1, <1>4, <1>5, <1>6, <1>7, <1>8, <1>9 DEF Sleeper

LEMMA MoverParks ==
    ASSUME ParkingInv, NEW m \in Movers, Mover(m)
    PROVE  ParkingInv'
<1> DEFINE n == Len(count)
<1>1. /\ view \in [Threads -> 1..n] /\ indexView \in 1..n /\ n \in Nat
      /\ loaded \in [Movers -> Nat] /\ known \in [Movers -> SUBSET Sleepers]
      /\ count \in Seq(Nat)
  BY DEF ParkingInv, TypeOK
<1>2. ToSet(list) \subseteq Sleepers /\ m \notin ToSet(list)
  BY SomeEntry DEF ParkingInv
<1>3. ASSUME ReadModifyWrite(m)
      PROVE  /\ view' \in [Threads -> 1..n] /\ indexView' \in 1..n
             /\ \A u \in Threads : view[u] <= view'[u]
             /\ \A u \in Threads \ {m} : view'[u] = view[u]
             /\ indexView <= indexView' /\ view'[m] = indexView'
  BY <1>1, <1>3 DEF ReadModifyWrite, Join
<1>4. CASE Claim(m)
  <2>1. PICK to \in {"sample", "idle"} : Go(m, "idle", to)
    BY <1>4 DEF Claim
  <2>2. /\ to \in Places \ {"drain", "parking"} /\ pc'[m] = to
        /\ UNCHANGED <<count, list, lock, lockView>> /\ loaded' = loaded
        /\ ReadModifyWrite(m)
        /\ known' = [known EXCEPT ![m] = IF to = "sample" THEN Parked ELSE {}]
    BY <1>4, <2>1 DEF Claim, Places, Go, ParkingInv
  <2>3. Parked \subseteq ToSet(list) /\ (Parked # {} => lock = Nobody)
    BY DEF Parked
  <2>4. known' \in [Movers -> SUBSET Sleepers]
    BY <1>1, <1>2, <2>2, <2>3
  <2>5. \A x \in Movers : known'[x] \subseteq known[x]
          \/ /\ x = m /\ lock = Nobody
             /\ \A s \in known'[x] :
                  s \in ToSet(list) /\ pc[s] # "parking" /\ view[s] <= view'[x]
    <3>1. SUFFICES ASSUME NEW x \in Movers, ~(known'[x] \subseteq known[x])
                   PROVE  /\ x = m /\ lock = Nobody
                          /\ \A s \in known'[x] :
                               /\ s \in ToSet(list) /\ pc[s] # "parking"
                               /\ view[s] <= view'[x]
      OBVIOUS
    <3>2. x = m /\ known'[x] = Parked /\ lock = Nobody
      BY <1>1, <2>2, <2>3, <3>1
    <3>3. ASSUME NEW s \in Parked
          PROVE  s \in ToSet(list) /\ pc[s] # "parking" /\ view[s] <= view'[m]
      <4>1. s \in ToSet(list) /\ pc[s] \notin {"idle", "parking"} /\ s \in Threads
        BY <1>2 DEF Parked
      <4>2. view[s] <= indexView
        BY <4>1 DEF ParkingInv, ViewInv
      <4>3. indexView <= indexView' /\ view'[m] = indexView' /\ indexView' \in 1..n
        BY <1>3, <2>2
      <4>4. QED
        BY <1>1, <4>1, <4>2, <4>3
    <3>4. QED
      BY <3>2, <3>3
  <2>6. QED
    <3>1. /\ view' \in [Threads -> 1..n] /\ indexView' \in 1..n
          /\ \A u \in Threads : view[u] <= view'[u]
          /\ \A u \in Threads \ {m} : view'[u] = view[u]
          /\ indexView <= indexView'
      BY <1>3, <2>2
    <3>2. loaded' \in [Movers -> Nat] /\ m \notin Sleepers
      BY <1>1, <2>2
    <3>3. QED
      BY <1>2, <2>1, <2>2, <2>4, <2>5, <3>1, <3>2, ViewParks
<1>5. CASE Sample(m)
  <2>1. PICK i \in view[m]..n : /\ loaded' = [loaded EXCEPT ![m] = count[i]]
                                /\ view' = [view EXCEPT ![m] = i]
    BY <1>5 DEF Sample
  <2>2. PICK to \in {"moved", "transition"} : Go(m, "sample", to)
    BY <1>5 DEF Sample
  <2>3. /\ to \in Places \ {"drain", "parking"}
        /\ UNCHANGED <<count, list, lock, lockView>> /\ indexView' = indexView
        /\ known' = [known EXCEPT ![m] = {}]
    BY <1>5 DEF Sample, Places
  <2>4. /\ view' \in [Threads -> 1..n] /\ indexView <= indexView'
        /\ \A u \in Threads : view[u] <= view'[u]
        /\ \A u \in Threads \ {m} : view'[u] = view[u]
    BY <1>1, <2>1, <2>3
  <2>5. loaded' \in [Movers -> Nat]
    <3>1. view[m] \in 1..n
      BY <1>1
    <3>2. count[i] \in Nat
      BY <1>1, <3>1
    <3>3. QED
      BY <1>1, <2>1, <3>2
  <2>6. /\ known' \in [Movers -> SUBSET Sleepers]
        /\ \A x \in Movers : known'[x] \subseteq known[x]
    BY <1>1, <2>3
  <2>7. QED
    BY <1>1, <1>2, <2>2, <2>3, <2>4, <2>5, <2>6, ViewParks
<1>6. CASE Transition(m)
  <2>1. /\ Go(m, "transition", "moved") /\ "moved" \in Places \ {"drain", "parking"}
        /\ UNCHANGED <<count, list, lock, lockView>>
        /\ loaded' = loaded /\ known' = known /\ ReadModifyWrite(m)
    BY <1>6 DEF Transition, Places
  <2>2. QED
    BY <1>1, <1>2, <1>3, <2>1, ViewParks
<1>7. CASE Finish(m)
  <2>1. ASSUME NEW limit \in 1..loaded[m], Notify(m, limit, "moved", "idle"),
               loaded' = [loaded EXCEPT ![m] = 0]
        PROVE  ParkingInv'
    <3>1. limit \in Nat /\ loaded' \in [Movers -> Nat]
      BY <1>1, <2>1
    <3>2. QED
      BY <1>2, <2>1, <3>1, NotifyParks
  <2>2. CASE /\ loaded[m] = 0 /\ Go(m, "moved", "idle")
             /\ UNCHANGED <<count, list, lock, lockView, indexView, view, loaded,
                            known>>
    <3>1. "idle" \in Places \ {"drain", "parking"}
      BY DEF Places
    <3>2. /\ view' = view /\ indexView <= indexView'
          /\ \A u \in Threads : view[u] <= view'[u]
      BY <1>1, <2>2
    <3>3. QED
      BY <1>1, <1>2, <2>2, <3>1, <3>2, ViewParks
  <2>3. QED
    BY <1>7, <2>1, <2>2 DEF Finish
<1>8. QED
  BY <1>4, <1>5, <1>6, <1>7 DEF Mover

\* While close holds the lock its zero is the last message, and nothing that
\* needs the lock moves.
LEMMA StoreZeroParks ==
    ASSUME ParkingInv, StoreZero
    PROVE  ParkingInv'
<1> DEFINE n == Len(count)
<1>1. /\ count \in Seq(Nat) /\ n \in Nat \ {0}
      /\ lockView \in 1..n /\ indexView \in 1..n /\ view \in [Threads -> 1..n]
  BY DEF ParkingInv, TypeOK
<1>2. /\ list' = list /\ count' = Append(count, 0) /\ lock' = Closer
      /\ view' = [view EXCEPT ![Closer] = n + 1] /\ lockView' = lockView
      /\ known' = [m \in Movers |-> {}] /\ indexView' = indexView
      /\ loaded' = loaded
  BY <1>1 DEF StoreZero
<1>3. count' \in Seq(Nat) /\ Len(count') = n + 1 /\ Last(count') = 0
  BY <1>1, <1>2 DEF Last
<1>4. /\ view' \in [Threads -> 1..(n + 1)]
      /\ \A u \in Threads \ {Closer} : view'[u] = view[u]
  <2>1. view \in [Threads -> 1..(n + 1)] /\ n + 1 \in 1..(n + 1)
    BY <1>1
  <2>2. QED
    BY <2>1, <1>2
<1>5. /\ pc'[Closer] = "drain" /\ pc' \in [Threads -> Places]
      /\ \A u \in Threads \ {Closer} : pc'[u] = pc[u]
  BY DEF ParkingInv, StoreZero, Go, Places
<1> HIDE DEF n
<1>6. list \in Seq(Sleepers) /\ IsInjective(list)
  BY DEF ParkingInv, NoStaleEntry
<1>7. TypeOK'
  <2>1. CountIsLength'
    BY <1>2 DEF CountIsLength
  <2>2. lockView' \in 1..(n + 1) /\ indexView' \in 1..(n + 1)
    BY <1>1, <1>2
  <2>3. QED
    BY <1>3, <1>4, <2>1, <2>2 DEF TypeOK
<1>8. NoStaleEntry' /\ CountInv' /\ ForwardInv'
  BY <1>2, <1>6 DEF NoStaleEntry, CountInv, ForwardInv
<1>9. ViewInv'
  <2>1. ASSUME NEW s \in ToSet(list), pc'[s] \notin {"idle", "parking"}
        PROVE  view'[s] <= indexView
    <3>1. s \in Threads \ {Closer}
      BY <1>6, SomeEntry
    <3>2. QED
      BY <2>1, <3>1, <1>4, <1>5 DEF ParkingInv, ViewInv
  <2>2. QED
    BY <2>1, <1>2 DEF ViewInv
<1>10. LockInv'
  BY <1>2, <1>3, <1>5 DEF LockInv, Count
<1>11. known' \in [Movers -> SUBSET Sleepers] /\ loaded' \in [Movers -> Nat]
  BY <1>2 DEF ParkingInv
<1>12. list' \in Seq(Sleepers)
  BY <1>2, <1>6
<1>13. QED
  BY <1>5, <1>7, <1>8, <1>9, <1>10, <1>11, <1>12 DEF ParkingInv

LEMMA DrainParks ==
    ASSUME ParkingInv, Drain
    PROVE  ParkingInv'
<1> DEFINE n == Len(count)
<1>1. /\ count \in Seq(Nat) /\ n \in Nat \ {0}
      /\ lockView \in 1..n /\ indexView \in 1..n /\ view \in [Threads -> 1..n]
  BY DEF ParkingInv, TypeOK
<1>2. /\ list' = <<>> /\ count' = count /\ lock' = Nobody
      /\ view' = view /\ lockView' = view[Closer]
      /\ known' = known /\ indexView' = indexView /\ loaded' = loaded
  BY DEF Drain
<1>3. /\ pc[Closer] = "drain" /\ pc'[Closer] = "closed"
      /\ pc' \in [Threads -> Places]
  BY DEF ParkingInv, Drain, Go, Places
<1>4. lock = Closer /\ Count = 0 /\ \A m \in Movers : known[m] = {}
  BY <1>3 DEF ParkingInv, LockInv
<1>5. /\ <<>> \in Seq(Sleepers) /\ IsInjective(<<>>) /\ ToSet(<<>>) = {}
      /\ Len(<<>>) = 0
  BY EmptyList
<1>6. TypeOK'
  <2>1. CountIsLength'
    BY <1>2, <1>4, <1>5 DEF CountIsLength, Count
  <2>2. lockView' \in 1..n
    BY <1>1, <1>2
  <2>3. QED
    BY <1>1, <1>2, <2>1, <2>2 DEF TypeOK
<1>7. NoStaleEntry'
  <2>1. \A s : ~Contains(<<>>, s)
    BY <1>5, EntriesAreContained
  <2>2. QED
    BY <1>2, <1>5, <2>1 DEF NoStaleEntry
<1>8. CountInv'
  <2>1. SUFFICES ASSUME NEW i \in 1..n PROVE count[i] >= Cardinality(RegisteredBy(i)')
    BY <1>2 DEF CountInv
  <2>2. RegisteredBy(i)' = {}
    BY <1>2, <1>5 DEF RegisteredBy
  <2>3. Cardinality(RegisteredBy(i)') = 0
    BY <2>2, FS_EmptySet
  <2>4. count[i] \in Nat
    BY <1>1
  <2>5. QED
    BY <2>3, <2>4
<1>9. ViewInv' /\ ForwardInv'
  BY <1>2, <1>4, <1>5 DEF ViewInv, ForwardInv
<1>10. LockInv'
  BY <1>2, <1>3 DEF LockInv
<1>11. known' \in [Movers -> SUBSET Sleepers] /\ loaded' \in [Movers -> Nat]
  BY <1>2 DEF ParkingInv
<1>12. list' \in Seq(Sleepers)
  BY <1>2, <1>5
<1>13. QED
  BY <1>3, <1>6, <1>7, <1>8, <1>9, <1>10, <1>11, <1>12 DEF ParkingInv

LEMMA StepParks == ParkingInv /\ [Next]_vars => ParkingInv'
<1> SUFFICES ASSUME ParkingInv, [Next]_vars PROVE ParkingInv'
  OBVIOUS
<1>1. ASSUME NEW s \in Sleepers, Sleeper(s) PROVE ParkingInv'
  BY <1>1, SleeperParks
<1>2. ASSUME NEW m \in Movers, Mover(m) PROVE ParkingInv'
  BY <1>2, MoverParks
<1>3. CASE StoreZero
  BY <1>3, StoreZeroParks
<1>4. CASE Drain
  BY <1>4, DrainParks
<1>5. CASE UNCHANGED vars
  <2>1. TypeOK' /\ NoStaleEntry' /\ LockInv' /\ ForwardInv'
    BY <1>5 DEF ParkingInv, vars, TypeOK, NoStaleEntry, LockInv, ForwardInv,
                CountIsLength, Count
  <2>2. \A i : RegisteredBy(i)' = RegisteredBy(i)
    BY <1>5 DEF RegisteredBy, vars
  <2>3. CountInv' /\ ViewInv'
    BY <1>5, <2>2 DEF ParkingInv, vars, CountInv, ViewInv
  <2>4. QED
    BY <1>5, <2>1, <2>3 DEF ParkingInv, vars
<1>6. QED
  BY <1>1, <1>2, <1>3, <1>4, <1>5 DEF Next

\* Parking keeps its invariant, for any number of sleepers and of threads
\* that move the index (queue.rs:58-80, lib.rs:207-316).
THEOREM ParkingInvariant == Spec => []ParkingInv
<1>1. Init => ParkingInv
  BY InitParks
<1>2. ParkingInv /\ [Next]_vars => ParkingInv'
  BY StepParks
<1>3. QED
  BY <1>1, <1>2, PTL DEF Spec

\* Views are messages of the count, and the count is the length of the list
\* whenever the lock is free (lib.rs:207-208).
THEOREM TypesHold == Spec => []TypeOK
<1>1. ParkingInv => TypeOK
  BY DEF ParkingInv
<1>2. QED
  BY <1>1, ParkingInvariant, PTL

\* A poll that reads zero without the lock leaves no entry behind
\* (lib.rs:266-273), and no task is listed twice.
THEOREM NoEntryLeftBehind == Spec => []NoStaleEntry
<1>1. ParkingInv => NoStaleEntry
  BY DEF ParkingInv
<1>2. QED
  BY <1>1, ParkingInvariant, PTL

\* What a load of the count returns covers everybody known to its thread.
LEMMA KnownAreCounted ==
    ASSUME ParkingInv, NEW m \in Movers, Sample(m)
    PROVE  loaded'[m] >= Cardinality(known[m])
<1>1. /\ count \in Seq(Nat) /\ view \in [Threads -> 1..Len(count)]
      /\ Len(count) \in Nat /\ loaded \in [Movers -> Nat]
  BY DEF ParkingInv, TypeOK
<1>2. PICK i \in view[m]..Len(count) : loaded' = [loaded EXCEPT ![m] = count[i]]
  BY DEF Sample
<1>3. view[m] \in 1..Len(count)
  BY <1>1
<1>4. i \in 1..Len(count) /\ view[m] <= i
  BY <1>1, <1>3
<1>5. loaded'[m] = count[i] /\ count[i] \in Nat
  BY <1>1, <1>2, <1>4
<1>6. CASE lock = Nobody
  <2>1. known[m] \subseteq RegisteredBy(i)
    <3>1. ASSUME NEW s \in known[m] PROVE s \in ToSet(list) /\ view[s] <= i
      <4>1. s \in ToSet(list) /\ view[s] <= view[m] /\ s \in Threads
        BY DEF ParkingInv, ViewInv
      <4>2. view[s] \in Nat /\ view[m] \in Nat
        BY <1>1, <4>1
      <4>3. QED
        BY <1>4, <4>1, <4>2
    <3>2. QED
      BY <3>1 DEF RegisteredBy
  <2>2. /\ IsFiniteSet(RegisteredBy(i)) /\ Cardinality(RegisteredBy(i)) \in Nat
    BY RegisteredAreEntries
  <2>3. /\ Cardinality(known[m]) <= Cardinality(RegisteredBy(i))
        /\ Cardinality(known[m]) \in Nat
    BY <2>1, <2>2, FS_Subset, FS_CardinalityType
  <2>4. count[i] >= Cardinality(RegisteredBy(i))
    BY <1>4, <1>6 DEF ParkingInv, CountInv
  <2>5. QED
    BY <1>5, <2>2, <2>3, <2>4
<1>7. CASE lock # Nobody
  <2>1. known[m] = {}
    BY <1>7 DEF ParkingInv, LockInv
  <2>2. Cardinality(known[m]) = 0
    BY <2>1, FS_EmptySet
  <2>3. QED
    BY <1>5, <2>2
<1>8. QED
  BY <1>6, <1>7

\* Of k waiters that parked before a thread moved the index, its Relaxed load
\* of the count returns no less than k (queue.rs:58-73, 548-556, 951-954).
THEOREM CountCoversWaiters == Spec => WaitersAreCounted
<1>1. ASSUME ParkingInv, [Next]_vars
      PROVE  [\A m \in Movers :
                (pc[m] = "sample" /\ pc'[m] # "sample")
                   => loaded'[m] >= Cardinality(known[m])]_vars
  <2>1. SUFFICES ASSUME NEW m \in Movers, pc[m] = "sample", pc'[m] # "sample"
                 PROVE  loaded'[m] >= Cardinality(known[m])
    OBVIOUS
  <2>2. m \notin Sleepers /\ m # Closer
    OBVIOUS
  <2>3. Next
    BY <1>1, <2>1 DEF vars
  <2>4. ASSUME NEW s \in Sleepers, Sleeper(s) PROVE FALSE
    <3>1. PICK from, to : Go(s, from, to)
      BY <2>4 DEF Sleeper, Register, Park, Recheck, Wake, Shortcut, Discard,
                  Forward, Notify, Remove1
    <3>2. pc'[m] = pc[m]
      BY <1>1, <2>2, <3>1 DEF Go, ParkingInv
    <3>3. QED
      BY <2>1, <3>2
  <2>5. ASSUME NEW x \in Movers, Mover(x) PROVE Sample(m)
    <3>1. CASE Sample(x)
      <4>1. pc'[m] = pc[m] \/ x = m
        BY <1>1, <3>1 DEF Sample, Go, ParkingInv
      <4>2. QED
        BY <2>1, <3>1, <4>1
    <3>2. CASE ~Sample(x)
      <4>1. PICK from \in {"idle", "transition", "moved"},
                 to \in {"idle", "sample", "moved"} : Go(x, from, to)
        BY <2>5, <3>2 DEF Mover, Claim, Transition, Finish, Notify
      <4>2. pc'[m] = pc[m]
        BY <1>1, <2>1, <4>1 DEF Go, ParkingInv
      <4>3. QED
        BY <2>1, <4>2
    <3>3. QED
      BY <3>1, <3>2
  <2>6. ~StoreZero /\ ~Drain
    <3>1. ASSUME NEW from, NEW to, Go(Closer, from, to) PROVE FALSE
      BY <1>1, <2>1, <2>2, <3>1 DEF Go, ParkingInv
    <3>2. QED
      BY <3>1 DEF StoreZero, Drain
  <2>7. Sample(m)
    BY <2>3, <2>4, <2>5, <2>6 DEF Next
  <2>8. QED
    BY <1>1, <2>7, KnownAreCounted
<1>2. QED
  BY <1>1, ParkingInvariant, PTL DEF Spec, WaitersAreCounted
=============================================================================
