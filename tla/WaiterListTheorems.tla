-------------------------- MODULE WaiterListTheorems --------------------------
(***************************************************************************)
(* What the operations of a waiter list (WaiterList in src/src/lib.rs) do  *)
(* to a sequence in which no entry is repeated: which entries are left,    *)
(* that none is repeated, and how many there are.                          *)
(***************************************************************************)
EXTENDS FiniteSets, SequencesExt, FiniteSetTheorems, WellFoundedInduction, TLAPS

\* What unregister does: the first entry of a task goes, and a list without
\* repetitions has no other.
LEMMA RemovedEntry ==
    ASSUME NEW S, NEW list \in Seq(S), IsInjective(list), NEW e
    PROVE  /\ RemoveFirst(list, e) \in Seq(S)
           /\ IsInjective(RemoveFirst(list, e))
           /\ ToSet(RemoveFirst(list, e)) = ToSet(list) \ {e}
<1>1. CASE e \notin ToSet(list)
  <2>1. ~ \E i \in 1..Len(list) : list[i] = e
    BY <1>1 DEF ToSet
  <2>2. RemoveFirst(list, e) = list
    BY <2>1 DEF RemoveFirst
  <2>3. QED
    BY <2>2, <1>1
<1>2. CASE e \in ToSet(list)
  <2>1. PICK k \in 1..Len(list) : list[k] = e
    BY <1>2 DEF ToSet
  <2>2. {i \in 1..Len(list) : list[i] = e} = {k}
    BY <2>1 DEF IsInjective
  <2>3. Min({k}) = k
    BY DEF Min
  <2>4. SelectInSeq(list, LAMBDA v : v = e) = k
    BY <2>2, <2>3 DEF SelectInSeq
  <2>5. RemoveFirst(list, e) = RemoveAt(list, k)
    BY <2>1, <2>4 DEF RemoveFirst
  <2> DEFINE cut == SubSeq(list, 1, k - 1) \o SubSeq(list, k + 1, Len(list))
  <2>6. /\ cut \in Seq(S) /\ Len(cut) = Len(list) - 1
        /\ \A i \in 1..Len(cut) :
             cut[i] = IF i < k THEN list[i] ELSE list[i + 1]
    <3> DEFINE p == SubSeq(list, 1, k - 1)
               q == SubSeq(list, k + 1, Len(list))
    <3>1. /\ p \in Seq(S) /\ Len(p) = k - 1
          /\ \A i \in 1..(k - 1) : p[i] = list[i]
      OBVIOUS
    <3>2. /\ q \in Seq(S) /\ Len(q) = Len(list) - k
          /\ \A i \in 1..(Len(list) - k) : q[i] = list[k + i]
      OBVIOUS
    <3> HIDE DEF p, q
    <3>3. /\ p \o q \in Seq(S) /\ Len(p \o q) = Len(list) - 1
          /\ \A i \in 1..Len(p \o q) :
               (p \o q)[i] = IF i < k THEN p[i] ELSE q[i - (k - 1)]
      <4>1. p \in Seq(S) /\ q \in Seq(S)
        BY <3>1, <3>2
      <4>2. /\ p \o q \in Seq(S) /\ Len(p \o q) = Len(p) + Len(q)
            /\ \A i \in 1..(Len(p) + Len(q)) :
                 (p \o q)[i] = IF i <= Len(p) THEN p[i] ELSE q[i - Len(p)]
        BY <4>1
      <4>3. QED
        BY <4>2, <3>1, <3>2
    <3>4. \A i \in 1..Len(p \o q) :
            (p \o q)[i] = IF i < k THEN list[i] ELSE list[i + 1]
      <4> SUFFICES ASSUME NEW i \in 1..Len(p \o q)
                   PROVE  (p \o q)[i] = IF i < k THEN list[i] ELSE list[i + 1]
        OBVIOUS
      <4>1. CASE i < k
        <5>1. i \in 1..(k - 1)
          BY <3>3, <4>1
        <5>2. (p \o q)[i] = p[i]
          BY <3>3, <4>1
        <5>3. p[i] = list[i]
          BY <3>1, <5>1
        <5>4. QED
          BY <4>1, <5>2, <5>3
      <4>2. CASE ~(i < k)
        <5>1. i - (k - 1) \in 1..(Len(list) - k)
          BY <3>3, <4>2
        <5>2. q[i - (k - 1)] = list[k + (i - (k - 1))]
          BY <3>2, <5>1
        <5>3. k + (i - (k - 1)) = i + 1
          OBVIOUS
        <5>4. QED
          BY <3>3, <4>2, <5>2, <5>3
      <4>3. QED
        BY <4>1, <4>2
    <3>5. QED
      BY <3>3, <3>4 DEF p, q
  <2> HIDE DEF cut
  <2>7. IsInjective(cut)
    <3>1. SUFFICES ASSUME NEW i \in 1..Len(cut), NEW j \in 1..Len(cut),
                          cut[i] = cut[j]
                   PROVE  i = j
      BY <2>6 DEF IsInjective
    <3>2. \A n \in 1..Len(cut) : n \in 1..Len(list) /\ n + 1 \in 1..Len(list)
      BY <2>1, <2>6
    <3>3. PICK a \in DOMAIN list :
            a = (IF i < k THEN i ELSE i + 1) /\ list[a] = cut[i]
      BY <3>2, <2>6
    <3>4. PICK b \in DOMAIN list :
            b = (IF j < k THEN j ELSE j + 1) /\ list[b] = cut[j]
      BY <3>2, <2>6
    <3>5. a = b
      BY <3>1, <3>3, <3>4 DEF IsInjective
    <3>6. QED
      BY <2>1, <3>3, <3>4, <3>5
  <2>8. ToSet(cut) = ToSet(list) \ {e}
    <3>1. ASSUME NEW x \in ToSet(cut) PROVE x \in ToSet(list) \ {e}
      <4>1. PICK i \in 1..Len(cut) : cut[i] = x
        BY <2>6 DEF ToSet
      <4>2. PICK j \in 1..Len(list) : j # k /\ list[j] = x
        <5>1. CASE i < k
          BY <4>1, <5>1, <2>1, <2>6
        <5>2. CASE ~(i < k)
          <6>1. i + 1 \in 1..Len(list) /\ i + 1 # k /\ list[i + 1] = x
            BY <4>1, <5>2, <2>1, <2>6
          <6>2. QED
            BY <6>1
        <5>3. QED
          BY <5>1, <5>2
      <4>3. x # e
        BY <2>1, <4>2 DEF IsInjective
      <4>4. QED
        BY <4>2, <4>3 DEF ToSet
    <3>2. ASSUME NEW x \in ToSet(list) \ {e} PROVE x \in ToSet(cut)
      <4>1. PICK j \in 1..Len(list) : list[j] = x
        BY <3>2 DEF ToSet
      <4>2. CASE j < k
        <5>1. j \in 1..Len(cut) /\ cut[j] = x
          BY <4>1, <4>2, <2>1, <2>6
        <5>2. QED
          BY <5>1, <2>6 DEF ToSet
      <4>3. CASE j > k
        <5>1. j - 1 \in 1..Len(cut) /\ cut[j - 1] = x
          BY <4>1, <4>3, <2>1, <2>6
        <5>2. QED
          BY <5>1, <2>6 DEF ToSet
      <4>4. j # k
        BY <3>2, <4>1, <2>1
      <4>5. QED
        BY <4>2, <4>3, <4>4
    <3>3. QED
      BY <3>1, <3>2
  <2>9. QED
    BY <2>5, <2>6, <2>7, <2>8 DEF RemoveAt, cut
<1>3. QED
  BY <1>1, <1>2

\* What register does.
LEMMA AddedEntry ==
    ASSUME NEW S, NEW list \in Seq(S), IsInjective(list),
           NEW e \in S, e \notin ToSet(list)
    PROVE  /\ Append(list, e) \in Seq(S)
           /\ IsInjective(Append(list, e))
           /\ ToSet(Append(list, e)) = ToSet(list) \cup {e}
<1> DEFINE longer == Append(list, e)
<1>1. /\ longer \in Seq(S) /\ Len(longer) = Len(list) + 1
      /\ \A i \in 1..Len(list) : longer[i] = list[i]
      /\ longer[Len(list) + 1] = e
  OBVIOUS
<1>2. \A i \in 1..Len(list) : list[i] # e
  BY DEF ToSet
<1>3. IsInjective(longer)
  BY <1>1, <1>2 DEF IsInjective
<1>4. ToSet(longer) = ToSet(list) \cup {e}
  BY <1>1 DEF ToSet
<1>5. QED
  BY <1>1, <1>3, <1>4

\* What notify_one does.
LEMMA TakenEntry ==
    ASSUME NEW S, NEW list \in Seq(S), IsInjective(list), list # <<>>
    PROVE  /\ Tail(list) \in Seq(S)
           /\ IsInjective(Tail(list))
           /\ Head(list) \in ToSet(list) /\ Head(list) \in S
           /\ ToSet(Tail(list)) = ToSet(list) \ {Head(list)}
<1> DEFINE rest == Tail(list)
<1>1. /\ rest \in Seq(S) /\ Len(rest) = Len(list) - 1 /\ Len(list) > 0
      /\ \A i \in 1..Len(rest) : rest[i] = list[i + 1]
      /\ Head(list) = list[1] /\ list[1] \in S
  OBVIOUS
<1> HIDE DEF rest
<1>2. IsInjective(rest)
  <2>1. DOMAIN rest = 1..Len(rest)
    BY <1>1
  <2>2. ASSUME NEW a \in 1..Len(rest), NEW b \in 1..Len(rest), rest[a] = rest[b]
        PROVE  a = b
    <3>1. a + 1 \in DOMAIN list /\ b + 1 \in DOMAIN list
      BY <1>1
    <3>2. a + 1 = b + 1
      BY <3>1, <2>2, <1>1 DEF IsInjective
    <3>3. QED
      BY <3>2
  <2>3. QED
    BY <2>1, <2>2 DEF IsInjective
<1>3. Head(list) \in ToSet(list)
  BY <1>1 DEF ToSet
<1>4. ASSUME NEW x \in ToSet(rest) PROVE x \in ToSet(list) \ {Head(list)}
  BY <1>1 DEF ToSet, IsInjective
<1>5. ASSUME NEW x \in ToSet(list) \ {Head(list)} PROVE x \in ToSet(rest)
  <2>1. PICK j \in 1..Len(list) : list[j] = x
    BY <1>5 DEF ToSet
  <2>2. j - 1 \in 1..Len(rest) /\ rest[j - 1] = x
    BY <2>1, <1>1, <1>5
  <2>3. QED
    BY <2>2, <1>1 DEF ToSet
<1>6. QED
  BY <1>1, <1>2, <1>3, <1>4, <1>5 DEF rest

\* What notify_all leaves.
LEMMA EmptyList ==
    ASSUME NEW S
    PROVE  /\ <<>> \in Seq(S) /\ IsInjective(<<>>) /\ ToSet(<<>>) = {}
BY DEF IsInjective, ToSet

\* Entries are of the type of the list.
LEMMA SomeEntry ==
    ASSUME NEW S, NEW list \in Seq(S)
    PROVE  ToSet(list) \subseteq S /\ (list = <<>> <=> ToSet(list) = {})
BY DEF ToSet

LEMMA FiniteEntries ==
    ASSUME NEW S, NEW list \in Seq(S)
    PROVE  IsFiniteSet(ToSet(list))
<1>1. list \in Surjection(1..Len(list), ToSet(list))
  BY DEF Surjection, ToSet
<1>2. QED
  BY <1>1, FS_Interval, FS_Surjection

\* A list without repetitions has as many entries as it is long.
LEMMA CountedEntries ==
    ASSUME NEW S, NEW list \in Seq(S), IsInjective(list)
    PROVE  Cardinality(ToSet(list)) = Len(list)
<1>1. list \in Bijection(1..Len(list), ToSet(list))
  BY DEF Bijection, Injection, Surjection, IsInjective, ToSet
<1>2. ExistsBijection(1..Len(list), ToSet(list))
  BY <1>1 DEF ExistsBijection
<1>3. QED
  BY <1>2, FS_CountingElements

\* What notify_many leaves after it took n entries.
LEMMA CutEntries ==
    ASSUME NEW S, NEW list \in Seq(S), IsInjective(list), NEW n \in 0..Len(list)
    PROVE  LET rest == SubSeq(list, n + 1, Len(list))
           IN  /\ rest \in Seq(S) /\ IsInjective(rest)
               /\ Len(rest) = Len(list) - n
               /\ ToSet(rest) \subseteq ToSet(list)
<1> DEFINE rest == SubSeq(list, n + 1, Len(list))
<1>1. /\ rest \in Seq(S) /\ Len(rest) = Len(list) - n
      /\ \A i \in 1..Len(rest) : rest[i] = list[n + i]
  OBVIOUS
<1> HIDE DEF rest
<1>2. \A i \in 1..Len(rest) : n + i \in 1..Len(list)
  BY <1>1
<1>3. IsInjective(rest)
  <2>1. DOMAIN rest = 1..Len(rest) /\ DOMAIN list = 1..Len(list)
    BY <1>1
  <2>2. ASSUME NEW a \in 1..Len(rest), NEW b \in 1..Len(rest), rest[a] = rest[b]
        PROVE  a = b
    <3>1. list[n + a] = list[n + b]
      BY <1>1, <2>2
    <3>2. n + a = n + b
      BY <1>2, <2>1, <3>1 DEF IsInjective
    <3>3. QED
      BY <3>2
  <2>3. QED
    BY <2>1, <2>2 DEF IsInjective
<1>4. ASSUME NEW x \in ToSet(rest) PROVE x \in ToSet(list)
  <2>1. PICK i \in 1..Len(rest) : rest[i] = x
    BY <1>1 DEF ToSet
  <2>2. n + i \in 1..Len(list) /\ list[n + i] = x
    BY <1>1, <1>2, <2>1
  <2>3. QED
    BY <2>2 DEF ToSet
<1>5. QED
  BY <1>1, <1>3, <1>4 DEF rest

\* The first n entries and the rest have nobody in common.
LEMMA CutApart ==
    ASSUME NEW S, NEW list \in Seq(S), IsInjective(list), NEW n \in 0..Len(list)
    PROVE  LET first == SubSeq(list, 1, n)
               rest  == SubSeq(list, n + 1, Len(list))
           IN  /\ ToSet(first) \subseteq ToSet(list)
               /\ ToSet(rest) = ToSet(list) \ ToSet(first)
               /\ Cardinality(ToSet(first)) = n
<1> DEFINE first == SubSeq(list, 1, n)
           rest  == SubSeq(list, n + 1, Len(list))
<1>1. /\ first \in Seq(S) /\ Len(first) = n
      /\ \A i \in 1..n : first[i] = list[i]
  OBVIOUS
<1>2. /\ rest \in Seq(S) /\ Len(rest) = Len(list) - n
      /\ \A i \in 1..Len(rest) : rest[i] = list[n + i]
  OBVIOUS
<1> HIDE DEF first, rest
<1>3. DOMAIN first = 1..n /\ DOMAIN list = 1..Len(list) /\ DOMAIN rest = 1..Len(rest)
  BY <1>1, <1>2
<1>4. IsInjective(first)
  BY <1>1, <1>3 DEF IsInjective
<1>5. Cardinality(ToSet(first)) = n
  BY <1>1, <1>4, CountedEntries
<1>6. ToSet(first) \subseteq ToSet(list)
  BY <1>1, <1>3 DEF ToSet
<1>7. ASSUME NEW e \in ToSet(rest) PROVE e \in ToSet(list) /\ e \notin ToSet(first)
  <2>1. PICK i \in 1..Len(rest) : e = list[n + i] /\ n + i \in 1..Len(list)
    BY <1>2, <1>3 DEF ToSet
  <2>2. \A k \in 1..n : k # n + i /\ k \in 1..Len(list)
    OBVIOUS
  <2>3. \A k \in 1..n : list[k] # list[n + i]
    BY <1>3, <2>1, <2>2 DEF IsInjective
  <2>4. QED
    BY <1>1, <1>3, <2>1, <2>3 DEF ToSet
<1>8. ASSUME NEW e \in ToSet(list), e \notin ToSet(first) PROVE e \in ToSet(rest)
  <2>1. PICK k \in 1..Len(list) : e = list[k]
    BY <1>3 DEF ToSet
  <2>2. ~(k \in 1..n)
    BY <1>1, <1>3, <1>8, <2>1 DEF ToSet
  <2>3. k - n \in 1..Len(rest) /\ n + (k - n) = k
    BY <1>2, <2>1, <2>2
  <2>4. rest[k - n] = e
    BY <1>2, <2>1, <2>3
  <2>5. QED
    BY <1>3, <2>3, <2>4 DEF ToSet
<1>9. QED
  BY <1>5, <1>6, <1>7, <1>8 DEF first, rest

\* There is a longest prefix of entries e.
LEMMA LongestPrefix ==
    ASSUME NEW S, NEW list \in Seq(S), NEW e
    PROVE  \E n \in 0..Len(list) : /\ \A i \in 1..n : list[i] = e
                                   /\ n < Len(list) => list[n + 1] # e
<1> DEFINE Below == {pair \in Nat \X Nat : pair[1] < pair[2]}
           Ends  == {n \in Nat : n = Len(list) \/ (n < Len(list) /\ list[n + 1] # e)}
<1>1. IsWellFoundedOn(Below, Nat)
  BY NatLessThanWellFounded DEF OpToRel
<1>2. Ends \subseteq Nat /\ Len(list) \in Ends
  OBVIOUS
<1>3. PICK n \in Ends : \A m \in Ends : ~(<<m, n>> \in Below)
  BY <1>1, <1>2, WFMin
<1>4. ASSUME NEW i \in 1..n PROVE list[i] = e
  <2>1. i - 1 \in Nat /\ i - 1 < n /\ n <= Len(list) /\ (i - 1) + 1 = i
    OBVIOUS
  <2>2. <<i - 1, n>> \in Below
    BY <2>1
  <2>3. i - 1 \notin Ends
    BY <1>3, <2>2
  <2>4. QED
    BY <2>1, <2>3
<1>5. n \in 0..Len(list) /\ (n < Len(list) => list[n + 1] # e)
  OBVIOUS
<1>6. QED
  BY <1>4, <1>5
===============================================================================
