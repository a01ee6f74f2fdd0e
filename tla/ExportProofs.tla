---------------------------- MODULE ExportProofs ----------------------------
(***************************************************************************)
(* Proofs about workbooks (Export), for any scopes, resources, kinds,      *)
(* edges and starts, and for databases of any size.                        *)
(***************************************************************************)
EXTENDS Export, Integers, FiniteSetTheorems, SequenceTheorems, WellFoundedInduction, TLAPS

-----------------------------------------------------------------------------
(* Numbers.                                                                *)

LEMMA Least ==
  ASSUME NEW S \in SUBSET Nat, S # {}
  PROVE  \E n \in S : \A m \in S : n <= m
<1>1. PICK n \in S : \A m \in S : ~(<<m, n>> \in OpToRel(<, Nat))
  BY NatLessThanWellFounded, WFMin
<1>2. ASSUME NEW m \in S PROVE n <= m
  <2>1. ~(m < n)
    BY <1>1 DEF OpToRel
  <2> QED
    BY <2>1
<1> QED
  BY <1>2

\* A set that has 0 and, with a number below the bound, the next one.
LEMMA UpTo ==
  ASSUME NEW b \in Nat, NEW S, 0 \in S, \A n \in 0 .. b - 1 : n \in S => n + 1 \in S
  PROVE  0 .. b \subseteq S
<1> SUFFICES ASSUME (0 .. b) \ S # {} PROVE FALSE
  OBVIOUS
<1> DEFINE Missing == (0 .. b) \ S
<1>0. Missing \in SUBSET Nat
  OBVIOUS
<1>1. PICK n \in Missing : \A m \in Missing : n <= m
  BY <1>0, Least
<1>2. n - 1 \in 0 .. b - 1
  BY <1>1
<1>3. n - 1 \in S
  BY <1>1, <1>2
<1> QED
  BY <1>1, <1>2, <1>3

LEMMA DivMod ==
  ASSUME NEW n \in Nat \ {0}, NEW q \in Nat, NEW r \in 0 .. n - 1
  PROVE  (n * q + r) \div n = q /\ (n * q + r) % n = r
OBVIOUS

LEMMA DivModRange ==
  ASSUME NEW n \in Nat \ {0}, NEW m \in Nat
  PROVE  /\ m \div n \in Nat /\ m % n \in 0 .. n - 1
         /\ m = n * (m \div n) + (m % n)
OBVIOUS

LEMMA Times ==
  ASSUME NEW n \in Nat, NEW a \in Nat, NEW b \in Nat, a <= b
  PROVE  n * a \in Nat /\ n * a <= n * b
OBVIOUS

-----------------------------------------------------------------------------
(* The order of the starts' texts is that of a number: the digits count as  *)
(* they stand, and one that is missing counts as the Z in its place, 10.    *)

Tenth(t) == (t \div 10) % 10
Hundredth(t) == t % 10
TenthKey(t) == IF Hundredth(t) = 0 /\ Tenth(t) = 0 THEN 10 ELSE Tenth(t)
HundredthKey(t) == IF Hundredth(t) = 0 THEN 10 ELSE Hundredth(t)
KeyOf(s, x, y) == 1000 * s + 20 * x + y
Key(t) == KeyOf(Second(t), TenthKey(t), HundredthKey(t))

LEMMA Parts ==
  ASSUME NEW t \in Nat
  PROVE  /\ Second(t) \in Nat /\ Tenth(t) \in 0 .. 9 /\ Hundredth(t) \in 0 .. 9
         /\ t = 100 * Second(t) + 10 * Tenth(t) + Hundredth(t)
         /\ TenthKey(t) \in 0 .. 10 /\ HundredthKey(t) \in 1 .. 10
         /\ Key(t) \in Nat
BY DEF Second, Tenth, Hundredth, TenthKey, HundredthKey, Key, KeyOf

LEMMA KeyOrder ==
  ASSUME NEW s \in Nat, NEW x \in 0 .. 10, NEW y \in 1 .. 10,
         NEW z \in Nat, NEW v \in 0 .. 10, NEW w \in 1 .. 10
  PROVE  KeyOf(s, x, y) > KeyOf(z, v, w)
           <=> s > z \/ (s = z /\ 20 * x + y > 20 * v + w)
<1>1. ASSUME s > z PROVE 1000 * s >= 1000 * z + 1000
  BY <1>1
<1>2. ASSUME z > s PROVE 1000 * z >= 1000 * s + 1000
  BY <1>2
<1>3. 20 * x + y < 1000 /\ 20 * v + w < 1000 /\ 20 * x + y >= 0 /\ 20 * v + w >= 0
  OBVIOUS
<1>4. CASE s > z
  BY <1>1, <1>3, <1>4 DEF KeyOf
<1>5. CASE z > s
  BY <1>2, <1>3, <1>5 DEF KeyOf
<1>6. CASE s = z
  BY <1>3, <1>6 DEF KeyOf
<1> QED
  BY <1>4, <1>5, <1>6

LEMMA KeysOrder ==
  ASSUME NEW t \in Nat, NEW u \in Nat
  PROVE  Key(t) > Key(u) <=> \/ Second(t) > Second(u)
                             \/ /\ Second(t) = Second(u)
                                /\ 20 * TenthKey(t) + HundredthKey(t) > 20 * TenthKey(u) + HundredthKey(u)
<1>1. Second(t) \in Nat /\ TenthKey(t) \in 0 .. 10 /\ HundredthKey(t) \in 1 .. 10
  BY Parts
<1>2. Second(u) \in Nat /\ TenthKey(u) \in 0 .. 10 /\ HundredthKey(u) \in 1 .. 10
  BY Parts
<1> QED
  BY <1>1, <1>2, KeyOrder DEF Key

LEMMA KeyIsOne ==
  ASSUME NEW t \in Nat, NEW u \in Nat, Key(t) = Key(u)
  PROVE  t = u
<1>1. Second(t) = Second(u) /\ TenthKey(t) = TenthKey(u) /\ HundredthKey(t) = HundredthKey(u)
  <2>1. Second(t) \in Nat /\ TenthKey(t) \in 0 .. 10 /\ HundredthKey(t) \in 1 .. 10
    BY Parts
  <2>2. Second(u) \in Nat /\ TenthKey(u) \in 0 .. 10 /\ HundredthKey(u) \in 1 .. 10
    BY Parts
  <2>3. ~(Key(t) > Key(u)) /\ ~(Key(u) > Key(t))
    BY Parts
  <2>4. ~(Second(t) > Second(u) \/ ( /\ Second(t) = Second(u)
                                     /\ 20 * TenthKey(t) + HundredthKey(t) > 20 * TenthKey(u) + HundredthKey(u)))
    BY <2>3, KeysOrder
  <2>5. ~(Second(u) > Second(t) \/ ( /\ Second(u) = Second(t)
                                     /\ 20 * TenthKey(u) + HundredthKey(u) > 20 * TenthKey(t) + HundredthKey(t)))
    BY <2>3, KeysOrder
  <2> QED
    BY <2>1, <2>2, <2>4, <2>5
<1>2. Tenth(t) = Tenth(u) /\ Hundredth(t) = Hundredth(u)
  BY <1>1, Parts DEF TenthKey, HundredthKey
<1> QED
  BY <1>1, <1>2, Parts

\* Digits, by their number.
LEMMA DigitsAre ==
  ASSUME NEW t \in Nat
  PROVE  /\ Hundredth(t) # 0 => Digits(t) = <<Tenth(t), Hundredth(t)>>
         /\ Hundredth(t) = 0 /\ Tenth(t) # 0 => Digits(t) = <<Tenth(t)>>
         /\ Hundredth(t) = 0 /\ Tenth(t) = 0 => Digits(t) = <<>>
BY DEF Digits, Tenth, Hundredth

DigitsAfter(d, e) ==
  \/ IsPrefix(d, e)
  \/ \E n \in DOMAIN d \cap DOMAIN e :
       /\ d[n] > e[n]
       /\ \A m \in 1 .. n - 1 : d[m] = e[m]

LEMMA TwoDigits ==
  ASSUME NEW a \in 0 .. 9, NEW b \in 1 .. 9, NEW c \in 0 .. 9, NEW d \in 1 .. 9
  PROVE  /\ DigitsAfter(<<a, b>>, <<c, d>>) <=> a > c \/ (a = c /\ b > d)
         /\ DigitsAfter(<<a, b>>, <<c>>) <=> a > c
         /\ DigitsAfter(<<c>>, <<a, b>>) <=> c >= a
         /\ DigitsAfter(<<a>>, <<c>>) <=> a > c
         /\ DigitsAfter(<<>>, <<c>>) /\ DigitsAfter(<<>>, <<a, b>>)
         /\ ~DigitsAfter(<<c>>, <<>>) /\ ~DigitsAfter(<<a, b>>, <<>>)
         /\ ~DigitsAfter(<<>>, <<>>)
<1>1. DOMAIN <<a, b>> = {1, 2} /\ DOMAIN <<c, d>> = {1, 2} /\ DOMAIN <<c>> = {1} /\ DOMAIN <<a>> = {1}
      /\ 1 .. 0 = {} /\ 1 .. 1 = {1} /\ 1 - 1 = 0 /\ 2 - 1 = 1
  OBVIOUS
<1>2. DigitsAfter(<<a, b>>, <<c, d>>) <=> a > c \/ (a = c /\ b > d)
  BY <1>1 DEF DigitsAfter, IsPrefix
<1>3. DigitsAfter(<<a, b>>, <<c>>) <=> a > c
  BY <1>1 DEF DigitsAfter, IsPrefix
<1>4. DigitsAfter(<<c>>, <<a, b>>) <=> c >= a
  BY <1>1 DEF DigitsAfter, IsPrefix
<1>5. DigitsAfter(<<a>>, <<c>>) <=> a > c
  BY <1>1 DEF DigitsAfter, IsPrefix
<1>6. DigitsAfter(<<>>, <<c>>) /\ DigitsAfter(<<>>, <<a, b>>)
  BY <1>1 DEF DigitsAfter, IsPrefix
<1>7. ~DigitsAfter(<<c>>, <<>>) /\ ~DigitsAfter(<<a, b>>, <<>>)
  BY <1>1 DEF DigitsAfter, IsPrefix
<1>8. ~DigitsAfter(<<>>, <<>>)
  BY <1>1 DEF DigitsAfter, IsPrefix
<1> QED
  BY <1>2, <1>3, <1>4, <1>5, <1>6, <1>7, <1>8

LEMMA DigitsOrder ==
  ASSUME NEW t \in Nat, NEW u \in Nat
  PROVE  DigitsAfter(Digits(t), Digits(u))
           <=> 20 * TenthKey(t) + HundredthKey(t) > 20 * TenthKey(u) + HundredthKey(u)
<1> DEFINE a == Tenth(t)   b == Hundredth(t)   c == Tenth(u)   d == Hundredth(u)
<1>1. a \in 0 .. 9 /\ b \in 0 .. 9 /\ c \in 0 .. 9 /\ d \in 0 .. 9
  BY Parts
<1>2. /\ TenthKey(t) = IF b = 0 /\ a = 0 THEN 10 ELSE a
      /\ HundredthKey(t) = IF b = 0 THEN 10 ELSE b
      /\ TenthKey(u) = IF d = 0 /\ c = 0 THEN 10 ELSE c
      /\ HundredthKey(u) = IF d = 0 THEN 10 ELSE d
  BY DEF TenthKey, HundredthKey
<1>3. /\ b # 0 => Digits(t) = <<a, b>>
      /\ b = 0 /\ a # 0 => Digits(t) = <<a>>
      /\ b = 0 /\ a = 0 => Digits(t) = <<>>
      /\ d # 0 => Digits(u) = <<c, d>>
      /\ d = 0 /\ c # 0 => Digits(u) = <<c>>
      /\ d = 0 /\ c = 0 => Digits(u) = <<>>
  BY DigitsAre
<1> HIDE DEF a, b, c, d
<1>4. CASE b # 0 /\ d # 0
  <2>1. b \in 1 .. 9 /\ d \in 1 .. 9
    BY <1>1, <1>4
  <2>2. DigitsAfter(<<a, b>>, <<c, d>>) <=> a > c \/ (a = c /\ b > d)
    BY <1>1, <2>1, TwoDigits
  <2>3. Digits(t) = <<a, b>> /\ Digits(u) = <<c, d>>
    BY <1>3, <1>4
  <2> QED
    BY <1>1, <1>2, <1>4, <2>2, <2>3
<1>5. CASE b # 0 /\ d = 0 /\ c # 0
  <2>1. b \in 1 .. 9 /\ 1 \in 1 .. 9
    BY <1>1, <1>5
  <2>2. DigitsAfter(<<a, b>>, <<c>>) <=> a > c
    BY <1>1, <2>1, TwoDigits
  <2>3. Digits(t) = <<a, b>> /\ Digits(u) = <<c>>
    BY <1>3, <1>5
  <2> QED
    BY <1>1, <1>2, <1>5, <2>2, <2>3
<1>6. CASE b # 0 /\ d = 0 /\ c = 0
  <2>1. b \in 1 .. 9 /\ 1 \in 1 .. 9
    BY <1>1, <1>6
  <2>2. DigitsAfter(<<a, b>>, <<>>) <=> FALSE
    BY <1>1, <2>1, TwoDigits
  <2>3. Digits(t) = <<a, b>> /\ Digits(u) = <<>>
    BY <1>3, <1>6
  <2> QED
    BY <1>1, <1>2, <1>6, <2>2, <2>3
<1>7. CASE b = 0 /\ a # 0 /\ d # 0
  <2>1. d \in 1 .. 9 /\ 1 \in 1 .. 9
    BY <1>1, <1>7
  <2>2. DigitsAfter(<<a>>, <<c, d>>) <=> a >= c
    BY <1>1, <2>1, TwoDigits
  <2>3. Digits(t) = <<a>> /\ Digits(u) = <<c, d>>
    BY <1>3, <1>7
  <2> QED
    BY <1>1, <1>2, <1>7, <2>2, <2>3
<1>8. CASE b = 0 /\ a # 0 /\ d = 0 /\ c # 0
  <2>1. 1 \in 1 .. 9 /\ 1 \in 1 .. 9
    BY <1>1, <1>8
  <2>2. DigitsAfter(<<a>>, <<c>>) <=> a > c
    BY <1>1, <2>1, TwoDigits
  <2>3. Digits(t) = <<a>> /\ Digits(u) = <<c>>
    BY <1>3, <1>8
  <2> QED
    BY <1>1, <1>2, <1>8, <2>2, <2>3
<1>9. CASE b = 0 /\ a # 0 /\ d = 0 /\ c = 0
  <2>1. 1 \in 1 .. 9 /\ 1 \in 1 .. 9
    BY <1>1, <1>9
  <2>2. DigitsAfter(<<a>>, <<>>) <=> FALSE
    BY <1>1, <2>1, TwoDigits
  <2>3. Digits(t) = <<a>> /\ Digits(u) = <<>>
    BY <1>3, <1>9
  <2> QED
    BY <1>1, <1>2, <1>9, <2>2, <2>3
<1>10. CASE b = 0 /\ a = 0 /\ d # 0
  <2>1. d \in 1 .. 9 /\ 1 \in 1 .. 9
    BY <1>1, <1>10
  <2>2. DigitsAfter(<<>>, <<c, d>>) <=> TRUE
    BY <1>1, <2>1, TwoDigits
  <2>3. Digits(t) = <<>> /\ Digits(u) = <<c, d>>
    BY <1>3, <1>10
  <2> QED
    BY <1>1, <1>2, <1>10, <2>2, <2>3
<1>11. CASE b = 0 /\ a = 0 /\ d = 0 /\ c # 0
  <2>1. 1 \in 1 .. 9 /\ 1 \in 1 .. 9
    BY <1>1, <1>11
  <2>2. DigitsAfter(<<>>, <<c>>) <=> TRUE
    BY <1>1, <2>1, TwoDigits
  <2>3. Digits(t) = <<>> /\ Digits(u) = <<c>>
    BY <1>3, <1>11
  <2> QED
    BY <1>1, <1>2, <1>11, <2>2, <2>3
<1>12. CASE b = 0 /\ a = 0 /\ d = 0 /\ c = 0
  <2>1. 1 \in 1 .. 9 /\ 1 \in 1 .. 9
    BY <1>1, <1>12
  <2>2. DigitsAfter(<<>>, <<>>) <=> FALSE
    BY <1>1, <2>1, TwoDigits
  <2>3. Digits(t) = <<>> /\ Digits(u) = <<>>
    BY <1>3, <1>12
  <2> QED
    BY <1>1, <1>2, <1>12, <2>2, <2>3
<1> QED
  BY <1>4, <1>5, <1>6, <1>7, <1>8, <1>9, <1>10, <1>11, <1>12

LEMMA TextOrder ==
  ASSUME NEW t \in Instant, NEW u \in Instant
  PROVE  TextAfter[t][u] <=> Key(t) > Key(u)
<1>1. t \in Nat /\ u \in Nat
  BY ExportAssumption
<1>2. TextAfter[t][u] <=> \/ Second(t) > Second(u)
                          \/ Second(t) = Second(u) /\ DigitsAfter(Digits(t), Digits(u))
  BY DEF TextAfter, DigitsAfter
<1>3. DigitsAfter(Digits(t), Digits(u))
        <=> 20 * TenthKey(t) + HundredthKey(t) > 20 * TenthKey(u) + HundredthKey(u)
  BY <1>1, DigitsOrder
<1>4. Key(t) > Key(u) <=> \/ Second(t) > Second(u)
                          \/ /\ Second(t) = Second(u)
                             /\ 20 * TenthKey(t) + HundredthKey(t) > 20 * TenthKey(u) + HundredthKey(u)
  BY <1>1, KeysOrder
<1> QED
  BY <1>2, <1>3, <1>4

\* Of two starts the later one's text comes first only within a second, and
\* only when the digits of the earlier one begin its own.
LEMMA OnlyPrefixes ==
  ASSUME NEW t \in Instant, NEW u \in Instant, u > t, TextAfter[t][u]
  PROVE  Second(t) = Second(u) /\ IsPrefix(Digits(t), Digits(u))
<1>1. t \in Nat /\ u \in Nat
  BY ExportAssumption
<1>2. /\ t = 100 * Second(t) + 10 * Tenth(t) + Hundredth(t)
      /\ u = 100 * Second(u) + 10 * Tenth(u) + Hundredth(u)
      /\ Second(t) \in Nat /\ Tenth(t) \in 0 .. 9 /\ Hundredth(t) \in 0 .. 9
      /\ Second(u) \in Nat /\ Tenth(u) \in 0 .. 9 /\ Hundredth(u) \in 0 .. 9
  BY <1>1, Parts
<1>3. Second(t) = Second(u)
  <2>1. Second(t) <= Second(u)
    BY <1>2
  <2>2. Second(t) >= Second(u)
    BY <1>2 DEF TextAfter
  <2> QED
    BY <1>2, <2>1, <2>2
<1>4. 10 * Tenth(t) + Hundredth(t) < 10 * Tenth(u) + Hundredth(u)
  BY <1>1, <1>2, <1>3
<1>5. DigitsAfter(Digits(t), Digits(u))
  BY <1>2, <1>3 DEF TextAfter, DigitsAfter
<1>6. SUFFICES ASSUME ~IsPrefix(Digits(t), Digits(u)) PROVE FALSE
  BY <1>3
<1>7. 20 * TenthKey(t) + HundredthKey(t) > 20 * TenthKey(u) + HundredthKey(u)
  BY <1>1, <1>5, DigitsOrder
<1>8. Hundredth(t) = 0
  BY <1>2, <1>4, <1>7 DEF TenthKey, HundredthKey
<1>9. CASE Tenth(t) = 0
  <2>1. Digits(t) = <<>>
    BY <1>1, <1>8, <1>9, DigitsAre
  <2>2. Tenth(u) # 0 \/ Hundredth(u) # 0
    BY <1>2, <1>4
  <2>3. Digits(u) = <<Tenth(u), Hundredth(u)>> \/ Digits(u) = <<Tenth(u)>>
    BY <1>1, <1>2, <2>2, DigitsAre
  <2>4. Len(Digits(u)) > 0
    BY <2>3
  <2>5. IsPrefix(<<>>, Digits(u))
    BY <2>4 DEF IsPrefix
  <2> QED
    BY <1>6, <2>1, <2>5
<1>10. CASE Tenth(t) # 0
  <2>1. Tenth(u) = Tenth(t) /\ Hundredth(u) # 0
    BY <1>2, <1>4, <1>7, <1>8, <1>10 DEF TenthKey, HundredthKey
  <2>2. Digits(t) = <<Tenth(t)>> /\ Digits(u) = <<Tenth(t), Hundredth(u)>>
    BY <1>1, <1>8, <1>10, <2>1, DigitsAre
  <2> QED
    BY <1>6, <2>2 DEF IsPrefix
<1> QED
  BY <1>9, <1>10

-----------------------------------------------------------------------------
(* The list of runs.                                                       *)

\* The numbers of predecessors among the first n numbers.
IsRank(rank, n, R) == rank = [i \in 1 .. n |-> Cardinality({j \in 1 .. n : <<j, i>> \in R})]

\* In a strict order of n numbers each number of predecessors occurs.
LEMMA Ranks ==
  ASSUME NEW n \in Nat, NEW R,
         \A i \in 1 .. n : ~(<<i, i>> \in R),
         \A i, j, k \in 1 .. n : <<i, j>> \in R /\ <<j, k>> \in R => <<i, k>> \in R,
         \A i, j \in 1 .. n : i # j => <<i, j>> \in R \/ <<j, i>> \in R,
         NEW rank, IsRank(rank, n, R)
  PROVE  /\ rank \in [1 .. n -> 0 .. n - 1]
         /\ \A i, k \in 1 .. n : <<i, k>> \in R => rank[i] < rank[k]
         /\ \A m \in 0 .. n - 1 : \E i \in 1 .. n : rank[i] = m
<1> DEFINE Below(i) == {j \in 1 .. n : <<j, i>> \in R}
<1>1. IsFiniteSet(1 .. n) /\ Cardinality(1 .. n) = n
  BY FS_Interval
<1>2. ASSUME NEW i \in 1 .. n
      PROVE  IsFiniteSet(Below(i)) /\ rank[i] = Cardinality(Below(i)) /\ rank[i] \in 0 .. n - 1
  <2>1. Below(i) \in SUBSET (1 .. n)
    OBVIOUS
  <2>2. IsFiniteSet(Below(i)) /\ Cardinality(Below(i)) <= n
        /\ (Cardinality(1 .. n) = Cardinality(Below(i)) => 1 .. n = Below(i))
    <3> HIDE DEF Below
    <3> QED
      BY <1>1, <2>1, FS_Subset
  <2>3. 1 .. n # Below(i)
    OBVIOUS
  <2>4. rank[i] = Cardinality(Below(i))
    BY DEF IsRank
  <2>5. Cardinality(Below(i)) \in Nat
    BY <2>2, FS_CardinalityType
  <2> QED
    BY <1>1, <2>2, <2>3, <2>4, <2>5
<1>3. ASSUME NEW i \in 1 .. n, NEW k \in 1 .. n, <<i, k>> \in R PROVE rank[i] < rank[k]
  <2>1. Below(i) \in SUBSET Below(k)
    BY <1>3
  <2>2. i \in Below(k) /\ ~(i \in Below(i))
    BY <1>3
  <2> HIDE DEF Below
  <2>3. IsFiniteSet(Below(k)) /\ rank[k] = Cardinality(Below(k)) /\ rank[k] \in Nat
    BY <1>2
  <2>4. rank[i] = Cardinality(Below(i)) /\ rank[i] \in Nat
    BY <1>2
  <2>5. /\ Cardinality(Below(i)) <= Cardinality(Below(k))
        /\ Cardinality(Below(k)) = Cardinality(Below(i)) => Below(k) = Below(i)
    BY <2>1, <2>3, FS_Subset
  <2> QED
    BY <2>2, <2>3, <2>4, <2>5
<1>4. rank \in [1 .. n -> 0 .. n - 1]
  <2>1. rank = [i \in 1 .. n |-> rank[i]]
    BY DEF IsRank
  <2> QED
    BY <1>2, <2>1
<1>5. ASSUME NEW i \in 1 .. n, NEW k \in 1 .. n, rank[i] = rank[k] PROVE i = k
  <2>1. rank[i] \in 0 .. n - 1 /\ rank[k] \in 0 .. n - 1
    BY <1>4
  <2>2. ~(<<i, k>> \in R)
    BY <1>3, <1>5, <2>1
  <2>3. ~(<<k, i>> \in R)
    BY <1>3, <1>5, <2>1
  <2> QED
    BY <2>2, <2>3
<1>6. rank \in Injection(1 .. n, 0 .. n - 1)
  BY <1>4, <1>5 DEF Injection, IsInjective
<1>7. IsFiniteSet(0 .. n - 1) /\ Cardinality(0 .. n - 1) = n
  <2> DEFINE b == n - 1
  <2>1. b \in Int /\ (IF 0 > b THEN 0 ELSE b - 0 + 1) = n
    OBVIOUS
  <2> HIDE DEF b
  <2>2. IsFiniteSet(0 .. b) /\ Cardinality(0 .. b) = IF 0 > b THEN 0 ELSE b - 0 + 1
    BY <2>1, FS_Interval
  <2>3. IsFiniteSet(0 .. b) /\ Cardinality(0 .. b) = n
    BY <2>1, <2>2
  <2> QED
    BY <2>3 DEF b
<1>8. rank \in Surjection(1 .. n, 0 .. n - 1)
  <2>1. Cardinality(1 .. n) = Cardinality(0 .. n - 1)
    BY <1>1, <1>7
  <2> QED
    BY <1>6, <1>7, <2>1, FS_Injection
<1>9. \A m \in 0 .. n - 1 : \E i \in 1 .. n : rank[i] = m
  BY <1>8 DEF Surjection
<1> QED
  BY <1>3, <1>4, <1>9

Run == [scope : Scope, started : Instant, status : {"running", "ok", "failed"},
        rows : SUBSET Resource, edges : SUBSET Link]

LEMMA RunsAre ==
  ASSUME runs \in Seq(Run)
  PROVE  /\ Len(runs) \in Nat /\ DOMAIN runs = 1 .. Len(runs)
         /\ \A i \in DOMAIN runs : /\ runs[i].scope \in Scope /\ runs[i].started \in Instant
                                   /\ runs[i].started \in Nat
<1>1. Len(runs) \in Nat /\ DOMAIN runs = 1 .. Len(runs) /\ \A i \in DOMAIN runs : runs[i] \in Run
  BY LenProperties, ElementOfSeq
<1>2. \A i \in DOMAIN runs : runs[i].scope \in Scope /\ runs[i].started \in Instant
  BY <1>1 DEF Run
<1> QED
  BY <1>1, <1>2, ExportAssumption

LEMMA BeforeIs ==
  ASSUME runs \in Seq(Run), NEW i \in DOMAIN runs, NEW j \in DOMAIN runs
  PROVE  Before(i, j) <=> \/ Key(runs[i].started) > Key(runs[j].started)
                          \/ Key(runs[i].started) = Key(runs[j].started) /\ i > j
<1>1. /\ runs[i].started \in Instant /\ runs[i].started \in Nat
      /\ runs[j].started \in Instant /\ runs[j].started \in Nat
  BY RunsAre
<1>2. Key(runs[i].started) = Key(runs[j].started) <=> runs[i].started = runs[j].started
  BY <1>1, KeyIsOne
<1>3. TextAfter[runs[i].started][runs[j].started]
        <=> Key(runs[i].started) > Key(runs[j].started)
  BY <1>1, TextOrder
<1> QED
  BY <1>2, <1>3 DEF Before

LEMMA BeforeOrders ==
  ASSUME runs \in Seq(Run)
  PROVE  /\ \A i \in DOMAIN runs : ~Before(i, i)
         /\ \A i, j, k \in DOMAIN runs : Before(i, j) /\ Before(j, k) => Before(i, k)
         /\ \A i, j \in DOMAIN runs : i # j => Before(i, j) \/ Before(j, i)
<1>1. ASSUME NEW i \in DOMAIN runs PROVE Key(runs[i].started) \in Nat /\ i \in Nat
  <2>1. runs[i].started \in Nat /\ i \in Nat
    BY RunsAre
  <2> QED
    BY <2>1, Parts
<1>2. \A i \in DOMAIN runs : ~Before(i, i)
  BY <1>1, BeforeIs
<1>3. ASSUME NEW i \in DOMAIN runs, NEW j \in DOMAIN runs, NEW k \in DOMAIN runs,
             Before(i, j), Before(j, k)
      PROVE  Before(i, k)
  BY <1>1, <1>3, BeforeIs
<1>4. ASSUME NEW i \in DOMAIN runs, NEW j \in DOMAIN runs, i # j
      PROVE  Before(i, j) \/ Before(j, i)
  BY <1>1, <1>4, BeforeIs
<1> QED
  BY <1>2, <1>3, <1>4

\* Every run is on the list, and once, after those it comes after.
LEMMA ListIs ==
  ASSUME runs \in Seq(Run)
  PROVE  /\ \A n \in DOMAIN runs : ListRuns[n] \in DOMAIN runs
         /\ \A m, n \in DOMAIN runs : m < n => Before(ListRuns[m], ListRuns[n])
         /\ \A i \in DOMAIN runs : \E n \in DOMAIN runs : ListRuns[n] = i
<1> DEFINE N == Len(runs)
           R == {p \in (1 .. N) \X (1 .. N) : Before(p[1], p[2])}
           rank == [i \in 1 .. N |-> Cardinality({j \in 1 .. N : <<j, i>> \in R})]
<1>1. N \in Nat /\ DOMAIN runs = 1 .. N
  BY RunsAre
<1>2. \A i, j \in 1 .. N : <<i, j>> \in R <=> Before(i, j)
  OBVIOUS
<1>3. /\ \A i \in 1 .. N : ~(<<i, i>> \in R)
      /\ \A i, j, k \in 1 .. N : <<i, j>> \in R /\ <<j, k>> \in R => <<i, k>> \in R
      /\ \A i, j \in 1 .. N : i # j => <<i, j>> \in R \/ <<j, i>> \in R
  <2> HIDE DEF R, N
  <2> QED
    BY <1>1, <1>2, BeforeOrders
<1>4. \A i \in 1 .. N : {j \in 1 .. N : <<j, i>> \in R} = {j \in DOMAIN runs : Before(j, i)}
  <2> HIDE DEF R, N
  <2> QED
    BY <1>1, <1>2
<1>5. \A i \in 1 .. N : rank[i] = Cardinality({j \in DOMAIN runs : Before(j, i)})
  <2> HIDE DEF R, N
  <2> QED
    BY <1>4
<1>6. /\ rank \in [1 .. N -> 0 .. N - 1]
      /\ \A i, k \in 1 .. N : <<i, k>> \in R => rank[i] < rank[k]
      /\ \A m \in 0 .. N - 1 : \E i \in 1 .. N : rank[i] = m
  <2>1. IsRank(rank, N, R)
    BY DEF IsRank
  <2> HIDE DEF R, N, rank
  <2> QED
    BY <1>1, <1>3, <2>1, Ranks
<1> HIDE DEF R, N, rank
<1>7. ASSUME NEW n \in 1 .. N
      PROVE  ListRuns[n] \in 1 .. N /\ rank[ListRuns[n]] = n - 1
  <2>1. ListRuns[n] = CHOOSE i \in DOMAIN runs :
                        Cardinality({j \in DOMAIN runs : Before(j, i)}) = n - 1
    BY <1>1 DEF ListRuns
  <2>2. \E i \in 1 .. N : rank[i] = n - 1
    BY <1>1, <1>6
  <2>3. \E i \in DOMAIN runs : Cardinality({j \in DOMAIN runs : Before(j, i)}) = n - 1
    BY <1>1, <1>5, <2>2
  <2>4. /\ ListRuns[n] \in DOMAIN runs
        /\ Cardinality({j \in DOMAIN runs : Before(j, ListRuns[n])}) = n - 1
    BY <2>1, <2>3
  <2> QED
    BY <1>1, <1>5, <2>4
<1>8. ASSUME NEW m \in 1 .. N, NEW n \in 1 .. N, m < n
      PROVE  Before(ListRuns[m], ListRuns[n])
  <2>1. ListRuns[m] \in 1 .. N /\ ListRuns[n] \in 1 .. N
    BY <1>7
  <2>2. rank[ListRuns[m]] = m - 1 /\ rank[ListRuns[n]] = n - 1
    BY <1>7
  <2>3. ~(rank[ListRuns[n]] <= rank[ListRuns[m]])
    BY <1>1, <1>8, <2>2
  <2>4. ListRuns[m] # ListRuns[n]
    BY <1>1, <2>2, <1>8
  <2>5. ~(<<ListRuns[n], ListRuns[m]>> \in R)
    <3>1. rank[ListRuns[n]] \in Int /\ rank[ListRuns[m]] \in Int
      BY <2>2
    <3> QED
      BY <1>6, <2>1, <2>3, <3>1
  <2> QED
    BY <1>2, <1>3, <2>1, <2>4, <2>5
<1>9. ASSUME NEW i \in 1 .. N PROVE \E n \in 1 .. N : ListRuns[n] = i
  <2>1. rank[i] \in 0 .. N - 1
    BY <1>6
  <2> DEFINE n == rank[i] + 1
  <2>2. n \in 1 .. N
    BY <1>1, <2>1
  <2>3. ListRuns[n] \in 1 .. N /\ rank[ListRuns[n]] = rank[i]
    BY <1>1, <1>7, <2>1, <2>2
  <2>4. ~(<<ListRuns[n], i>> \in R) /\ ~(<<i, ListRuns[n]>> \in R)
    BY <1>6, <2>1, <2>3
  <2>5. ListRuns[n] = i
    BY <1>3, <2>3, <2>4
  <2> QED
    BY <2>2, <2>5
<1> QED
  BY <1>1, <1>7, <1>8, <1>9

-----------------------------------------------------------------------------
(* The walk along the list.                                                *)

WalkStep(w, n) ==
  IF n = 0 THEN <<>>
  ELSE IF Seen(w[n - 1], runs[ListRuns[n]].scope) THEN w[n - 1]
  ELSE Append(w[n - 1], ListRuns[n])

IsWalk(w) == w = [n \in 0 .. Len(runs) |-> WalkStep(w, n)]

LEMMA WalkExists ==
  ASSUME Len(runs) \in Nat
  PROVE  \E w : IsWalk(w)
<1> DEFINE Has2 == {n \in Nat : \E g : g = [m \in 0 .. n |-> WalkStep(g, m)]}
<1>1. 0 \in Has2
  <2> DEFINE g == [m \in 0 .. 0 |-> <<>>]
  <2>1. \A m \in 0 .. 0 : WalkStep(g, m) = <<>>
    BY DEF WalkStep
  <2>2. g = [m \in 0 .. 0 |-> WalkStep(g, m)]
    <3> HIDE DEF g
    <3>1. g = [m \in 0 .. 0 |-> <<>>]
      BY DEF g
    <3> QED
      BY <2>1, <3>1
  <2> QED
    BY <2>2
<1>2. ASSUME NEW n \in Nat, n \in Has2 PROVE n + 1 \in Has2
  <2>1. PICK g : g = [m \in 0 .. n |-> WalkStep(g, m)]
    BY <1>2
  <2> DEFINE h == [m \in 0 .. n + 1 |-> WalkStep(g, m)]
  <2>2. \A m \in 0 .. n : h[m] = g[m]
    <3>1. \A m \in 0 .. n : h[m] = WalkStep(g, m)
      OBVIOUS
    <3>2. \A m \in 0 .. n : g[m] = WalkStep(g, m)
      BY <2>1
    <3> QED
      BY <3>1, <3>2
  <2>3. \A m \in 0 .. n + 1 : WalkStep(h, m) = WalkStep(g, m)
    <3> HIDE DEF h
    <3>1. \A m \in 0 .. n + 1 : m # 0 => m - 1 \in 0 .. n
      OBVIOUS
    <3>2. \A m \in 0 .. n + 1 : m # 0 => h[m - 1] = g[m - 1]
      BY <2>2, <3>1
    <3> QED
      BY <3>2 DEF WalkStep
  <2>4. h = [m \in 0 .. n + 1 |-> WalkStep(h, m)]
    <3>1. h = [m \in 0 .. n + 1 |-> WalkStep(g, m)]
      OBVIOUS
    <3> HIDE DEF h
    <3> QED
      BY <2>3, <3>1
  <2>5. \E f : f = [m \in 0 .. n + 1 |-> WalkStep(f, m)]
    <3> HIDE DEF h
    <3> QED
      BY <2>4
  <2> QED
    BY <2>5
<1> HIDE DEF Has2
<1>3. 0 .. Len(runs) \subseteq Has2
  BY <1>1, <1>2, UpTo
<1> QED
  BY <1>3 DEF Has2, IsWalk

\* What the first n runs of the list give: each is the first of its scope among
\* them, every scope among them is there, and none is twice.
Walked(n, out) ==
  /\ out \in Seq(DOMAIN runs)
  /\ \A a \in DOMAIN out : \E m \in 1 .. n :
       /\ out[a] = ListRuns[m]
       /\ \A l \in 1 .. m - 1 : runs[ListRuns[l]].scope # runs[out[a]].scope
  /\ \A m \in 1 .. n : \E a \in DOMAIN out : runs[out[a]].scope = runs[ListRuns[m]].scope
  /\ \A a, b \in DOMAIN out : runs[out[a]].scope = runs[out[b]].scope => a = b

LEMMA WalksOn ==
  ASSUME runs \in Seq(Run), NEW n \in 0 .. Len(runs) - 1, NEW out, Walked(n, out),
         NEW next, next = IF Seen(out, runs[ListRuns[n + 1]].scope) THEN out
                          ELSE Append(out, ListRuns[n + 1])
  PROVE  Walked(n + 1, next)
<1> DEFINE i == ListRuns[n + 1]   s == runs[i].scope
<1>1. Len(runs) \in Nat /\ DOMAIN runs = 1 .. Len(runs) /\ n + 1 \in DOMAIN runs /\ i \in DOMAIN runs
  BY RunsAre, ListIs
<1>2. /\ out \in Seq(DOMAIN runs)
      /\ Len(out) \in Nat /\ DOMAIN out = 1 .. Len(out)
      /\ \A a \in DOMAIN out : \E m \in 1 .. n :
           /\ out[a] = ListRuns[m]
           /\ \A l \in 1 .. m - 1 : runs[ListRuns[l]].scope # runs[out[a]].scope
      /\ \A m \in 1 .. n : \E a \in DOMAIN out : runs[out[a]].scope = runs[ListRuns[m]].scope
      /\ \A a, b \in DOMAIN out : runs[out[a]].scope = runs[out[b]].scope => a = b
  BY LenProperties DEF Walked
<1>3. 1 .. n + 1 = (1 .. n) \cup {n + 1} /\ 1 .. n \subseteq 1 .. n + 1
  BY <1>1
<1>4. CASE Seen(out, s)
  <2>1. next = out
    BY <1>4
  <2>2. \E a \in DOMAIN out : runs[out[a]].scope = s
    BY <1>4 DEF Seen
  <2>3. \A m \in 1 .. n + 1 : \E a \in DOMAIN out : runs[out[a]].scope = runs[ListRuns[m]].scope
    BY <1>2, <1>3, <2>2
  <2>4. \A a \in DOMAIN out : \E m \in 1 .. n + 1 :
           /\ out[a] = ListRuns[m]
           /\ \A l \in 1 .. m - 1 : runs[ListRuns[l]].scope # runs[out[a]].scope
    BY <1>2, <1>3
  <2>5. Walked(n + 1, out)
    <3>1. /\ out \in Seq(DOMAIN runs)
          /\ \A a, b \in DOMAIN out : runs[out[a]].scope = runs[out[b]].scope => a = b
      BY <1>2
    <3> QED
      BY <2>3, <2>4, <3>1 DEF Walked
  <2> QED
    BY <2>1, <2>5
<1>5. CASE ~Seen(out, s)
  <2>1. next = Append(out, i)
    BY <1>5
  <2> HIDE DEF i
  <2>2. /\ next \in Seq(DOMAIN runs)
        /\ DOMAIN next = (DOMAIN out) \cup {Len(out) + 1}
        /\ \A a \in DOMAIN out : next[a] = out[a]
        /\ next[Len(out) + 1] = i
    <3>1. Append(out, i) \in Seq(DOMAIN runs) /\ Len(Append(out, i)) = Len(out) + 1
      BY <1>1, <1>2
    <3>2. DOMAIN Append(out, i) = 1 .. Len(out) + 1
      BY <1>2, <3>1
    <3>3. Append(out, i)[Len(out) + 1] = i
      BY <1>2
    <3>4. \A a \in DOMAIN out : Append(out, i)[a] = out[a]
      BY <1>2
    <3>5. 1 .. Len(out) + 1 = (1 .. Len(out)) \cup {Len(out) + 1}
      BY <1>2
    <3> QED
      BY <1>2, <2>1, <3>1, <3>2, <3>3, <3>4, <3>5
  <2> DEFINE z == Len(out) + 1
  <2>3. z \notin DOMAIN out
    BY <1>2
  <2> HIDE DEF z
  <2>4. \A a \in DOMAIN out : runs[out[a]].scope # s
    BY <1>5 DEF Seen
  <2>5. \A m \in 1 .. n : runs[ListRuns[m]].scope # s
    BY <1>2, <2>4
  <2>6. i = ListRuns[n + 1] /\ (n + 1) - 1 = n
    BY <1>1 DEF i
  <2>7. /\ next[z] = ListRuns[n + 1]
        /\ \A l \in 1 .. (n + 1) - 1 : runs[ListRuns[l]].scope # runs[next[z]].scope
    BY <2>2, <2>5, <2>6 DEF z
  <2>8. ASSUME NEW a \in DOMAIN next
        PROVE  \E m \in 1 .. n + 1 :
                 /\ next[a] = ListRuns[m]
                 /\ \A l \in 1 .. m - 1 : runs[ListRuns[l]].scope # runs[next[a]].scope
    <3>1. CASE a = z
      BY <1>3, <2>7, <3>1
    <3>2. CASE a \in DOMAIN out
      <4>1. next[a] = out[a]
        BY <2>2, <3>2
      <4>2. PICK m \in 1 .. n :
              /\ out[a] = ListRuns[m]
              /\ \A l \in 1 .. m - 1 : runs[ListRuns[l]].scope # runs[out[a]].scope
        BY <1>2, <3>2
      <4>3. m \in 1 .. n + 1
        BY <1>3
      <4> QED
        BY <4>1, <4>2, <4>3
    <3> QED
      BY <2>2, <3>1, <3>2 DEF z
  <2>9. ASSUME NEW m \in 1 .. n + 1
        PROVE  \E a \in DOMAIN next : runs[next[a]].scope = runs[ListRuns[m]].scope
    <3>1. CASE m = n + 1
      BY <2>2, <2>6, <3>1 DEF z
    <3>2. CASE m \in 1 .. n
      <4>1. PICK a \in DOMAIN out : runs[out[a]].scope = runs[ListRuns[m]].scope
        BY <1>2, <3>2
      <4> QED
        BY <2>2, <4>1
    <3> QED
      BY <1>3, <3>1, <3>2
  <2>10. ASSUME NEW a \in DOMAIN next, NEW b \in DOMAIN next,
                runs[next[a]].scope = runs[next[b]].scope
         PROVE  a = b
    <3>1. CASE a \in DOMAIN out /\ b \in DOMAIN out
      BY <1>2, <2>2, <2>10, <3>1
    <3>2. CASE a = z /\ b \in DOMAIN out
      BY <2>2, <2>4, <2>10, <3>2 DEF z
    <3>3. CASE a \in DOMAIN out /\ b = z
      BY <2>2, <2>4, <2>10, <3>3 DEF z
    <3> QED
      BY <2>2, <3>1, <3>2, <3>3 DEF z
  <2> QED
    BY <2>2, <2>8, <2>9, <2>10 DEF Walked
<1> QED
  BY <1>4, <1>5

LEMMA EveryScopeIs ==
  ASSUME runs \in Seq(Run)
  PROVE  Walked(Len(runs), EveryScope)
<1> DEFINE w == CHOOSE f : IsWalk(f)
<1>1. Len(runs) \in Nat
  BY RunsAre
<1>2. IsWalk(w)
  BY <1>1, WalkExists
<1>3. EveryScope = w[Len(runs)]
  BY DEF EveryScope, IsWalk, WalkStep
<1> HIDE DEF w
<1> DEFINE Good == {n \in 0 .. Len(runs) : Walked(n, w[n])}
<1>4. 0 \in Good
  <2>1. w[0] = <<>>
    BY <1>1, <1>2 DEF IsWalk, WalkStep
  <2>2. <<>> \in Seq(DOMAIN runs) /\ DOMAIN <<>> = {} /\ 1 .. 0 = {}
    OBVIOUS
  <2>3. Walked(0, <<>>)
    BY <2>2 DEF Walked
  <2> QED
    BY <1>1, <2>1, <2>3
<1>5. ASSUME NEW n \in 0 .. Len(runs) - 1, n \in Good PROVE n + 1 \in Good
  <2>1. n + 1 \in 0 .. Len(runs) /\ n + 1 # 0 /\ (n + 1) - 1 = n
    BY <1>1
  <2>2. w[n + 1] = WalkStep(w, n + 1)
    BY <1>2, <2>1 DEF IsWalk
  <2>3. w[n + 1] = IF Seen(w[n], runs[ListRuns[n + 1]].scope) THEN w[n]
                   ELSE Append(w[n], ListRuns[n + 1])
    BY <2>1, <2>2 DEF WalkStep
  <2>4. Walked(n, w[n])
    BY <1>5
  <2>5. Walked(n + 1, w[n + 1])
    BY <2>3, <2>4, WalksOn
  <2> QED
    BY <2>1, <2>5
<1> HIDE DEF Good
<1>6. 0 .. Len(runs) \subseteq Good
  BY <1>1, <1>4, <1>5, UpTo
<1>7. Len(runs) \in Good
  BY <1>1, <1>6
<1> QED
  BY <1>3, <1>7 DEF Good

\* A run the walk takes comes before every other of its scope.
LEMMA TakenIsLatest ==
  ASSUME runs \in Seq(Run), NEW a \in DOMAIN EveryScope
  PROVE  /\ EveryScope[a] \in DOMAIN runs
         /\ EveryScope[a] \in LatestRunForScope(runs[EveryScope[a]].scope)
<1> DEFINE i == EveryScope[a]
<1>1. Walked(Len(runs), EveryScope)
  BY EveryScopeIs
<1>2. Len(runs) \in Nat /\ DOMAIN runs = 1 .. Len(runs)
  BY RunsAre
<1>3. PICK m \in 1 .. Len(runs) :
        /\ i = ListRuns[m]
        /\ \A l \in 1 .. m - 1 : runs[ListRuns[l]].scope # runs[i].scope
  BY <1>1 DEF Walked
<1> HIDE DEF i
<1>4. i \in DOMAIN runs
  BY <1>2, <1>3, ListIs
<1>5. ASSUME NEW j \in DOMAIN runs \ {i}, runs[j].scope = runs[i].scope
      PROVE  Before(i, j)
  <2>1. PICK l \in DOMAIN runs : ListRuns[l] = j
    BY ListIs
  <2>2. ~(l \in 1 .. m - 1) /\ l # m
    BY <1>3, <1>5, <2>1
  <2>3. m < l
    BY <1>2, <2>2
  <2> QED
    BY <1>2, <1>3, <2>1, <2>3, ListIs
<1>6. i \in LatestRunForScope(runs[i].scope)
  BY <1>4, <1>5 DEF LatestRunForScope
<1> QED
  BY <1>4, <1>6 DEF i

LEMMA LatestIsSingle ==
  ASSUME runs \in Seq(Run), NEW s, NEW i \in LatestRunForScope(s)
  PROVE  LatestRunForScope(s) = {i} /\ i \in DOMAIN runs /\ runs[i].scope = s
<1>1. i \in DOMAIN runs /\ runs[i].scope = s
  BY DEF LatestRunForScope
<1>2. ASSUME NEW j \in LatestRunForScope(s), j # i PROVE FALSE
  <2>1. j \in DOMAIN runs /\ Before(i, j) /\ Before(j, i)
    BY <1>1, <1>2 DEF LatestRunForScope
  <2> QED
    BY <1>1, <2>1, BeforeOrders
<1> QED
  BY <1>1, <1>2

LEMMA LatestLemma ==
  ASSUME runs \in Seq(Run)
  PROVE  LatestIsOne
<1> DEFINE list == EveryScope
<1>1. Walked(Len(runs), list)
  BY EveryScopeIs
<1>2. Len(runs) \in Nat /\ DOMAIN runs = 1 .. Len(runs)
  BY RunsAre
<1>3. ASSUME NEW n \in DOMAIN list PROVE list[n] \in LatestRunForScope(runs[list[n]].scope)
  BY TakenIsLatest
<1>4. ASSUME NEW s \in Scope
      PROVE  Cardinality({n \in DOMAIN list : runs[list[n]].scope = s}) =
               Cardinality(LatestRunForScope(s))
  <2> HIDE DEF list
  <2>1. CASE \E j \in DOMAIN runs : runs[j].scope = s
    <3>1. PICK j \in DOMAIN runs : runs[j].scope = s
      BY <2>1
    <3>2. PICK m \in DOMAIN runs : ListRuns[m] = j
      BY ListIs
    <3>3. PICK a \in DOMAIN list : runs[list[a]].scope = s
      BY <1>1, <1>2, <3>1, <3>2 DEF Walked
    <3>4. \A b \in DOMAIN list : runs[list[b]].scope = s => b = a
      BY <1>1, <3>3 DEF Walked
    <3>5. {n \in DOMAIN list : runs[list[n]].scope = s} = {a}
      BY <3>3, <3>4
    <3>6. LatestRunForScope(s) = {list[a]}
      BY <1>3, <3>3, LatestIsSingle
    <3> QED
      BY <3>5, <3>6, FS_Singleton
  <2>2. CASE \A j \in DOMAIN runs : runs[j].scope # s
    <3>1. \A n \in DOMAIN list : list[n] \in DOMAIN runs
      BY TakenIsLatest DEF list
    <3>2. {n \in DOMAIN list : runs[list[n]].scope = s} = {}
      BY <2>2, <3>1
    <3>3. LatestRunForScope(s) = {}
      BY <2>2 DEF LatestRunForScope
    <3> QED
      BY <3>2, <3>3
  <2> QED
    BY <2>1, <2>2
<1>5. ASSUME NEW s \in Scope, NEW i \in LatestRunForScope(s), NEW j \in DOMAIN runs,
             runs[j].scope = s, runs[j].started > runs[i].started
      PROVE  /\ Second(runs[i].started) = Second(runs[j].started)
             /\ IsPrefix(Digits(runs[i].started), Digits(runs[j].started))
  <2>1. i \in DOMAIN runs /\ runs[i].scope = s
    BY LatestIsSingle
  <2>2. /\ runs[i].started \in Instant /\ runs[i].started \in Nat
        /\ runs[j].started \in Instant /\ runs[j].started \in Nat
    BY <2>1, RunsAre
  <2>3. i # j /\ runs[i].started # runs[j].started
    BY <1>5, <2>2
  <2>4. Before(i, j)
    BY <1>5, <2>3 DEF LatestRunForScope
  <2>5. TextAfter[runs[i].started][runs[j].started]
    BY <2>3, <2>4 DEF Before
  <2> QED
    BY <1>5, <2>2, <2>5, OnlyPrefixes
<1> QED
  BY <1>3, <1>4, <1>5 DEF LatestIsOne

-----------------------------------------------------------------------------
(* The queries of a workbook.                                              *)

AnyQuery(n) ==
  {Counts(i) : i \in 1 .. n} \cup {Rows(k, i) : k \in Kind, i \in 1 .. n}
    \cup {Edges(i) : i \in 1 .. n}

LEMMA KindsAre ==
  /\ Len(KindOrder) \in Nat /\ DOMAIN KindOrder = 1 .. Len(KindOrder)
  /\ \A a \in 1 .. Len(KindOrder) : KindOrder[a] \in Kind
  /\ \A k \in Kind : \E a \in 1 .. Len(KindOrder) : KindOrder[a] = k
BY ExportAssumption, LenProperties DEF Kind

\* The place of a sheet's query for a run, and the sheet and run of a place.
LEMMA SheetAt ==
  ASSUME NEW n \in Nat \ {0}, NEW c \in Nat, NEW j \in 1 .. n * c
  PROVE  1 + ((j - 1) \div n) \in 1 .. c /\ 1 + ((j - 1) % n) \in 1 .. n
<1> DEFINE m == j - 1   q == m \div n   r == m % n
<1>0. n * c \in Nat
  BY Times
<1>1. m \in Nat /\ m < n * c
  BY <1>0
<1>2. q \in Nat /\ r \in 0 .. n - 1 /\ m = n * q + r
  BY <1>1, DivModRange
<1> HIDE DEF m, q, r
<1>3. q < c
  <2>1. SUFFICES ASSUME c <= q PROVE FALSE
    BY <1>2
  <2>2. n * c \in Nat /\ n * c <= n * q /\ n * q \in Nat
    BY <1>2, <2>1, Times
  <2> QED
    BY <1>1, <1>2, <2>2
<1>4. 1 + q \in 1 .. c /\ 1 + r \in 1 .. n
  BY <1>2, <1>3
<1> QED
  BY <1>4 DEF m, q, r

LEMMA PlaceOf ==
  ASSUME NEW n \in Nat \ {0}, NEW c \in Nat, NEW a \in 1 .. c, NEW i \in 1 .. n
  PROVE  \E j \in 1 .. n * c : 1 + ((j - 1) \div n) = a /\ 1 + ((j - 1) % n) = i
<1> DEFINE q == a - 1   r == i - 1   j == n * q + r + 1
<1>1. q \in Nat /\ r \in 0 .. n - 1 /\ q + 1 <= c
  OBVIOUS
<1> HIDE DEF q, r
<1>2. n * q \in Nat /\ n * (q + 1) <= n * c /\ n * c \in Nat
  BY <1>1, Times
<1>3. n * (q + 1) = n * q + n
  BY <1>1
<1>4. j \in 1 .. n * c
  BY <1>1, <1>2, <1>3
<1>5. j - 1 = n * q + r
  BY <1>1, <1>2
<1>6. (n * q + r) \div n = q /\ (n * q + r) % n = r
  BY <1>1, DivMod
<1>7. 1 + ((j - 1) \div n) = a /\ 1 + ((j - 1) % n) = i
  BY <1>5, <1>6 DEF q, r
<1> QED
  BY <1>4, <1>7

\* u is s, of length a, and then t, of length b.
IsJoin(u, S, s, a, t, b) ==
  /\ u \in Seq(S) /\ Len(u) = a + b
  /\ \A i \in 1 .. a + b : u[i] = IF i <= a THEN s[i] ELSE t[i - a]

LEMMA Joined ==
  ASSUME NEW S, NEW s \in Seq(S), NEW t \in Seq(S),
         NEW a \in Nat, Len(s) = a, NEW b \in Nat, Len(t) = b
  PROVE  IsJoin(s \o t, S, s, a, t, b)
<1>1. /\ s \o t \in Seq(S) /\ Len(s \o t) = Len(s) + Len(t)
      /\ \A i \in 1 .. Len(s) + Len(t) :
           (s \o t)[i] = IF i <= Len(s) THEN s[i] ELSE t[i - Len(s)]
  BY ConcatProperties
<1> QED
  BY <1>1 DEF IsJoin

LEMMA QueriesAre ==
  ASSUME NEW n \in Nat \ {0}
  PROVE  LET c == Len(KindOrder)
             q == Queries(n)
         IN  /\ n * c \in Nat
             /\ q \in Seq(AnyQuery(n)) /\ Len(q) = n + n * c + n
             /\ \A i \in 1 .. n : q[i] = Counts(i)
             /\ \A j \in 1 .. n * c :
                  q[n + j] = Rows(KindOrder[1 + ((j - 1) \div n)], 1 + ((j - 1) % n))
             /\ \A i \in 1 .. n : q[n + n * c + i] = Edges(i)
<1> DEFINE c == Len(KindOrder)
           m == n * c
           A == AnyQuery(n)
           s1 == [i \in 1 .. n |-> Counts(i)]
           s2 == [j \in 1 .. m |->
                    Rows(KindOrder[1 + ((j - 1) \div n)], 1 + ((j - 1) % n))]
           s3 == [i \in 1 .. n |-> Edges(i)]
<1>1. c \in Nat /\ m \in Nat
  BY KindsAre, Times
<1>2. s1 \in [1 .. n -> A] /\ s3 \in [1 .. n -> A]
  BY DEF AnyQuery
<1>3. s2 \in [1 .. m -> A]
  <2>1. \A j \in 1 .. m : /\ KindOrder[1 + ((j - 1) \div n)] \in Kind
                          /\ 1 + ((j - 1) % n) \in 1 .. n
    BY <1>1, SheetAt, KindsAre
  <2> QED
    BY <2>1 DEF AnyQuery
<1>4. Queries(n) = s1 \o s2 \o s3
  BY DEF Queries
<1>5. /\ \A i \in 1 .. n : s1[i] = Counts(i) /\ s3[i] = Edges(i)
      /\ \A j \in 1 .. m : s2[j] = Rows(KindOrder[1 + ((j - 1) \div n)], 1 + ((j - 1) % n))
  OBVIOUS
<1> HIDE DEF s1, s2, s3, A, m, c
<1>6. /\ s1 \in Seq(A) /\ Len(s1) = n
      /\ s2 \in Seq(A) /\ Len(s2) = m
      /\ s3 \in Seq(A) /\ Len(s3) = n
  BY <1>1, <1>2, <1>3
<1>7. /\ s1 \o s2 \in Seq(A) /\ Len(s1 \o s2) = n + m
      /\ \A i \in 1 .. n + m : (s1 \o s2)[i] = IF i <= n THEN s1[i] ELSE s2[i - n]
  <2>1. n \in Nat
    OBVIOUS
  <2>2. IsJoin(s1 \o s2, A, s1, n, s2, m)
    BY <1>1, <1>6, <2>1, Joined
  <2> QED
    BY <2>2 DEF IsJoin
<1>8. /\ s1 \o s2 \o s3 \in Seq(A) /\ Len(s1 \o s2 \o s3) = n + m + n
      /\ \A i \in 1 .. n + m + n :
           (s1 \o s2 \o s3)[i] = IF i <= n + m THEN (s1 \o s2)[i] ELSE s3[i - (n + m)]
  <2> DEFINE s == s1 \o s2   b == n + m
  <2>1. s \in Seq(A) /\ Len(s) = b /\ b \in Nat
    BY <1>1, <1>7
  <2> HIDE DEF s, b
  <2>2. n \in Nat
    OBVIOUS
  <2>3. IsJoin(s \o s3, A, s, b, s3, n)
    BY <1>6, <2>1, <2>2, Joined
  <2> QED
    BY <2>3 DEF IsJoin, s, b
<1>9. ASSUME NEW i \in 1 .. n PROVE Queries(n)[i] = Counts(i)
  <2>1. i \in 1 .. n + m + n /\ i \in 1 .. n + m /\ i <= n + m /\ i <= n
    BY <1>1
  <2> QED
    BY <1>4, <1>5, <1>7, <1>8, <2>1
<1>10. ASSUME NEW j \in 1 .. m PROVE Queries(n)[n + j] = s2[j]
  <2>1. /\ n + j \in 1 .. n + m + n /\ n + j \in 1 .. n + m /\ n + j <= n + m
        /\ ~(n + j <= n) /\ (n + j) - n = j
    BY <1>1
  <2> QED
    BY <1>4, <1>7, <1>8, <2>1
<1>11. ASSUME NEW i \in 1 .. n PROVE Queries(n)[n + m + i] = Edges(i)
  <2>1. /\ n + m + i \in 1 .. n + m + n /\ ~(n + m + i <= n + m)
        /\ (n + m + i) - (n + m) = i
    BY <1>1
  <2> QED
    BY <1>4, <1>5, <1>8, <2>1
<1>12. Queries(n) \in Seq(A) /\ Len(Queries(n)) = n + m + n
  BY <1>4, <1>8
<1> QED
  BY <1>1, <1>5, <1>9, <1>10, <1>11, <1>12 DEF m, c, A

\* What is asked at a place, and that everything is asked.
LEMMA PlaceIs ==
  ASSUME NEW n \in Nat \ {0}, NEW p \in 1 .. Len(Queries(n))
  PROVE  \/ p \in 1 .. n /\ Queries(n)[p] = Counts(p)
         \/ p > n /\ \E k \in Kind, i \in 1 .. n : Queries(n)[p] = Rows(k, i)
         \/ p > n /\ \E i \in 1 .. n : Queries(n)[p] = Edges(i)
<1> DEFINE c == Len(KindOrder)   m == n * c
<1>1. /\ m \in Nat /\ Len(Queries(n)) = n + m + n
      /\ \A i \in 1 .. n : Queries(n)[i] = Counts(i)
      /\ \A j \in 1 .. m :
           Queries(n)[n + j] = Rows(KindOrder[1 + ((j - 1) \div n)], 1 + ((j - 1) % n))
      /\ \A i \in 1 .. n : Queries(n)[n + m + i] = Edges(i)
  BY QueriesAre
<1>2. c \in Nat /\ \A a \in 1 .. c : KindOrder[a] \in Kind
  BY KindsAre
<1>3. \A j \in 1 .. m : 1 + ((j - 1) \div n) \in 1 .. c /\ 1 + ((j - 1) % n) \in 1 .. n
  BY <1>2, SheetAt
<1> HIDE DEF m, c
<1>4. CASE p \in 1 .. n
  BY <1>1, <1>4
<1>5. CASE p > n /\ p <= n + m
  <2> DEFINE j == p - n
  <2>1. j \in 1 .. m /\ n + j = p
    BY <1>1, <1>5
  <2> HIDE DEF j
  <2>2. Queries(n)[p] = Rows(KindOrder[1 + ((j - 1) \div n)], 1 + ((j - 1) % n))
    BY <1>1, <2>1
  <2>3. KindOrder[1 + ((j - 1) \div n)] \in Kind /\ 1 + ((j - 1) % n) \in 1 .. n
    BY <1>2, <1>3, <2>1
  <2> QED
    BY <1>5, <2>2, <2>3
<1>6. CASE p > n + m
  <2> DEFINE i == p - (n + m)
  <2>1. i \in 1 .. n /\ n + m + i = p /\ p > n
    BY <1>1, <1>6
  <2> HIDE DEF i
  <2>2. Queries(n)[p] = Edges(i)
    BY <1>1, <2>1
  <2> QED
    BY <2>1, <2>2
<1> QED
  BY <1>1, <1>4, <1>5, <1>6

LEMMA AllAsked ==
  ASSUME NEW n \in Nat \ {0}
  PROVE  /\ n <= Len(Queries(n))
         /\ \A k \in Kind, i \in 1 .. n : \E p \in 1 .. Len(Queries(n)) : Queries(n)[p] = Rows(k, i)
         /\ \A i \in 1 .. n : \E p \in 1 .. Len(Queries(n)) : Queries(n)[p] = Edges(i)
<1> DEFINE c == Len(KindOrder)   m == n * c
<1>1. /\ m \in Nat /\ Len(Queries(n)) = n + m + n
      /\ \A j \in 1 .. m :
           Queries(n)[n + j] = Rows(KindOrder[1 + ((j - 1) \div n)], 1 + ((j - 1) % n))
      /\ \A i \in 1 .. n : Queries(n)[n + m + i] = Edges(i)
  BY QueriesAre
<1>2. c \in Nat /\ \A k \in Kind : \E a \in 1 .. c : KindOrder[a] = k
  BY KindsAre
<1>3. \A a \in 1 .. c, i \in 1 .. n :
        \E j \in 1 .. m : 1 + ((j - 1) \div n) = a /\ 1 + ((j - 1) % n) = i
  BY <1>2, PlaceOf
<1> HIDE DEF m, c
<1>4. ASSUME NEW k \in Kind, NEW i \in 1 .. n
      PROVE  \E p \in 1 .. Len(Queries(n)) : Queries(n)[p] = Rows(k, i)
  <2>1. PICK a \in 1 .. c : KindOrder[a] = k
    BY <1>2
  <2>2. PICK j \in 1 .. m : 1 + ((j - 1) \div n) = a /\ 1 + ((j - 1) % n) = i
    BY <1>3
  <2>3. Queries(n)[n + j] = Rows(k, i)
    BY <1>1, <2>1, <2>2
  <2>4. n + j \in 1 .. Len(Queries(n))
    BY <1>1
  <2> QED
    BY <2>3, <2>4
<1>5. ASSUME NEW i \in 1 .. n
      PROVE  \E p \in 1 .. Len(Queries(n)) : Queries(n)[p] = Edges(i)
  <2>1. n + m + i \in 1 .. Len(Queries(n))
    BY <1>1
  <2> QED
    BY <1>1, <2>1
<1> QED
  BY <1>1, <1>4, <1>5

-----------------------------------------------------------------------------
(* The state.                                                              *)

LEMMA Finite ==
  /\ \A S \in SUBSET Resource : IsFiniteSet(S) /\ Cardinality(S) \in Nat
  /\ \A S, T \in SUBSET Resource : S \subseteq T => Cardinality(S) <= Cardinality(T)
<1>1. ASSUME NEW S \in SUBSET Resource PROVE IsFiniteSet(S) /\ Cardinality(S) \in Nat
  <2>1. IsFiniteSet(S)
    BY ExportAssumption, FS_Subset
  <2> QED
    BY <2>1, FS_CardinalityType
<1>2. ASSUME NEW S \in SUBSET Resource, NEW T \in SUBSET Resource, S \subseteq T
      PROVE  Cardinality(S) <= Cardinality(T)
  BY <1>1, <1>2, FS_Subset
<1> QED
  BY <1>1, <1>2

Pick == [id : DOMAIN runs, scope : Scope, status : {"running", "ok", "failed"}]

LEMMA TypesAre ==
  ASSUME ExportTypeOK
  PROVE  /\ runs \in Seq(Run) /\ Len(runs) \in Nat /\ DOMAIN runs = 1 .. Len(runs)
         /\ Len(book.picks) \in Nat /\ DOMAIN book.picks = 1 .. Len(book.picks)
         /\ \A i \in DOMAIN book.picks :
              /\ book.picks[i].id \in DOMAIN runs
              /\ Has(i) = runs[book.picks[i].id]
              /\ Has(i).rows \subseteq Resource /\ Has(i).edges \subseteq Link
         /\ Len(book.counts) \in Nat /\ DOMAIN book.counts = 1 .. Len(book.counts)
         /\ \A i \in DOMAIN book.counts : book.counts[i] \in [Kind -> Nat]
<1>1. /\ runs \in Seq(Run)
      /\ book.picks \in Seq(Pick)
      /\ book.counts \in Seq([Kind -> Nat])
  BY DEF ExportTypeOK, Run, Pick
<1>2. Len(runs) \in Nat /\ DOMAIN runs = 1 .. Len(runs) /\ \A i \in DOMAIN runs : runs[i] \in Run
  BY <1>1, LenProperties, ElementOfSeq
<1>3. Len(book.counts) \in Nat /\ DOMAIN book.counts = 1 .. Len(book.counts)
      /\ \A i \in DOMAIN book.counts : book.counts[i] \in [Kind -> Nat]
  BY <1>1, LenProperties, ElementOfSeq
<1>4. Len(book.picks) \in Nat /\ DOMAIN book.picks = 1 .. Len(book.picks)
      /\ \A i \in DOMAIN book.picks :
           book.picks[i] \in Pick
  BY <1>1, LenProperties, ElementOfSeq
<1>5. ASSUME NEW i \in DOMAIN book.picks
      PROVE  /\ book.picks[i].id \in DOMAIN runs
             /\ Has(i) = runs[book.picks[i].id]
             /\ Has(i).rows \subseteq Resource /\ Has(i).edges \subseteq Link
  <2>1. book.picks[i].id \in DOMAIN runs
    BY <1>4 DEF Pick
  <2>2. Has(i) = runs[book.picks[i].id]
    BY DEF Has
  <2>3. Has(i) \in Run
    BY <1>2, <2>1, <2>2
  <2> QED
    BY <2>1, <2>2, <2>3 DEF Run
<1> QED
  BY <1>1, <1>2, <1>3, <1>4, <1>5

LEMMA InitInv == Init => ExportInv
<1> SUFFICES ASSUME Init PROVE ExportInv
  OBVIOUS
<1>1. /\ runs = <<>> /\ pc = "start" /\ ask = <<>> /\ todo = <<>> /\ book = NoBook
  BY DEF Init
<1>2. /\ DOMAIN book = {"multi", "picks", "counts", "rows", "edges"}
      /\ book.multi = FALSE /\ book.picks = <<>> /\ book.counts = <<>>
      /\ book.rows = {} /\ book.edges = {}
  BY <1>1 DEF NoBook
<1>3. DOMAIN book.picks = {}
  BY <1>2
<1>4. \A S : <<>> \in Seq(S)
  BY EmptySeq
<1>5. ExportTypeOK
  BY <1>1, <1>2, <1>4 DEF ExportTypeOK
<1> QED
  BY <1>1, <1>2, <1>3, <1>5 DEF ExportInv

-----------------------------------------------------------------------------
(* What scans do: rows and edges are added, and a run that has ended stays. *)

Grew ==
  /\ runs' \in Seq(Run)
  /\ DOMAIN runs \subseteq DOMAIN runs'
  /\ \A i \in DOMAIN runs :
       /\ runs[i].rows \subseteq runs'[i].rows
       /\ runs[i].edges \subseteq runs'[i].edges
       /\ runs[i].status # "running" => runs'[i] = runs[i]

LEMMA GrewTypes ==
  ASSUME ExportTypeOK, Grew, UNCHANGED <<pc, ask, todo, book>>
  PROVE  ExportTypeOK'
<1>1. Question \subseteq Question'
  BY DEF Grew, Question
<1>2. Query' = Query
  BY DEF Query
<1>3. Pick \subseteq Pick'
  BY DEF Grew, Pick
<1>4. ask' \in Seq(Question')
  <2>1. ask \in Seq(Question)
    BY DEF ExportTypeOK
  <2> QED
    BY <1>1, <2>1, SeqMonotonic
<1>5. book'.picks \in Seq(Pick')
  <2>1. book.picks \in Seq(Pick)
    BY DEF ExportTypeOK, Pick
  <2> QED
    BY <1>3, <2>1, SeqMonotonic
<1>6. todo' \in Seq(Query')
  BY <1>2 DEF ExportTypeOK
<1>7. runs' \in Seq(Run)
  BY DEF Grew
<1>8. /\ pc' \in {"start", "resolve", "read", "saved", "failed"}
      /\ DOMAIN book' = {"multi", "picks", "counts", "rows", "edges"}
      /\ book'.multi \in BOOLEAN
      /\ book'.counts \in Seq([Kind -> Nat])
      /\ book'.rows \subseteq (DOMAIN book'.picks) \X Resource
      /\ book'.edges \subseteq (DOMAIN book'.picks) \X Link
  BY DEF ExportTypeOK
<1> QED
  BY <1>4, <1>5, <1>6, <1>7, <1>8 DEF ExportTypeOK, Run, Pick

LEMMA GrewInv ==
  ASSUME ExportInv, Grew, UNCHANGED <<pc, ask, todo, book>>
  PROVE  ExportInv'
<1>1. ExportTypeOK /\ ExportTypeOK'
  BY GrewTypes DEF ExportInv
<1>2. ASSUME NEW i \in DOMAIN book.picks
      PROVE  /\ Has(i).rows \subseteq Has(i)'.rows /\ Has(i).edges \subseteq Has(i)'.edges
             /\ Has(i)'.rows \in SUBSET Resource /\ Has(i).rows \in SUBSET Resource
             /\ Has(i).status # "running" => Has(i)' = Has(i)
  <2>1. book.picks[i].id \in DOMAIN runs /\ Has(i) = runs[book.picks[i].id]
        /\ Has(i).rows \subseteq Resource
    BY <1>1, TypesAre
  <2>2. Has(i)' = runs'[book.picks[i].id]
    BY DEF Has
  <2>3. runs'[book.picks[i].id] \in Run
    BY <2>1, ElementOfSeq, LenProperties DEF Grew
  <2> QED
    BY <2>1, <2>2, <2>3 DEF Grew, Run
<1>3. /\ \A i : RowsOf(i)' = RowsOf(i)
      /\ \A i : LinksOf(i)' = LinksOf(i)
      /\ \A i : Shown(i)' <=> Shown(i)
      /\ \A i : Ended(i)' <=> Ended(i)
      /\ \A i, k : CountOf(i, k)' = CountOf(i, k)
      /\ \A q : Done(q)' <=> Done(q)
  BY DEF RowsOf, LinksOf, Shown, Ended, CountOf, Done, At, Asked
<1>4. ASSUME NEW i \in DOMAIN book.picks, NothingElse(i) PROVE NothingElse(i)'
  <2>1. /\ RowsOf(i) \subseteq (IF Shown(i) THEN Has(i)'.rows ELSE {})
        /\ LinksOf(i) \subseteq Has(i)'.edges
    BY <1>2, <1>4 DEF NothingElse
  <2>2. Ended(i) => Has(i)'.status = book.picks[i].status
    BY <1>2, <1>4 DEF NothingElse, Ended
  <2> QED
    BY <1>3, <2>1, <2>2 DEF NothingElse
<1>5. ASSUME NEW i \in DOMAIN book.picks, NothingElse(i), Ended(i) PROVE Has(i)' = Has(i)
  BY <1>2, <1>5 DEF NothingElse, Ended
<1>6. ASSUME NEW i \in DOMAIN book.picks, NothingElse(i), CountsAgree(i) PROVE CountsAgree(i)'
  <2>1. SUFFICES ASSUME i <= Len(book.counts), NEW k \in Kind
                 PROVE  LET now == Cardinality(OfKind(k, Has(i)'.rows))
                        IN  IF Shown(i)
                            THEN /\ book.counts[i][k] <= now
                                 /\ Ended(i) => book.counts[i][k] = now
                            ELSE book.counts[i][k] = 0
    BY <1>3 DEF CountsAgree, OfKind
  <2> DEFINE now == Cardinality(OfKind(k, Has(i).rows))
             next == Cardinality(OfKind(k, Has(i)'.rows))
  <2>2. OfKind(k, Has(i).rows) \subseteq OfKind(k, Has(i)'.rows)
        /\ OfKind(k, Has(i).rows) \in SUBSET Resource
        /\ OfKind(k, Has(i)'.rows) \in SUBSET Resource
    BY <1>2 DEF OfKind
  <2>3. now \in Nat /\ next \in Nat /\ now <= next
    BY <2>2, Finite
  <2>4. Ended(i) => now = next
    BY <1>5, <1>6
  <2>5. book.counts[i][k] \in Nat
    <3>1. i \in DOMAIN book.counts
      BY <1>1, <2>1, TypesAre
    <3> QED
      BY <1>1, <3>1, TypesAre
  <2>6. IF Shown(i)
        THEN book.counts[i][k] <= now /\ (Ended(i) => book.counts[i][k] = now)
        ELSE book.counts[i][k] = 0
    BY <1>6, <2>1 DEF CountsAgree
  <2> HIDE DEF now, next
  <2>7. IF Shown(i)
        THEN book.counts[i][k] <= next /\ (Ended(i) => book.counts[i][k] = next)
        ELSE book.counts[i][k] = 0
    BY <2>3, <2>4, <2>5, <2>6
  <2> QED
    BY <2>7 DEF next
<1>7. ASSUME NEW i \in DOMAIN book.picks, NothingElse(i), SheetsAgree(i) PROVE SheetsAgree(i)'
  <2>1. ASSUME NEW k \in Kind, Done(Rows(k, i)), Shown(i)
        PROVE  /\ book.counts[i][k] <= CountOf(i, k)
               /\ Ended(i) => OfKind(k, Has(i)'.rows) \subseteq RowsOf(i)
    BY <1>5, <1>7, <2>1 DEF SheetsAgree
  <2>2. Done(Edges(i)) /\ Ended(i) => Has(i)'.edges \subseteq LinksOf(i)
    BY <1>5, <1>7 DEF SheetsAgree
  <2> QED
    BY <1>3, <2>1, <2>2 DEF SheetsAgree, OfKind, Rows, Edges
<1>8. Progress' <=> Progress
  BY DEF Progress, At, Asked
<1> QED
  BY <1>1, <1>4, <1>6, <1>7, <1>8 DEF ExportInv

\* Every scan's step is growth.
LEMMA RunsGrow ==
  ASSUME ExportTypeOK, NEW i \in DOMAIN runs, NEW r,
         r \in Run, runs' = [runs EXCEPT ![i] = r],
         runs[i].status = "running",
         runs[i].rows \subseteq r.rows, runs[i].edges \subseteq r.edges
  PROVE  Grew
<1>1. runs \in Seq(Run) /\ Len(runs) \in Nat /\ DOMAIN runs = 1 .. Len(runs)
  BY TypesAre
<1>2. runs' \in Seq(Run)
  BY <1>1, ExceptSeq
<1>3. DOMAIN runs' = DOMAIN runs /\ runs'[i] = r /\ \A j \in DOMAIN runs \ {i} : runs'[j] = runs[j]
  OBVIOUS
<1> QED
  BY <1>2, <1>3 DEF Grew

LEMMA ScansGrow ==
  ASSUME ExportTypeOK
  PROVE  /\ \A s \in Scope, t \in Instant : OpenRun(s, t) => Grew
         /\ \A i \in DOMAIN runs : FinishRun(i) => Grew
         /\ \A i \in DOMAIN runs, r \in Resource : WriteRow(i, r) \/ WriteEdges(i, r) => Grew
<1>1. runs \in Seq(Run) /\ Len(runs) \in Nat /\ DOMAIN runs = 1 .. Len(runs)
  BY TypesAre
<1>2. \A i \in DOMAIN runs : runs[i] \in Run
  BY <1>1, ElementOfSeq
<1>3. ASSUME NEW s \in Scope, NEW t \in Instant, OpenRun(s, t) PROVE Grew
  <2> DEFINE r == [scope |-> s, started |-> t, status |-> "running", rows |-> {}, edges |-> {}]
  <2>1. r \in Run
    BY DEF Run
  <2>2. runs' = Append(runs, r)
    BY <1>3 DEF OpenRun
  <2> HIDE DEF r
  <2>3. runs' \in Seq(Run) /\ Len(runs') = Len(runs) + 1
        /\ \A i \in 1 .. Len(runs) : runs'[i] = runs[i]
    BY <1>1, <2>1, <2>2
  <2>4. DOMAIN runs' = 1 .. Len(runs) + 1
    BY <2>3, LenProperties
  <2> QED
    BY <1>1, <2>3, <2>4 DEF Grew
<1>4. ASSUME NEW i \in DOMAIN runs, FinishRun(i) PROVE Grew
  <2>1. PICK status \in {"ok", "failed"} : runs' = [runs EXCEPT ![i].status = status]
    BY <1>4 DEF FinishRun
  <2> DEFINE r == [runs[i] EXCEPT !.status = status]
  <2>2. r \in Run /\ r.rows = runs[i].rows /\ r.edges = runs[i].edges
    BY <1>2 DEF Run
  <2>3. runs' = [runs EXCEPT ![i] = r] /\ runs[i].status = "running"
    BY <1>4, <2>1 DEF FinishRun, Running
  <2> HIDE DEF r
  <2> QED
    BY <2>2, <2>3, RunsGrow
<1>5. ASSUME NEW i \in DOMAIN runs, NEW x \in Resource, WriteRow(i, x) PROVE Grew
  <2> DEFINE r == [runs[i] EXCEPT !.rows = runs[i].rows \cup {x}]
  <2>1. r \in Run /\ r.rows = runs[i].rows \cup {x} /\ r.edges = runs[i].edges
    BY <1>2 DEF Run
  <2>2. runs' = [runs EXCEPT ![i] = r] /\ runs[i].status = "running"
    BY <1>5 DEF WriteRow, Running
  <2> HIDE DEF r
  <2> QED
    BY <2>1, <2>2, RunsGrow
<1>6. ASSUME NEW i \in DOMAIN runs, NEW x \in Resource, WriteEdges(i, x) PROVE Grew
  <2> DEFINE e == {l \in Link : l[1] = x}
             r == [runs[i] EXCEPT !.edges = runs[i].edges \cup e]
  <2>1. r \in Run /\ r.edges = runs[i].edges \cup e /\ r.rows = runs[i].rows
    <3>1. runs[i].edges \cup e \subseteq Link
      BY <1>2 DEF Run
    <3> HIDE DEF e
    <3> QED
      BY <1>2, <3>1 DEF Run
  <2>2. runs' = [runs EXCEPT ![i] = r] /\ runs[i].status = "running"
    BY <1>6 DEF WriteEdges, Running
  <2> HIDE DEF r, e
  <2> QED
    BY <2>1, <2>2, RunsGrow
<1> QED
  BY <1>3, <1>4, <1>5, <1>6

-----------------------------------------------------------------------------
(* What the export does.                                                   *)

LEMMA StartInv ==
  ASSUME ExportInv, NEW multi \in BOOLEAN, NEW questions \in Seq(Question),
         Start(multi, questions)
  PROVE  ExportInv'
<1>1. /\ pc = "start" /\ pc' = "resolve" /\ ask' = questions
      /\ book' = [NoBook EXCEPT !.multi = multi] /\ runs' = runs /\ todo' = todo
  BY DEF Start
<1>2. ExportTypeOK /\ book = NoBook
  BY <1>1 DEF ExportInv
<1>3. /\ DOMAIN book' = {"multi", "picks", "counts", "rows", "edges"}
      /\ book'.multi = multi /\ book'.picks = <<>> /\ book'.counts = <<>>
      /\ book'.rows = {} /\ book'.edges = {}
  BY <1>1 DEF NoBook
<1>4. book.picks = <<>>
  BY <1>2 DEF NoBook
<1>5. Question' = Question /\ Query' = Query
  BY <1>1, <1>3, <1>4 DEF Question, Query
<1>6. ask' \in Seq(Question') /\ todo' \in Seq(Query')
  BY <1>1, <1>2, <1>5 DEF ExportTypeOK
<1>7. \A S : <<>> \in Seq(S)
  BY EmptySeq
<1>8. ExportTypeOK'
  BY <1>1, <1>2, <1>3, <1>6, <1>7 DEF ExportTypeOK
<1>9. DOMAIN book'.picks = {}
  BY <1>3
<1> QED
  BY <1>1, <1>3, <1>8, <1>9 DEF ExportInv

LEMMA StartExportInv ==
  ASSUME ExportInv, StartExport
  PROVE  ExportInv'
<1>1. \A q \in Question : <<q>> \in Seq(Question)
  OBVIOUS
<1>2. \A q, r \in Question : <<q, r>> \in Seq(Question)
  OBVIOUS
<1>3. /\ Every \in Question /\ Newest \in Question
      /\ \A s \in Scope : OfScope(s) \in Question
      /\ \A i \in DOMAIN runs : Exactly(i) \in Question
  BY DEF Question
<1>4. TRUE \in BOOLEAN /\ FALSE \in BOOLEAN
  OBVIOUS
<1>5. CASE \E q \in {Newest} \cup {Exactly(i) : i \in DOMAIN runs} : Start(FALSE, <<q>>)
  BY <1>1, <1>3, <1>4, <1>5, StartInv
<1>6. CASE Start(TRUE, <<Every>>)
  BY <1>1, <1>3, <1>4, <1>6, StartInv
<1>7. CASE \E s, t \in Scope : s # t /\ Start(TRUE, <<OfScope(s), OfScope(t)>>)
  BY <1>2, <1>3, <1>4, <1>7, StartInv
<1>8. CASE \E i, j \in DOMAIN runs : Start(TRUE, <<Exactly(i), Exactly(j)>>)
  BY <1>2, <1>3, <1>4, <1>8, StartInv
<1> QED
  BY <1>5, <1>6, <1>7, <1>8 DEF StartExport

\* Every answer is a list of runs of the database.
LEMMA AnswersAre ==
  ASSUME runs \in Seq(Run), NEW q \in Question, NEW found \in Answers(q)
  PROVE  found \in Seq(DOMAIN runs)
<1>1. \A i \in DOMAIN runs : <<i>> \in Seq(DOMAIN runs)
  OBVIOUS
<1>2. <<>> \in Seq(DOMAIN runs)
  BY EmptySeq
<1>3. CASE q = Every
  <2>1. q.type = "every"
    BY <1>3 DEF Every
  <2>2. found = EveryScope
    BY <2>1 DEF Answers
  <2> QED
    BY <2>2, EveryScopeIs DEF Walked
<1>4. CASE q = Newest
  <2>1. q.type = "newest"
    BY <1>4 DEF Newest
  <2>2. found = IF runs = <<>> THEN <<>> ELSE <<ListRuns[1]>>
    BY <2>1 DEF Answers
  <2>3. ASSUME runs # <<>> PROVE ListRuns[1] \in DOMAIN runs
    <3>1. Len(runs) \in Nat \ {0}
      BY <2>3, EmptySeq
    <3>2. 1 \in DOMAIN runs
      BY <3>1, LenProperties
    <3> QED
      BY <3>2, ListIs
  <2> QED
    BY <1>1, <1>2, <2>2, <2>3
<1>5. ASSUME NEW s \in Scope, q = OfScope(s) PROVE found \in Seq(DOMAIN runs)
  <2>1. q.type = "scope" /\ q.scope = s
    BY <1>5 DEF OfScope
  <2>2. found \in IF LatestRunForScope(s) = {} THEN {<<>>}
                  ELSE {<<i>> : i \in LatestRunForScope(s)}
    BY <2>1 DEF Answers
  <2>3. LatestRunForScope(s) \subseteq DOMAIN runs
    BY DEF LatestRunForScope
  <2> QED
    BY <1>1, <1>2, <2>2, <2>3
<1>6. ASSUME NEW i \in DOMAIN runs, q = Exactly(i) PROVE found \in Seq(DOMAIN runs)
  <2>1. q.type = "run" /\ q.id = i
    BY <1>6 DEF Exactly
  <2>2. found = <<i>>
    BY <2>1 DEF Answers
  <2> QED
    BY <1>1, <2>2
<1> QED
  BY <1>3, <1>4, <1>5, <1>6 DEF Question

LEMMA ResolveInv ==
  ASSUME ExportInv, Resolve
  PROVE  ExportInv'
<1>1. /\ pc = "resolve" /\ pc' = "resolve" /\ ask # <<>> /\ ask' = Tail(ask)
      /\ runs' = runs /\ todo' = todo
  BY DEF Resolve
<1>2. PICK found \in Answers(Head(ask)) :
        book' = [book EXCEPT !.picks = @ \o [n \in DOMAIN found |-> Summary(found[n])]]
  BY DEF Resolve
<1>3. ExportTypeOK /\ book.counts = <<>> /\ book.rows = {} /\ book.edges = {}
      /\ \A i \in DOMAIN book.picks : NothingElse(i)
  BY <1>1 DEF ExportInv
<1> DEFINE added == [n \in DOMAIN found |-> Summary(found[n])]
<1>4. Head(ask) \in Question /\ Tail(ask) \in Seq(Question)
  BY <1>1, <1>3, HeadTailProperties DEF ExportTypeOK
<1>5. runs \in Seq(Run) /\ \A j \in DOMAIN runs : runs[j] \in Run
  BY <1>3, TypesAre, ElementOfSeq
<1>6. found \in Seq(DOMAIN runs)
  BY <1>4, <1>5, AnswersAre
<1>7. Len(found) \in Nat /\ DOMAIN found = 1 .. Len(found)
      /\ \A n \in DOMAIN found : found[n] \in DOMAIN runs
  BY <1>6, LenProperties, ElementOfSeq
<1>8. \A n \in DOMAIN found : Summary(found[n]) \in Pick
  BY <1>5, <1>7 DEF Summary, Pick, Run
<1>9. added \in Seq(Pick) /\ Len(added) = Len(found)
      /\ \A n \in 1 .. Len(found) : added[n] = Summary(found[n])
  BY <1>7, <1>8
<1> HIDE DEF added
<1>10. book.picks \in Seq(Pick)
  BY <1>3 DEF ExportTypeOK, Pick
<1>11. Len(book.picks) \in Nat /\ DOMAIN book.picks = 1 .. Len(book.picks)
  BY <1>3, TypesAre
<1>12. IsJoin(book.picks \o added, Pick, book.picks, Len(book.picks), added, Len(found))
  BY <1>7, <1>9, <1>10, <1>11, Joined
<1>13. /\ DOMAIN book' = {"multi", "picks", "counts", "rows", "edges"}
       /\ book'.multi = book.multi /\ book'.picks = book.picks \o added
       /\ book'.counts = <<>> /\ book'.rows = {} /\ book'.edges = {}
  BY <1>2, <1>3 DEF ExportTypeOK, added
<1>14. Question' = Question /\ Pick' = Pick
  BY <1>1 DEF Question, Pick
<1>15. book'.picks \in Seq(Pick')
  BY <1>12, <1>13, <1>14 DEF IsJoin
<1>16. DOMAIN book.picks \subseteq DOMAIN book'.picks
  <2>1. Len(book'.picks) = Len(book.picks) + Len(found)
    BY <1>12, <1>13 DEF IsJoin
  <2>2. DOMAIN book'.picks = 1 .. Len(book'.picks)
    BY <1>15, LenProperties
  <2> QED
    BY <1>7, <1>11, <2>1, <2>2
<1>17. todo' \in Seq(Query')
  <2>1. Query \subseteq Query'
    BY <1>16 DEF Query
  <2>2. todo \in Seq(Query)
    BY <1>3 DEF ExportTypeOK
  <2> QED
    BY <1>1, <2>1, <2>2, SeqMonotonic
<1>18. \A S : <<>> \in Seq(S)
  BY EmptySeq
<1>19. ExportTypeOK'
  <2>1. /\ runs' \in Seq([scope : Scope, started : Instant, status : {"running", "ok", "failed"},
                          rows : SUBSET Resource, edges : SUBSET Link])
        /\ book'.multi \in BOOLEAN
    BY <1>1, <1>3, <1>13 DEF ExportTypeOK
  <2>2. ask' \in Seq(Question')
    BY <1>1, <1>4, <1>14
  <2>3. /\ book'.counts \in Seq([Kind -> Nat])
        /\ book'.rows \subseteq (DOMAIN book'.picks) \X Resource
        /\ book'.edges \subseteq (DOMAIN book'.picks) \X Link
    BY <1>13, <1>18
  <2> QED
    BY <1>1, <1>13, <1>15, <1>17, <2>1, <2>2, <2>3 DEF ExportTypeOK, Pick
<1>20. ASSUME NEW i \in DOMAIN book'.picks PROVE NothingElse(i)'
  <2>1. RowsOf(i)' = {} /\ LinksOf(i)' = {}
    BY <1>13 DEF RowsOf, LinksOf
  <2>2. Has(i)' = runs[book'.picks[i].id]
    BY <1>1 DEF Has
  <2>3. Ended(i)' <=> book'.picks[i].status # "running"
    BY DEF Ended
  <2>4. i \in 1 .. Len(book.picks) + Len(found)
    BY <1>12, <1>13, <1>15, LenProperties DEF IsJoin
  <2>5. CASE i <= Len(book.picks)
    <3>1. i \in DOMAIN book.picks /\ book'.picks[i] = book.picks[i]
      BY <1>11, <1>12, <1>13, <2>4, <2>5 DEF IsJoin
    <3>2. Ended(i) => Has(i).status = book.picks[i].status
      BY <1>3, <3>1 DEF NothingElse
    <3> QED
      BY <2>1, <2>2, <2>3, <3>1, <3>2 DEF NothingElse, Ended, Has
  <2>6. CASE ~(i <= Len(book.picks))
    <3> DEFINE m == i - Len(book.picks)
    <3>1. m \in 1 .. Len(found)
      BY <1>7, <1>11, <2>4, <2>6
    <3>2. book'.picks[i] = added[m]
      BY <1>12, <1>13, <2>4, <2>6 DEF IsJoin
    <3> HIDE DEF m
    <3>3. book'.picks[i] = Summary(found[m])
      BY <1>9, <3>1, <3>2
    <3>4. book'.picks[i].status = runs[book'.picks[i].id].status
      BY <3>3 DEF Summary
    <3> QED
      BY <2>1, <2>2, <2>3, <3>4 DEF NothingElse
  <2> QED
    BY <2>5, <2>6
<1> QED
  BY <1>1, <1>13, <1>19, <1>20 DEF ExportInv

\* Nothing is asked yet, and nothing shown.
LEMMA ResolvedInv ==
  ASSUME ExportInv, Resolved
  PROVE  ExportInv'
<1>1. /\ pc = "resolve" /\ runs' = runs /\ ask' = ask /\ book' = book
  BY DEF Resolved
<1>2. ExportTypeOK /\ book.counts = <<>> /\ book.rows = {} /\ book.edges = {}
      /\ \A i \in DOMAIN book.picks : NothingElse(i)
  BY <1>1 DEF ExportInv
<1>3. \A i : NothingElse(i)' <=> NothingElse(i)
  BY <1>1 DEF NothingElse, RowsOf, LinksOf, Shown, Ended, Has
<1>4. Question' = Question /\ Query' = Query
  BY <1>1 DEF Question, Query
<1>5. CASE book.picks = <<>>
  <2>1. pc' = "failed" /\ todo' = todo
    BY <1>5 DEF Resolved
  <2>2. ExportTypeOK'
    BY <1>1, <1>2, <1>4, <2>1 DEF ExportTypeOK
  <2> QED
    BY <1>1, <1>2, <1>3, <2>1, <2>2 DEF ExportInv
<1>6. CASE book.picks # <<>>
  <2> DEFINE n == Len(book.picks)
  <2>1. pc' = "read" /\ todo' = Queries(n)
    BY <1>6 DEF Resolved
  <2>2. n \in Nat \ {0} /\ DOMAIN book.picks = 1 .. n
    <3>1. book.picks \in Seq(Pick)
      BY <1>2 DEF ExportTypeOK, Pick
    <3> QED
      BY <1>6, <3>1, EmptySeq, LenProperties
  <2>3. Queries(n) \in Seq(AnyQuery(n)) /\ Len(Queries(n)) \in Nat
    BY <2>2, QueriesAre, LenProperties
  <2>4. AnyQuery(n) = Query
    BY <2>2 DEF AnyQuery, Query
  <2>5. ExportTypeOK'
    BY <1>1, <1>2, <1>4, <2>1, <2>3, <2>4 DEF ExportTypeOK
  <2>6. Asked' = todo' /\ At' = 0
    BY <1>1, <2>1, <2>3 DEF At, Asked
  <2>7. \A q : ~Done(q)'
    BY <2>6 DEF Done
  <2>8. Len(book'.counts) = 0
    BY <1>1, <1>2
  <2>9. Progress'
    <3>1. \A m \in 1 .. Len(todo') : 0 + m = m
      OBVIOUS
    <3>2. At' \in 0 .. Len(Asked')
      BY <2>1, <2>3, <2>6
    <3>3. \A m \in 1 .. Len(todo') : todo'[m] = Asked'[At' + m]
      BY <2>6, <3>1
    <3>4. Len(book'.counts) = IF At' < Len(book'.picks) THEN At' ELSE Len(book'.picks)
      BY <1>1, <2>2, <2>6, <2>8
    <3> QED
      BY <1>1, <1>6, <3>2, <3>3, <3>4 DEF Progress
  <2>10. ASSUME NEW i \in DOMAIN book'.picks PROVE CountsAgree(i)' /\ SheetsAgree(i)'
    <3>1. ~(i <= Len(book'.counts))
      BY <1>1, <2>2, <2>8, <2>10
    <3>2. CountsAgree(i)'
      BY <3>1 DEF CountsAgree
    <3>3. SheetsAgree(i)'
      BY <2>7 DEF SheetsAgree, Rows, Edges
    <3> QED
      BY <3>2, <3>3
  <2> QED
    BY <1>1, <1>2, <1>3, <2>1, <2>5, <2>9, <2>10 DEF ExportInv
<1> QED
  BY <1>5, <1>6

LEMMA SaveInv ==
  ASSUME ExportInv, Save
  PROVE  ExportInv'
<1>1. /\ pc = "read" /\ todo = <<>> /\ pc' = "saved"
      /\ runs' = runs /\ ask' = ask /\ todo' = todo /\ book' = book
  BY DEF Save
<1>2. ExportTypeOK'
  BY <1>1 DEF ExportInv, ExportTypeOK, Question, Query
<1>3. /\ \A i : NothingElse(i)' <=> NothingElse(i)
      /\ \A i : CountsAgree(i)' <=> CountsAgree(i)
      /\ \A i : SheetsAgree(i)' <=> SheetsAgree(i)
      /\ Progress' <=> Progress
  BY <1>1 DEF NothingElse, CountsAgree, SheetsAgree, Progress, RowsOf, LinksOf, Shown, Ended,
              Has, CountOf, Done, At, Asked
<1> QED
  BY <1>1, <1>2, <1>3 DEF ExportInv

LEMMA FailInv ==
  ASSUME ExportInv, Fail
  PROVE  ExportInv'
<1>1. /\ pc' = "failed" /\ runs' = runs /\ ask' = ask /\ todo' = todo /\ book' = book
  BY DEF Fail
<1>2. ExportTypeOK'
  BY <1>1 DEF ExportInv, ExportTypeOK, Question, Query
<1>3. \A i : NothingElse(i)' <=> NothingElse(i)
  BY <1>1 DEF NothingElse, RowsOf, LinksOf, Shown, Ended, Has
<1> QED
  BY <1>1, <1>2, <1>3 DEF ExportInv

LEMMA StutterInv ==
  ASSUME ExportInv, UNCHANGED vars
  PROVE  ExportInv'
<1>1. runs' = runs /\ pc' = pc /\ ask' = ask /\ todo' = todo /\ book' = book
  BY DEF vars
<1>2. Grew
  BY <1>1, TypesAre DEF Grew, ExportInv
<1> QED
  BY <1>1, <1>2, GrewInv

-----------------------------------------------------------------------------
(* A query is answered.                                                    *)

LEMMA ReadState ==
  ASSUME ExportInv, pc = "read", todo # <<>>
  PROVE  /\ ExportTypeOK /\ Progress
         /\ \A i \in DOMAIN book.picks : NothingElse(i) /\ CountsAgree(i) /\ SheetsAgree(i)
         /\ Len(book.picks) \in Nat \ {0} /\ DOMAIN book.picks = 1 .. Len(book.picks)
         /\ Len(Asked) \in Nat /\ Len(todo) \in Nat \ {0} /\ At = Len(Asked) - Len(todo)
         /\ At \in Nat /\ At + 1 \in 1 .. Len(Asked) /\ Head(todo) = Asked[At + 1]
         /\ Tail(todo) \in Seq(Query) /\ Len(Tail(todo)) = Len(todo) - 1
         /\ \A m \in 1 .. Len(Tail(todo)) : Tail(todo)[m] = Asked[At + 1 + m]
<1>1. /\ ExportTypeOK /\ Progress
      /\ \A i \in DOMAIN book.picks : NothingElse(i) /\ CountsAgree(i) /\ SheetsAgree(i)
  BY DEF ExportInv
<1>2. Len(book.picks) \in Nat \ {0} /\ DOMAIN book.picks = 1 .. Len(book.picks)
  <2>1. book.picks \in Seq(Pick) /\ book.picks # <<>>
    BY <1>1 DEF ExportTypeOK, Pick, Progress
  <2> QED
    BY <2>1, EmptySeq, LenProperties
<1>3. Len(Asked) \in Nat
  <2>1. Asked \in Seq(AnyQuery(Len(book.picks)))
    BY <1>2, QueriesAre DEF Asked
  <2> QED
    BY <2>1, LenProperties
<1>4. todo \in Seq(Query)
  BY <1>1 DEF ExportTypeOK
<1>5. Len(todo) \in Nat \ {0}
  BY <1>4, EmptySeq
<1>6. /\ Tail(todo) \in Seq(Query) /\ Len(Tail(todo)) = Len(todo) - 1
      /\ \A m \in 1 .. Len(Tail(todo)) : Tail(todo)[m] = todo[m + 1]
  BY <1>4, HeadTailProperties
<1>7. At = Len(Asked) - Len(todo)
  BY DEF At
<1>8. At \in 0 .. Len(Asked) /\ \A m \in 1 .. Len(todo) : todo[m] = Asked[At + m]
  BY <1>1 DEF Progress
<1>9. At \in Nat /\ At + 1 \in 1 .. Len(Asked)
  BY <1>3, <1>5, <1>7, <1>8
<1>10. Head(todo) = Asked[At + 1]
  <2>1. Head(todo) = todo[1]
    BY <1>4, <1>5
  <2>2. 1 \in 1 .. Len(todo)
    BY <1>5
  <2> QED
    BY <1>8, <2>1, <2>2
<1>11. ASSUME NEW m \in 1 .. Len(Tail(todo)) PROVE Tail(todo)[m] = Asked[At + 1 + m]
  <2>1. m + 1 \in 1 .. Len(todo) /\ At + (m + 1) = At + 1 + m
    BY <1>5, <1>6, <1>9
  <2> QED
    BY <1>6, <1>8, <2>1
<1> QED
  BY <1>1, <1>2, <1>3, <1>5, <1>6, <1>7, <1>9, <1>10, <1>11

LEMMA ReadProgress ==
  ASSUME ExportInv, pc = "read", todo # <<>>, todo' = Tail(todo), book'.picks = book.picks
  PROVE  /\ Asked' = Asked /\ At' = At + 1 /\ At' \in 0 .. Len(Asked')
         /\ \A m \in 1 .. Len(todo') : todo'[m] = Asked'[At' + m]
         /\ \A q : Done(q)' <=> Done(q) \/ q = Head(todo)
<1>1. /\ Len(Asked) \in Nat /\ Len(todo) \in Nat \ {0} /\ At = Len(Asked) - Len(todo)
      /\ At \in Nat /\ At + 1 \in 1 .. Len(Asked) /\ Head(todo) = Asked[At + 1]
      /\ Len(Tail(todo)) = Len(todo) - 1
      /\ \A m \in 1 .. Len(Tail(todo)) : Tail(todo)[m] = Asked[At + 1 + m]
  BY ReadState
<1>2. Asked' = Asked
  BY DEF Asked
<1>3. At' = At + 1
  <2>1. At' = Len(Asked) - Len(Tail(todo))
    BY <1>2 DEF At
  <2> QED
    BY <1>1, <2>1
<1>4. At' \in 0 .. Len(Asked')
  BY <1>1, <1>2, <1>3
<1>5. \A m \in 1 .. Len(todo') : todo'[m] = Asked'[At' + m]
  BY <1>1, <1>2, <1>3
<1>6. ASSUME NEW q PROVE Done(q)' <=> Done(q) \/ q = Head(todo)
  <2>1. Done(q)' <=> \E m \in 1 .. At + 1 : Asked[m] = q
    BY <1>2, <1>3 DEF Done
  <2>2. 1 .. At + 1 = (1 .. At) \cup {At + 1}
    BY <1>1
  <2> QED
    BY <1>1, <2>1, <2>2 DEF Done
<1> QED
  BY <1>2, <1>3, <1>4, <1>5, <1>6

\* The rest of a read: the counts' number and the two agreements remain to show.
LEMMA ReadInv ==
  ASSUME ExportInv, pc = "read", todo # <<>>, todo' = Tail(todo),
         runs' = runs, pc' = pc, ask' = ask,
         DOMAIN book' = {"multi", "picks", "counts", "rows", "edges"},
         book'.multi = book.multi, book'.picks = book.picks,
         book'.counts \in Seq([Kind -> Nat]),
         Len(book'.counts) = IF At + 1 < Len(book.picks) THEN At + 1 ELSE Len(book.picks),
         book'.rows \subseteq (DOMAIN book.picks) \X Resource,
         book'.edges \subseteq (DOMAIN book.picks) \X Link,
         \A i \in DOMAIN book.picks : NothingElse(i)' /\ CountsAgree(i)' /\ SheetsAgree(i)'
  PROVE  ExportInv'
<1>1. ExportTypeOK /\ Progress /\ Tail(todo) \in Seq(Query)
  BY ReadState
<1>2. Question' = Question /\ Query' = Query
  BY DEF Question, Query
<1>3. ExportTypeOK'
  <2>1. /\ runs' \in Seq([scope : Scope, started : Instant, status : {"running", "ok", "failed"},
                          rows : SUBSET Resource, edges : SUBSET Link])
        /\ book'.multi \in BOOLEAN
        /\ book'.picks \in Seq([id : DOMAIN runs', scope : Scope,
                                status : {"running", "ok", "failed"}])
        /\ ask' \in Seq(Question')
    BY <1>1, <1>2 DEF ExportTypeOK
  <2>2. todo' \in Seq(Query')
    BY <1>1, <1>2
  <2> QED
    BY <2>1, <2>2 DEF ExportTypeOK
<1>4. Progress'
  <2>1. book'.picks # <<>>
    BY <1>1 DEF Progress
  <2> QED
    BY <2>1, ReadProgress DEF Progress
<1> QED
  BY <1>3, <1>4 DEF ExportInv

\* What the agreements depend on, when neither runs nor picks change.
LEMMA ReadSame ==
  ASSUME ExportInv, runs' = runs, book'.multi = book.multi, book'.picks = book.picks
  PROVE  \A i : /\ Shown(i)' <=> Shown(i)
                /\ Ended(i)' <=> Ended(i)
                /\ Has(i)' = Has(i)
BY DEF Shown, Ended, Has

LEMMA ReadCountsInv ==
  ASSUME ExportInv, ReadCounts
  PROVE  ExportInv'
<1> DEFINE n == Len(book.picks)   i == Head(todo).pick
           new == IF Shown(i) THEN CountResourcesByKind(i) ELSE NoCounts
<1>1. /\ pc = "read" /\ todo # <<>> /\ Head(todo).type = "counts" /\ todo' = Tail(todo)
      /\ book' = [book EXCEPT !.counts = Append(@, new)]
      /\ runs' = runs /\ pc' = pc /\ ask' = ask
  BY DEF ReadCounts, Read
<1>2. /\ ExportTypeOK /\ Progress
      /\ \A j \in DOMAIN book.picks : NothingElse(j) /\ CountsAgree(j) /\ SheetsAgree(j)
      /\ n \in Nat \ {0} /\ DOMAIN book.picks = 1 .. n
      /\ At \in Nat /\ At + 1 \in 1 .. Len(Asked) /\ Head(todo) = Asked[At + 1]
  BY <1>1, ReadState
<1>3. At + 1 \in 1 .. n /\ Head(todo) = Counts(At + 1)
  <2>1. ~(\E k \in Kind, j \in 1 .. n : Head(todo) = Rows(k, j))
    BY <1>1 DEF Rows
  <2>2. ~(\E j \in 1 .. n : Head(todo) = Edges(j))
    BY <1>1 DEF Edges
  <2>3. Asked = Queries(n)
    BY DEF Asked
  <2> HIDE DEF n
  <2> QED
    BY <1>2, <2>1, <2>2, <2>3, PlaceIs
<1>4. i = At + 1
  BY <1>3 DEF Counts
<1> HIDE DEF new
<1>5. /\ DOMAIN book' = {"multi", "picks", "counts", "rows", "edges"}
      /\ book'.multi = book.multi /\ book'.picks = book.picks
      /\ book'.counts = Append(book.counts, new)
      /\ book'.rows = book.rows /\ book'.edges = book.edges
  BY <1>1, <1>2 DEF ExportTypeOK
<1>6. new \in [Kind -> Nat]
  <2>1. Has(i).rows \subseteq Resource
    BY <1>2, <1>3, <1>4, TypesAre
  <2>2. \A k \in Kind : Cardinality({r \in Has(i).rows : KindOf[r] = k}) \in Nat
    BY <2>1, Finite
  <2> QED
    BY <2>2 DEF new, CountResourcesByKind, NoCounts
<1>7. book.counts \in Seq([Kind -> Nat]) /\ Len(book.counts) = At
  BY <1>2, <1>3 DEF ExportTypeOK, Progress
<1>8. /\ book'.counts \in Seq([Kind -> Nat]) /\ Len(book'.counts) = At + 1
      /\ book'.counts[At + 1] = new
      /\ \A j \in 1 .. At : book'.counts[j] = book.counts[j]
  BY <1>2, <1>5, <1>6, <1>7
<1>9. \A j : /\ Shown(j)' <=> Shown(j)
             /\ Ended(j)' <=> Ended(j)
             /\ Has(j)' = Has(j)
  BY <1>1, <1>5, ReadSame
<1>10. \A j : /\ RowsOf(j)' = RowsOf(j) /\ LinksOf(j)' = LinksOf(j)
              /\ \A k : CountOf(j, k)' = CountOf(j, k)
  BY <1>5 DEF RowsOf, LinksOf, CountOf
<1>11. /\ \A k, j : Done(Rows(k, j))' <=> Done(Rows(k, j))
       /\ \A j : Done(Edges(j))' <=> Done(Edges(j))
  <2>1. \A k, j : Head(todo) # Rows(k, j) /\ Head(todo) # Edges(j)
    BY <1>1 DEF Rows, Edges
  <2>2. \A q : Done(q)' <=> Done(q) \/ q = Head(todo)
    BY <1>1, <1>5, ReadProgress
  <2>3. /\ \A k, j : Done(Rows(k, j))' <=> Done(Rows(k, j)) \/ Rows(k, j) = Head(todo)
        /\ \A j : Done(Edges(j))' <=> Done(Edges(j)) \/ Edges(j) = Head(todo)
    BY <2>2 DEF Rows, Edges
  <2> QED
    BY <2>1, <2>3
<1>12. ASSUME NEW j \in DOMAIN book.picks PROVE NothingElse(j)'
  BY <1>2, <1>5, <1>9, <1>10 DEF NothingElse
<1>13. ASSUME NEW j \in DOMAIN book.picks PROVE CountsAgree(j)'
  <2>1. SUFFICES ASSUME j <= At + 1, NEW k \in Kind
                 PROVE  LET now == Cardinality(OfKind(k, Has(j).rows))
                        IN  IF Shown(j)
                            THEN book'.counts[j][k] <= now /\ (Ended(j) => book'.counts[j][k] = now)
                            ELSE book'.counts[j][k] = 0
    BY <1>8, <1>9 DEF CountsAgree, OfKind
  <2>2. CASE j \in 1 .. At
    <3>1. CountsAgree(j) /\ j <= Len(book.counts)
      BY <1>2, <1>7, <2>2
    <3>2. LET now == Cardinality(OfKind(k, Has(j).rows))
          IN  IF Shown(j)
              THEN book.counts[j][k] <= now /\ (Ended(j) => book.counts[j][k] = now)
              ELSE book.counts[j][k] = 0
      BY <3>1 DEF CountsAgree
    <3>3. book'.counts[j] = book.counts[j]
      BY <1>8, <2>2
    <3> QED
      BY <3>2, <3>3
  <2>3. CASE j = At + 1
    <3>1. book'.counts[j] = IF Shown(j) THEN CountResourcesByKind(j) ELSE NoCounts
      BY <1>4, <1>8, <2>3 DEF new
    <3>2. CountResourcesByKind(j)[k] = Cardinality(OfKind(k, Has(j).rows)) /\ NoCounts[k] = 0
      BY DEF CountResourcesByKind, OfKind, NoCounts
    <3>3. Cardinality(OfKind(k, Has(j).rows)) \in Nat
      <4>1. OfKind(k, Has(j).rows) \in SUBSET Resource
        BY <1>2, TypesAre DEF OfKind
      <4> QED
        BY <4>1, Finite
    <3> QED
      BY <3>1, <3>2, <3>3
  <2> QED
    BY <1>2, <2>1, <2>2, <2>3
<1>14. ASSUME NEW j \in DOMAIN book.picks PROVE SheetsAgree(j)'
  <2>1. ASSUME NEW k \in Kind, Done(Rows(k, j)), Shown(j)
        PROVE  book'.counts[j][k] <= CountOf(j, k)
    <3>1. j \in 1 .. At
      <4>1. Done(Rows(k, j)) => \E m \in 1 .. At : Queries(n)[m] = Rows(k, j)
        BY DEF Done, Asked
      <4>2. PICK m \in 1 .. At : Queries(n)[m] = Rows(k, j)
        BY <2>1, <4>1
      <4>3. m \in 1 .. n
        BY <1>2, <1>3
      <4>4. \A p \in 1 .. n : Queries(n)[p] = Counts(p)
        BY <1>2, QueriesAre
      <4>5. Counts(m) = Rows(k, j)
        BY <4>2, <4>3, <4>4
      <4> QED
        BY <4>5 DEF Rows, Counts
    <3> QED
      BY <1>2, <1>8, <2>1, <3>1 DEF SheetsAgree
  <2> QED
    BY <1>2, <1>5, <1>9, <1>10, <1>11, <2>1 DEF SheetsAgree, OfKind
<1>15. Len(book'.counts) = IF At + 1 < n THEN At + 1 ELSE n
  BY <1>2, <1>3, <1>8
<1>16. /\ book'.rows \subseteq (DOMAIN book.picks) \X Resource
       /\ book'.edges \subseteq (DOMAIN book.picks) \X Link
  BY <1>2, <1>5 DEF ExportTypeOK
<1> QED
  BY <1>1, <1>5, <1>8, <1>12, <1>13, <1>14, <1>15, <1>16, ReadInv

\* After the counts there are as many as picks.
LEMMA CountsTaken ==
  ASSUME ExportInv, pc = "read", todo # <<>>, Head(todo).type # "counts"
  PROVE  /\ At + 1 > Len(book.picks) /\ Len(book.counts) = Len(book.picks)
         /\ \/ \E k \in Kind, i \in DOMAIN book.picks : Head(todo) = Rows(k, i)
            \/ \E i \in DOMAIN book.picks : Head(todo) = Edges(i)
<1> DEFINE n == Len(book.picks)
<1>1. /\ Progress /\ n \in Nat \ {0} /\ DOMAIN book.picks = 1 .. n
      /\ At \in Nat /\ At + 1 \in 1 .. Len(Asked) /\ Head(todo) = Asked[At + 1]
  BY ReadState
<1>2. Asked = Queries(n)
  BY DEF Asked
<1>3. Head(todo) # Counts(At + 1)
  BY DEF Counts
<1> HIDE DEF n
<1>4. At + 1 > n /\ \/ \E k \in Kind, i \in 1 .. n : Head(todo) = Rows(k, i)
                    \/ \E i \in 1 .. n : Head(todo) = Edges(i)
  BY <1>1, <1>2, <1>3, PlaceIs
<1>5. Len(book.counts) = IF At < n THEN At ELSE n
  BY <1>1 DEF Progress, n
<1>6. Len(book.counts) = n
  BY <1>1, <1>4, <1>5
<1> QED
  BY <1>1, <1>4, <1>6 DEF n

LEMMA ReadRowsInv ==
  ASSUME ExportInv, ReadRows
  PROVE  ExportInv'
<1> DEFINE n == Len(book.picks)
           new(i, k) == IF Shown(i) THEN {<<i, r>> : r \in {x \in Has(i).rows : KindOf[x] = k}}
                        ELSE {}
<1>1. /\ pc = "read" /\ todo # <<>> /\ Head(todo).type = "rows" /\ todo' = Tail(todo)
      /\ book' = [book EXCEPT !.rows = @ \cup new(Head(todo).pick, Head(todo).kind)]
      /\ runs' = runs /\ pc' = pc /\ ask' = ask
  BY DEF ReadRows, Read
<1>2. /\ ExportTypeOK /\ Progress
      /\ \A j \in DOMAIN book.picks : NothingElse(j) /\ CountsAgree(j) /\ SheetsAgree(j)
      /\ n \in Nat \ {0} /\ DOMAIN book.picks = 1 .. n /\ At \in Nat
  BY <1>1, ReadState
<1>3. At + 1 > n /\ Len(book.counts) = n
  BY <1>1, CountsTaken
<1>4. PICK k \in Kind, i \in DOMAIN book.picks : Head(todo) = Rows(k, i)
  <2>1. \/ \E l \in Kind, j \in DOMAIN book.picks : Head(todo) = Rows(l, j)
        \/ \E j \in DOMAIN book.picks : Head(todo) = Edges(j)
    BY <1>1, CountsTaken
  <2>2. ~(\E j \in DOMAIN book.picks : Head(todo) = Edges(j))
    BY <1>1 DEF Edges
  <2>3. PICK l \in Kind, j \in DOMAIN book.picks : Head(todo) = Rows(l, j)
    BY <2>1, <2>2
  <2> QED
    BY <2>3
<1>5. Has(i).rows \subseteq Resource
  BY <1>2, <1>4, TypesAre
<1>6. /\ DOMAIN book' = {"multi", "picks", "counts", "rows", "edges"}
      /\ book'.multi = book.multi /\ book'.picks = book.picks
      /\ book'.counts = book.counts
      /\ book'.rows = book.rows \cup new(i, k) /\ book'.edges = book.edges
  <2>1. Head(todo).pick = i /\ Head(todo).kind = k
    BY <1>4 DEF Rows
  <2>2. book' = [book EXCEPT !.rows = @ \cup new(i, k)]
    BY <1>1, <2>1
  <2> HIDE DEF new
  <2> QED
    BY <1>2, <2>2 DEF ExportTypeOK
<1>7. \A j : /\ Shown(j)' <=> Shown(j)
             /\ Ended(j)' <=> Ended(j)
             /\ Has(j)' = Has(j)
  BY <1>1, <1>6, ReadSame
<1>8. /\ \A j : LinksOf(j)' = LinksOf(j)
      /\ \A j : j # i => RowsOf(j)' = RowsOf(j) /\ \A l : CountOf(j, l)' = CountOf(j, l)
  BY <1>6 DEF RowsOf, LinksOf, CountOf
<1>9. RowsOf(i)' = RowsOf(i) \cup (IF Shown(i) THEN OfKind(k, Has(i).rows) ELSE {})
  <2>1. CASE Shown(i)
    <3>1. \A r : <<i, r>> \in new(i, k) <=> r \in OfKind(k, Has(i).rows)
      BY <2>1 DEF OfKind
    <3> HIDE DEF new
    <3>2. \A r : <<i, r>> \in book'.rows <=> <<i, r>> \in book.rows \/ r \in OfKind(k, Has(i).rows)
      BY <1>6, <3>1
    <3>3. OfKind(k, Has(i).rows) \subseteq Resource
      BY <1>5 DEF OfKind
    <3> HIDE DEF new
    <3> QED
      BY <2>1, <3>2, <3>3 DEF RowsOf
  <2>2. CASE ~Shown(i)
    BY <1>6, <2>2 DEF RowsOf
  <2> QED
    BY <2>1, <2>2
<1> HIDE DEF new
<1>10. \A q : Done(q)' <=> Done(q) \/ q = Head(todo)
  BY <1>1, <1>6, ReadProgress
<1>11. /\ \A l, j : Done(Rows(l, j))' <=> Done(Rows(l, j)) \/ (l = k /\ j = i)
       /\ \A j : Done(Edges(j))' <=> Done(Edges(j))
  <2>1. \A l, j : Rows(l, j) = Head(todo) <=> l = k /\ j = i
    BY <1>4 DEF Rows
  <2>2. \A j : Edges(j) # Head(todo)
    BY <1>4 DEF Rows, Edges
  <2>3. /\ \A l, j : Done(Rows(l, j))' <=> Done(Rows(l, j)) \/ Rows(l, j) = Head(todo)
        /\ \A j : Done(Edges(j))' <=> Done(Edges(j)) \/ Edges(j) = Head(todo)
    BY <1>10 DEF Rows, Edges
  <2> QED
    BY <2>1, <2>2, <2>3
<1>12. ASSUME NEW j \in DOMAIN book.picks PROVE NothingElse(j)'
  <2>1. NothingElse(j)
    BY <1>2
  <2>2. CASE j # i
    BY <1>6, <1>7, <1>8, <2>1, <2>2 DEF NothingElse
  <2>3. CASE j = i
    <3>1. RowsOf(i)' \subseteq (IF Shown(i) THEN Has(i).rows ELSE {})
      BY <1>9, <2>1, <2>3 DEF NothingElse, OfKind
    <3> QED
      BY <1>6, <1>7, <1>8, <2>1, <2>3, <3>1 DEF NothingElse
  <2> QED
    BY <2>2, <2>3
<1>13. ASSUME NEW j \in DOMAIN book.picks PROVE CountsAgree(j)'
  BY <1>2, <1>6, <1>7 DEF CountsAgree, OfKind
<1>14. ASSUME NEW l \in Kind, Shown(i), Done(Rows(l, i)) \/ l = k
       PROVE  /\ book.counts[i][l] <= CountOf(i, l)'
              /\ Ended(i) => OfKind(l, Has(i).rows) \subseteq RowsOf(i)'
  <2>1. RowsOf(i) \in SUBSET Resource /\ RowsOf(i)' \in SUBSET Resource
        /\ RowsOf(i) \subseteq RowsOf(i)'
    BY <1>9 DEF RowsOf
  <2>2. /\ CountOf(i, l) = Cardinality(OfKind(l, RowsOf(i)))
        /\ CountOf(i, l)' = Cardinality(OfKind(l, RowsOf(i)'))
    BY DEF CountOf, OfKind
  <2>3. book.counts[i][l] \in Nat
    <3>1. i \in DOMAIN book.counts
      BY <1>2, <1>3, <1>4, TypesAre
    <3> QED
      BY <1>2, <3>1, TypesAre
  <2>4. CASE Done(Rows(l, i))
    <3>1. /\ book.counts[i][l] <= CountOf(i, l)
          /\ Ended(i) => OfKind(l, Has(i).rows) \subseteq RowsOf(i)
      BY <1>2, <1>4, <1>14, <2>4 DEF SheetsAgree
    <3>2. OfKind(l, RowsOf(i)) \in SUBSET Resource /\ OfKind(l, RowsOf(i)') \in SUBSET Resource
          /\ OfKind(l, RowsOf(i)) \subseteq OfKind(l, RowsOf(i)')
      BY <2>1 DEF OfKind
    <3>3. /\ CountOf(i, l) \in Nat /\ CountOf(i, l)' \in Nat
          /\ CountOf(i, l) <= CountOf(i, l)'
      BY <2>2, <3>2, Finite
    <3>4. book.counts[i][l] <= CountOf(i, l)'
      BY <2>3, <3>1, <3>3
    <3> QED
      BY <2>1, <3>1, <3>4
  <2>5. CASE l = k
    <3> DEFINE now == OfKind(k, Has(i).rows)
    <3>1. now \subseteq RowsOf(i)'
      BY <1>9, <1>14
    <3>2. now \subseteq OfKind(k, RowsOf(i)') /\ now \in SUBSET Resource
          /\ OfKind(k, RowsOf(i)') \in SUBSET Resource
      BY <1>5, <2>1, <3>1 DEF OfKind
    <3> HIDE DEF now
    <3>3. Cardinality(now) \in Nat /\ CountOf(i, l)' \in Nat /\ Cardinality(now) <= CountOf(i, l)'
      BY <2>2, <2>5, <3>2, Finite
    <3>4. CountsAgree(i) /\ i <= Len(book.counts)
      BY <1>2, <1>3, <1>4
    <3>5. book.counts[i][l] <= Cardinality(now)
      BY <1>14, <2>5, <3>4 DEF CountsAgree, now
    <3>6. book.counts[i][l] <= CountOf(i, l)'
      BY <2>3, <3>3, <3>5
    <3> QED
      BY <2>5, <3>1, <3>6 DEF now
  <2> QED
    BY <1>14, <2>4, <2>5
<1>15. ASSUME NEW j \in DOMAIN book.picks PROVE SheetsAgree(j)'
  <2>1. SheetsAgree(j)
    BY <1>2
  <2>2. ASSUME NEW l \in Kind, Done(Rows(l, j))', Shown(j)
        PROVE  /\ book.counts[j][l] <= CountOf(j, l)'
               /\ Ended(j) => OfKind(l, Has(j).rows) \subseteq RowsOf(j)'
    <3>1. CASE j = i
      BY <1>11, <1>14, <2>2, <3>1
    <3>2. CASE j # i
      BY <1>8, <1>11, <2>1, <2>2, <3>2 DEF SheetsAgree
    <3> QED
      BY <3>1, <3>2
  <2>3. Done(Edges(j))' /\ Ended(j) => Has(j).edges \subseteq LinksOf(j)'
    BY <1>8, <1>11, <2>1 DEF SheetsAgree
  <2> QED
    BY <1>6, <1>7, <2>2, <2>3 DEF SheetsAgree, OfKind, Rows, Edges
<1>16. /\ book'.rows \subseteq (DOMAIN book.picks) \X Resource
       /\ book'.edges \subseteq (DOMAIN book.picks) \X Link
  <2>1. new(i, k) \subseteq (DOMAIN book.picks) \X Resource
    BY <1>4, <1>5 DEF new
  <2> QED
    BY <1>2, <1>6, <2>1 DEF ExportTypeOK
<1>17. /\ book'.counts \in Seq([Kind -> Nat])
       /\ Len(book'.counts) = IF At + 1 < n THEN At + 1 ELSE n
  BY <1>2, <1>3, <1>6 DEF ExportTypeOK
<1> QED
  BY <1>1, <1>6, <1>12, <1>13, <1>15, <1>16, <1>17, ReadInv

LEMMA ReadEdgesInv ==
  ASSUME ExportInv, ReadEdges
  PROVE  ExportInv'
<1> DEFINE n == Len(book.picks)
           new(i) == {<<i, l>> : l \in Has(i).edges}
<1>1. /\ pc = "read" /\ todo # <<>> /\ Head(todo).type = "edges" /\ todo' = Tail(todo)
      /\ book' = [book EXCEPT !.edges = @ \cup new(Head(todo).pick)]
      /\ runs' = runs /\ pc' = pc /\ ask' = ask
  BY DEF ReadEdges, Read
<1>2. /\ ExportTypeOK /\ Progress
      /\ \A j \in DOMAIN book.picks : NothingElse(j) /\ CountsAgree(j) /\ SheetsAgree(j)
      /\ n \in Nat \ {0} /\ DOMAIN book.picks = 1 .. n /\ At \in Nat
  BY <1>1, ReadState
<1>3. At + 1 > n /\ Len(book.counts) = n
  BY <1>1, CountsTaken
<1>4. PICK i \in DOMAIN book.picks : Head(todo) = Edges(i)
  <2>1. \/ \E l \in Kind, j \in DOMAIN book.picks : Head(todo) = Rows(l, j)
        \/ \E j \in DOMAIN book.picks : Head(todo) = Edges(j)
    BY <1>1, CountsTaken
  <2>2. ~(\E l \in Kind, j \in DOMAIN book.picks : Head(todo) = Rows(l, j))
    BY <1>1 DEF Rows
  <2> QED
    BY <2>1, <2>2
<1>5. Has(i).edges \subseteq Link
  BY <1>2, <1>4, TypesAre
<1>6. /\ DOMAIN book' = {"multi", "picks", "counts", "rows", "edges"}
      /\ book'.multi = book.multi /\ book'.picks = book.picks
      /\ book'.counts = book.counts
      /\ book'.rows = book.rows /\ book'.edges = book.edges \cup new(i)
  <2>1. Head(todo).pick = i
    BY <1>4 DEF Edges
  <2>2. book' = [book EXCEPT !.edges = @ \cup new(i)]
    BY <1>1, <2>1
  <2> HIDE DEF new
  <2> QED
    BY <1>2, <2>2 DEF ExportTypeOK
<1>7. \A j : /\ Shown(j)' <=> Shown(j)
             /\ Ended(j)' <=> Ended(j)
             /\ Has(j)' = Has(j)
  BY <1>1, <1>6, ReadSame
<1>8. /\ \A j : RowsOf(j)' = RowsOf(j) /\ \A l : CountOf(j, l)' = CountOf(j, l)
      /\ \A j : j # i => LinksOf(j)' = LinksOf(j)
  BY <1>6 DEF RowsOf, LinksOf, CountOf
<1>9. LinksOf(i)' = LinksOf(i) \cup Has(i).edges
  <2>1. \A l : <<i, l>> \in new(i) <=> l \in Has(i).edges
    OBVIOUS
  <2> HIDE DEF new
  <2>2. \A l : <<i, l>> \in book'.edges <=> <<i, l>> \in book.edges \/ l \in Has(i).edges
    BY <1>6, <2>1
  <2> QED
    BY <1>5, <2>2 DEF LinksOf
<1>10. /\ book'.rows \subseteq (DOMAIN book.picks) \X Resource
       /\ book'.edges \subseteq (DOMAIN book.picks) \X Link
  BY <1>2, <1>4, <1>5, <1>6 DEF ExportTypeOK
<1> HIDE DEF new
<1>11. /\ \A l, j : Done(Rows(l, j))' <=> Done(Rows(l, j))
       /\ \A j : Done(Edges(j))' <=> Done(Edges(j)) \/ j = i
  <2>1. \A j : Edges(j) = Head(todo) <=> j = i
    BY <1>4 DEF Edges
  <2>2. \A l, j : Rows(l, j) # Head(todo)
    BY <1>4 DEF Rows, Edges
  <2>3. \A q : Done(q)' <=> Done(q) \/ q = Head(todo)
    BY <1>1, <1>6, ReadProgress
  <2>4. /\ \A l, j : Done(Rows(l, j))' <=> Done(Rows(l, j)) \/ Rows(l, j) = Head(todo)
        /\ \A j : Done(Edges(j))' <=> Done(Edges(j)) \/ Edges(j) = Head(todo)
    BY <2>3 DEF Rows, Edges
  <2> QED
    BY <2>1, <2>2, <2>4
<1>12. ASSUME NEW j \in DOMAIN book.picks PROVE NothingElse(j)'
  <2>1. NothingElse(j)
    BY <1>2
  <2>2. LinksOf(j)' \subseteq Has(j).edges
    BY <1>8, <1>9, <2>1 DEF NothingElse
  <2> QED
    BY <1>6, <1>7, <1>8, <2>1, <2>2 DEF NothingElse
<1>13. ASSUME NEW j \in DOMAIN book.picks PROVE CountsAgree(j)'
  BY <1>2, <1>6, <1>7 DEF CountsAgree, OfKind
<1>14. ASSUME NEW j \in DOMAIN book.picks PROVE SheetsAgree(j)'
  <2>1. SheetsAgree(j)
    BY <1>2
  <2>2. ASSUME NEW l \in Kind, Done(Rows(l, j))', Shown(j)
        PROVE  /\ book.counts[j][l] <= CountOf(j, l)'
               /\ Ended(j) => OfKind(l, Has(j).rows) \subseteq RowsOf(j)'
    BY <1>8, <1>11, <2>1, <2>2 DEF SheetsAgree
  <2>3. Done(Edges(j))' /\ Ended(j) => Has(j).edges \subseteq LinksOf(j)'
    <3>1. CASE j = i
      BY <1>9, <3>1
    <3>2. CASE j # i
      BY <1>8, <1>11, <2>1, <3>2 DEF SheetsAgree
    <3> QED
      BY <3>1, <3>2
  <2> QED
    BY <1>6, <1>7, <2>2, <2>3 DEF SheetsAgree, OfKind, Rows, Edges
<1>15. /\ book'.counts \in Seq([Kind -> Nat])
       /\ Len(book'.counts) = IF At + 1 < n THEN At + 1 ELSE n
  BY <1>2, <1>3, <1>6 DEF ExportTypeOK
<1> QED
  BY <1>1, <1>6, <1>10, <1>12, <1>13, <1>14, <1>15, ReadInv

-----------------------------------------------------------------------------

LEMMA NextInv == ExportInv /\ [Next]_vars => ExportInv'
<1> SUFFICES ASSUME ExportInv, [Next]_vars PROVE ExportInv'
  OBVIOUS
<1>1. ASSUME NEW s \in Scope, NEW t \in Instant, OpenRun(s, t) PROVE ExportInv'
  <2>1. Grew
    BY <1>1, ScansGrow DEF ExportInv
  <2> QED
    BY <1>1, <2>1, GrewInv DEF OpenRun
<1>2. ASSUME NEW i \in DOMAIN runs, FinishRun(i) PROVE ExportInv'
  <2>1. Grew
    BY <1>2, ScansGrow DEF ExportInv
  <2> QED
    BY <1>2, <2>1, GrewInv DEF FinishRun
<1>3. ASSUME NEW i \in DOMAIN runs, NEW r \in Resource, WriteRow(i, r) \/ WriteEdges(i, r)
      PROVE  ExportInv'
  <2>1. Grew
    BY <1>3, ScansGrow DEF ExportInv
  <2> QED
    BY <1>3, <2>1, GrewInv DEF WriteRow, WriteEdges
<1>4. CASE StartExport
  BY <1>4, StartExportInv
<1>5. CASE Resolve
  BY <1>5, ResolveInv
<1>6. CASE Resolved
  BY <1>6, ResolvedInv
<1>7. CASE ReadCounts
  BY <1>7, ReadCountsInv
<1>8. CASE ReadRows
  BY <1>8, ReadRowsInv
<1>9. CASE ReadEdges
  BY <1>9, ReadEdgesInv
<1>10. CASE Save
  BY <1>10, SaveInv
<1>11. CASE Fail
  BY <1>11, FailInv
<1>12. CASE UNCHANGED vars
  BY <1>12, StutterInv
<1> QED
  BY <1>1, <1>2, <1>3, <1>4, <1>5, <1>6, <1>7, <1>8, <1>9, <1>10, <1>11, <1>12 DEF Next

\* ExportInv is an invariant: at every point of an export the workbook has what
\* the queries asked so far found, whatever scans do meanwhile.
THEOREM ExportInvariant == Spec => []ExportInv
<1>1. Init => ExportInv
  BY InitInv
<1>2. ExportInv /\ [Next]_vars => ExportInv'
  BY NextInv
<1> QED
  BY <1>1, <1>2, PTL DEF Spec

\* When the last query is answered every sheet and every list of edges is read.
LEMMA SavedIsWhole ==
  ASSUME ExportInv, pc = "saved", NEW i \in DOMAIN book.picks
  PROVE  /\ \A k \in Kind : Done(Rows(k, i))
         /\ Done(Edges(i))
         /\ i <= Len(book.counts)
<1> DEFINE n == Len(book.picks)
<1>1. ExportTypeOK /\ Progress /\ todo = <<>>
  BY DEF ExportInv
<1>2. n \in Nat \ {0} /\ DOMAIN book.picks = 1 .. n
  <2>1. book.picks \in Seq(Pick) /\ book.picks # <<>>
    BY <1>1 DEF ExportTypeOK, Pick, Progress
  <2> QED
    BY <2>1, EmptySeq, LenProperties
<1>3. Asked = Queries(n)
  BY DEF Asked
<1> HIDE DEF n
<1>4. Len(Queries(n)) \in Nat
  <2>1. Queries(n) \in Seq(AnyQuery(n))
    BY <1>2, QueriesAre
  <2> QED
    BY <2>1, LenProperties
<1>5. At = Len(Queries(n))
  <2>1. Len(todo) = 0
    BY <1>1
  <2> QED
    BY <1>3, <1>4, <2>1 DEF At
<1>6. /\ n <= Len(Queries(n))
      /\ \A k \in Kind, j \in 1 .. n : \E p \in 1 .. Len(Queries(n)) : Queries(n)[p] = Rows(k, j)
      /\ \A j \in 1 .. n : \E p \in 1 .. Len(Queries(n)) : Queries(n)[p] = Edges(j)
  BY <1>2, AllAsked
<1>7. /\ \A k \in Kind : Done(Rows(k, i))
      /\ Done(Edges(i))
  BY <1>2, <1>3, <1>5, <1>6 DEF Done
<1>8. Len(book.counts) = n
  <2>1. Len(book.counts) = IF At < Len(book.picks) THEN At ELSE Len(book.picks)
    BY <1>1 DEF Progress
  <2> QED
    BY <1>2, <1>4, <1>5, <1>6, <2>1 DEF n
<1> QED
  BY <1>2, <1>7, <1>8

LEMMA InvSound == ExportInv => BookIsSound
<1> SUFFICES ASSUME ExportInv PROVE BookIsSound
  OBVIOUS
<1>1. ExportTypeOK /\ \A i \in DOMAIN book.picks : NothingElse(i)
  BY DEF ExportInv
<1>2. EndedRunIsWhole
  <2>1. SUFFICES ASSUME pc = "saved", NEW i \in DOMAIN book.picks, Shown(i), Ended(i)
                 PROVE  /\ RowsOf(i) = Has(i).rows
                        /\ LinksOf(i) = Has(i).edges
                        /\ \A k \in Kind : book.counts[i][k] = CountOf(i, k)
    BY DEF EndedRunIsWhole, Ended, LinksOf
  <2>2. CountsAgree(i) /\ SheetsAgree(i) /\ NothingElse(i)
    BY <2>1 DEF ExportInv
  <2>3. (\A k \in Kind : Done(Rows(k, i))) /\ Done(Edges(i)) /\ i <= Len(book.counts)
    BY <2>1, SavedIsWhole
  <2>4. Has(i).rows \subseteq Resource
    BY <1>1, <2>1, TypesAre
  <2>5. RowsOf(i) = Has(i).rows
    <3>1. RowsOf(i) \subseteq Has(i).rows
      BY <2>1, <2>2 DEF NothingElse
    <3>2. ASSUME NEW r \in Has(i).rows PROVE r \in RowsOf(i)
      <4>1. KindOf[r] \in Kind
        BY <2>4, ExportAssumption
      <4>2. OfKind(KindOf[r], Has(i).rows) \subseteq RowsOf(i)
        BY <2>1, <2>2, <2>3, <4>1 DEF SheetsAgree
      <4> QED
        BY <4>2 DEF OfKind
    <3> QED
      BY <3>1, <3>2
  <2>6. LinksOf(i) = Has(i).edges
    <3>1. LinksOf(i) \subseteq Has(i).edges
      BY <2>2 DEF NothingElse
    <3>2. Has(i).edges \subseteq LinksOf(i)
      BY <2>1, <2>2, <2>3 DEF SheetsAgree
    <3> QED
      BY <3>1, <3>2
  <2>7. ASSUME NEW k \in Kind PROVE book.counts[i][k] = CountOf(i, k)
    <3>1. book.counts[i][k] = Cardinality(OfKind(k, Has(i).rows))
      BY <2>1, <2>2, <2>3 DEF CountsAgree
    <3> QED
      BY <2>5, <3>1 DEF CountOf, OfKind
  <2> QED
    BY <2>5, <2>6, <2>7
<1>3. CountsAreOnSheets
  <2>1. SUFFICES ASSUME pc = "saved", NEW i \in DOMAIN book.picks, NEW k \in Kind
                 PROVE  book.counts[i][k] <= CountOf(i, k)
    BY DEF CountsAreOnSheets
  <2>2. CountsAgree(i) /\ SheetsAgree(i)
    BY <2>1 DEF ExportInv
  <2>3. Done(Rows(k, i)) /\ i <= Len(book.counts)
    BY <2>1, SavedIsWhole
  <2>4. CASE Shown(i)
    BY <2>2, <2>3, <2>4 DEF SheetsAgree
  <2>5. CASE ~Shown(i)
    <3>1. book.counts[i][k] = 0
      BY <2>2, <2>3, <2>5 DEF CountsAgree
    <3>2. CountOf(i, k) \in Nat
      <4>1. {r \in RowsOf(i) : KindOf[r] = k} \in SUBSET Resource
        BY DEF RowsOf
      <4> QED
        BY <4>1, Finite DEF CountOf
    <3> QED
      BY <3>1, <3>2
  <2> QED
    BY <2>4, <2>5
<1>4. OnlyOkRowsCombined
  BY <1>1 DEF OnlyOkRowsCombined, NothingElse, Shown
<1> QED
  BY <1>2, <1>3, <1>4 DEF BookIsSound

\* A saved workbook shows all of a run that had ended when it was picked, with
\* counts that are those of its sheets; of a running one it shows no less than it
\* counts; and a combined one has rows only of runs that were ok.
THEOREM Sound == Spec => []BookIsSound
<1>1. ExportInv => BookIsSound
  BY InvSound
<1> QED
  BY <1>1, ExportInvariant, PTL

LEMMA InvLatest == ExportInv => LatestIsOne
<1> SUFFICES ASSUME ExportInv PROVE LatestIsOne
  OBVIOUS
<1>1. runs \in Seq(Run)
  BY TypesAre DEF ExportInv
<1> QED
  BY <1>1, LatestLemma

\* However many runs there are and whenever they started, the walk along the list
\* takes each scope's latest run, once, and that run started last but for digits
\* that begin those of a later one.
THEOREM OneLatest == Spec => []LatestIsOne
<1>1. ExportInv => LatestIsOne
  BY InvLatest
<1> QED
  BY <1>1, ExportInvariant, PTL
=============================================================================
