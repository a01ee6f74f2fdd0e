---------------------------- MODULE LookupProofs ----------------------------
(***************************************************************************)
(* Proofs about a resource list under the command bar (Lookup), for any    *)
(* runs, kinds, rows, patterns, columns, suggestions and window sizes.     *)
(***************************************************************************)
EXTENDS Lookup, FiniteSetTheorems, SequenceTheorems, WellFoundedInduction, TLAPS

-----------------------------------------------------------------------------
(* Induction.  A set of numbers stands for the property they have: a least *)
(* number outside it is one too many.                                      *)

LEMMA Least ==
  ASSUME NEW S \in SUBSET Nat, S # {}
  PROVE  \E n \in S : \A m \in S : n <= m
<1>1. PICK n \in S : \A m \in S : ~(<<m, n>> \in OpToRel(<, Nat))
  BY NatLessThanWellFounded, WFMin
<1>2. ASSUME NEW m \in S PROVE n <= m
  <2>1. ~(m < n)
    BY <1>1 DEF OpToRel
  <2> QED
    BY <2>1
<1> QED
  BY <1>2

\* The set built by taking away, again and again, the member CHOOSE takes.
Without(s) == s \ {CHOOSE x \in s : TRUE}

\* Induction over the subsets of a finite set, along Without.
LEMMA SubsetInduction ==
  ASSUME NEW C, IsFiniteSet(C), NEW Q \in SUBSET (SUBSET C), {} \in Q,
         \A s \in SUBSET C : s # {} /\ Without(s) \in Q => s \in Q
  PROVE  Q = SUBSET C
<1> SUFFICES ASSUME Q # SUBSET C PROVE FALSE
  OBVIOUS
<1> DEFINE Bad == {Cardinality(s) : s \in (SUBSET C) \ Q}
<1>1. \A s \in SUBSET C : IsFiniteSet(s) /\ Cardinality(s) \in Nat
  BY FS_Subset, FS_CardinalityType
<1>2. Bad \in SUBSET Nat /\ Bad # {}
  BY <1>1
<1>3. PICK s \in (SUBSET C) \ Q : \A t \in (SUBSET C) \ Q : Cardinality(s) <= Cardinality(t)
  <2>1. PICK n \in Bad : \A m \in Bad : n <= m
    BY <1>2, Least
  <2> QED
    BY <2>1
<1>4. s # {}
  OBVIOUS
<1> DEFINE x == CHOOSE y \in s : TRUE
<1>5. x \in s
  BY <1>4
<1>6. Without(s) \in SUBSET C /\ Cardinality(Without(s)) = Cardinality(s) - 1
  BY <1>1, <1>5, FS_RemoveElement DEF Without
<1>7. Without(s) \in Q
  BY <1>1, <1>3, <1>6
<1> QED
  BY <1>4, <1>7

-----------------------------------------------------------------------------
(* Sums, which MapThenSumSet takes along Without.                          *)

IsSum(w, C, g) ==
  g = [s \in SUBSET C |->
         IF s = {} THEN 0 ELSE w[CHOOSE x \in s : TRUE] + g[Without(s)]]

LEMMA SumExists ==
  ASSUME NEW C, IsFiniteSet(C), NEW w \in [C -> Int]
  PROVE  \E g : IsSum(w, C, g)
<1> DEFINE Small(n) == {s \in SUBSET C : Cardinality(s) <= n}
           Body(g, s) == IF s = {} THEN 0 ELSE w[CHOOSE x \in s : TRUE] + g[Without(s)]
           Step(g, n) == [s \in Small(n) |-> Body(g, s)]
           Has == {n \in Nat : \E g : g = Step(g, n)}
<1>0. \A s \in SUBSET C : IsFiniteSet(s) /\ Cardinality(s) \in Nat
                          /\ Cardinality(s) <= Cardinality(C)
  BY FS_Subset, FS_CardinalityType
<1>1. 0 \in Has
  <2>1. \A s \in Small(0) : s = {}
    BY <1>0, FS_EmptySet
  <2> DEFINE z == [s \in Small(0) |-> 0]
  <2>2. z = Step(z, 0)
    BY <2>1
  <2> QED
    BY <2>2
<1>2. ASSUME NEW n \in Nat, n \in Has PROVE n + 1 \in Has
  <2>1. PICK g : g = Step(g, n)
    BY <1>2
  <2> DEFINE h == Step(g, n + 1)
  <2>2. ASSUME NEW s \in Small(n + 1), s # {}
        PROVE  Without(s) \in Small(n)
    <3>1. (CHOOSE x \in s : TRUE) \in s
      BY <2>2
    <3>2. Cardinality(Without(s)) = Cardinality(s) - 1
      BY <1>0, <3>1, FS_RemoveElement DEF Without
    <3> QED
      BY <1>0, <3>2 DEF Without
  <2>3. ASSUME NEW t \in Small(n) PROVE h[t] = g[t]
    <3>1. t \in Small(n + 1)
      BY <1>0
    <3>2. h[t] = IF t = {} THEN 0 ELSE w[CHOOSE x \in t : TRUE] + g[Without(t)]
      BY <3>1
    <3>3. g[t] = Step(g, n)[t]
      BY <2>1
    <3> QED
      BY <3>2, <3>3
  <2>4. \A s \in Small(n + 1) : s # {} => h[Without(s)] = g[Without(s)]
    BY <2>2, <2>3
  <2>5. \A s \in Small(n + 1) : Body(g, s) = Body(h, s)
    <3> HIDE DEF h, Small
    <3> QED
      BY <2>4
  <2>6. h = Step(h, n + 1)
    <3> HIDE DEF Body, Small
    <3> QED
      BY <2>5
  <2>7. \E f : f = Step(f, n + 1)
    <3> HIDE DEF Step
    <3> QED
      BY <2>6
  <2> QED
    BY <2>7, n + 1 \in Nat
<1>3. Cardinality(C) \in Has
  <2>1. SUFFICES ASSUME Nat \ Has # {} PROVE FALSE
    BY <1>0
  <2> HIDE DEF Has
  <2>2. PICK n \in Nat \ Has : \A m \in Nat \ Has : n <= m
    BY <2>1, Least
  <2>3. n # 0
    BY <1>1
  <2>4. n - 1 \in Has
    BY <2>2, <2>3
  <2> QED
    BY <1>2, <2>2, <2>3, <2>4
<1>4. Small(Cardinality(C)) = SUBSET C
  BY <1>0
<1> QED
  BY <1>3, <1>4 DEF IsSum

LEMMA SumIsInt ==
  ASSUME NEW C, IsFiniteSet(C), NEW w \in [C -> Int], NEW g, IsSum(w, C, g)
  PROVE  \A s \in SUBSET C : g[s] \in Int
<1> DEFINE Q == {s \in SUBSET C : g[s] \in Int}
<1>1. {} \in Q
  BY DEF IsSum
<1>2. ASSUME NEW s \in SUBSET C, s # {}, Without(s) \in Q PROVE s \in Q
  <2>1. g[s] = w[CHOOSE x \in s : TRUE] + g[Without(s)]
    BY <1>2 DEF IsSum
  <2>2. (CHOOSE x \in s : TRUE) \in C
    BY <1>2
  <2> QED
    BY <1>2, <2>1, <2>2
<1>3. Q \in SUBSET (SUBSET C)
  OBVIOUS
<1> HIDE DEF Q
<1>4. Q = SUBSET C
  BY <1>1, <1>2, <1>3, SubsetInduction
<1> QED
  BY <1>4 DEF Q

\* Changing one summand by d changes the sum by d.
LEMMA SumOneMore ==
  ASSUME NEW C, IsFiniteSet(C), NEW w \in [C -> Int], NEW c \in C, NEW d \in Int,
         NEW v \in [C -> Int], v[c] = w[c] + d, \A x \in C \ {c} : v[x] = w[x],
         NEW g, IsSum(w, C, g), NEW h, IsSum(v, C, h)
  PROVE  h[C] = g[C] + d
<1> DEFINE Q == {s \in SUBSET C : h[s] = g[s] + (IF c \in s THEN d ELSE 0)}
<1>0. \A s \in SUBSET C : g[s] \in Int
  BY SumIsInt
<1>1. {} \in Q
  BY DEF IsSum
<1>2. ASSUME NEW s \in SUBSET C, s # {}, Without(s) \in Q PROVE s \in Q
  <2> DEFINE x == CHOOSE y \in s : TRUE
  <2>1. x \in s
    BY <1>2
  <2>2. h[s] = v[x] + h[Without(s)] /\ g[s] = w[x] + g[Without(s)]
    BY <1>2 DEF IsSum
  <2>3. h[Without(s)] = g[Without(s)] + (IF c \in Without(s) THEN d ELSE 0)
    BY <1>2
  <2>4. Without(s) = s \ {x} /\ Without(s) \in SUBSET C
    BY DEF Without
  <2> HIDE DEF x
  <2>5. v[x] = w[x] + (IF x = c THEN d ELSE 0)
    BY <1>2, <2>1
  <2>6. w[x] \in Int /\ g[Without(s)] \in Int
    BY <1>0, <2>1, <2>4
  <2>7. CASE x = c
    BY <2>1, <2>2, <2>3, <2>4, <2>5, <2>6, <2>7
  <2>8. CASE x # c
    <3>1. c \in s <=> c \in Without(s)
      BY <2>4, <2>8
    <3> QED
      BY <2>2, <2>3, <2>5, <2>6, <2>8, <3>1
  <2> QED
    BY <2>7, <2>8
<1>3. Q \in SUBSET (SUBSET C)
  OBVIOUS
<1> HIDE DEF Q
<1>4. Q = SUBSET C
  BY <1>1, <1>2, <1>3, SubsetInduction
<1> QED
  BY <1>4 DEF Q

LEMMA Distributes ==
  ASSUME NEW a \in Int, NEW b \in Int, NEW c \in Int
  PROVE  a * (b + c) = a * b + a * c
OBVIOUS

\* Shares that are rounded down add up to no more than what is shared out.
LEMMA SumOfShares ==
  ASSUME NEW C, IsFiniteSet(C), NEW w \in [C -> Int], NEW v \in [C -> Int],
         NEW b \in Int, NEW total \in Int,
         \A c \in C : total * v[c] <= b * w[c],
         NEW g, IsSum(w, C, g), NEW h, IsSum(v, C, h)
  PROVE  total * h[C] <= b * g[C]
<1> DEFINE Q == {s \in SUBSET C : total * h[s] <= b * g[s]}
<1>0. \A s \in SUBSET C : g[s] \in Int /\ h[s] \in Int
  BY SumIsInt
<1>1. {} \in Q
  BY DEF IsSum
<1>2. ASSUME NEW s \in SUBSET C, s # {}, Without(s) \in Q PROVE s \in Q
  <2> DEFINE x == CHOOSE y \in s : TRUE
             t == Without(s)
  <2>1. x \in C /\ t \in SUBSET C
    BY <1>2 DEF Without
  <2>2. h[s] = v[x] + h[t] /\ g[s] = w[x] + g[t]
    BY <1>2 DEF IsSum
  <2>3. total * h[t] <= b * g[t]
    BY <1>2
  <2> HIDE DEF x, t
  <2>4. v[x] \in Int /\ w[x] \in Int /\ h[t] \in Int /\ g[t] \in Int
    BY <1>0, <2>1
  <2>5. total * h[s] = total * v[x] + total * h[t]
    BY <2>2, <2>4, Distributes
  <2>6. b * g[s] = b * w[x] + b * g[t]
    BY <2>2, <2>4, Distributes
  <2>7. total * v[x] <= b * w[x]
    BY <2>1
  <2> QED
    BY <2>3, <2>4, <2>5, <2>6, <2>7
<1>3. Q \in SUBSET (SUBSET C)
  OBVIOUS
<1> HIDE DEF Q
<1>4. Q = SUBSET C
  BY <1>1, <1>2, <1>3, SubsetInduction
<1> QED
  BY <1>4 DEF Q

-----------------------------------------------------------------------------
(* The widths of the columns.                                              *)

LEMMA ColumnsAreFinite == Column = 1 .. Len(Natural) /\ IsFiniteSet(Column) /\ Len(Natural) \in Nat
BY ListViewAssumption, FS_Interval DEF Column

LEMMA TotalIsSum ==
  ASSUME NEW w \in [Column -> Int]
  PROVE  \E g : IsSum(w, Column, g) /\ Total(w) = g[Column]
<1> DEFINE Sum == CHOOSE g : IsSum(w, Column, g)
<1>1. IsSum(w, Column, Sum)
  BY ColumnsAreFinite, SumExists
<1>2. Total(w) = Sum[Column]
  BY DEF Total, MapThenSumSet, MapThenFoldSet, IsSum, Without
<1> QED
  BY <1>1, <1>2

LEMMA TotalIsInt ==
  ASSUME NEW w \in [Column -> Int]
  PROVE  Total(w) \in Int
BY TotalIsSum, SumIsInt, ColumnsAreFinite

LEMMA MaxOfTwo ==
  ASSUME NEW a \in Int, NEW b \in Int
  PROVE  Max({a, b}) = IF a >= b THEN a ELSE b
<1>1. \E x \in {a, b} : \A y \in {a, b} : x >= y
  OBVIOUS
<1>2. Max({a, b}) \in {a, b} /\ \A y \in {a, b} : Max({a, b}) >= y
  BY <1>1 DEF Max
<1> QED
  BY <1>2

LEMMA MinOfTwo ==
  ASSUME NEW a \in Int, NEW b \in Int
  PROVE  Min({a, b}) = IF a <= b THEN a ELSE b
<1>1. \E x \in {a, b} : \A y \in {a, b} : x <= y
  OBVIOUS
<1>2. Min({a, b}) \in {a, b} /\ \A y \in {a, b} : Min({a, b}) <= y
  BY <1>1 DEF Min
<1> QED
  BY <1>2

\* A column has four cells, or no more than its share.
LEMMA ScaledShare ==
  ASSUME NEW budget \in Int, ~FitsAsIs(budget), NEW c \in Column
  PROVE  /\ Scaled(budget)[c] \in Nat
         /\ Scaled(budget)[c] = 4 \/ Total(Natural) * Scaled(budget)[c] <= budget * Natural[c]
<1> DEFINE total == Total(Natural)
           share == (Natural[c] * budget) \div total
<1>1. total \in Int /\ Natural[c] \in Nat /\ Cardinality(Column) \in Nat
  BY TotalIsInt, ColumnsAreFinite, ListViewAssumption, FS_CardinalityType
<1>2. total > budget /\ budget > 0 /\ total \in Nat
  BY <1>1 DEF FitsAsIs
<1> HIDE DEF total
<1>3. Natural[c] * budget \in Nat
  BY <1>1, <1>2
<1>4. share \in Int /\ total * share <= Natural[c] * budget
  <2> DEFINE m == Natural[c] * budget
  <2> HIDE DEF m
  <2>1. m \in Nat
    BY <1>3 DEF m
  <2>2. m \div total \in Int /\ total * (m \div total) <= m
    BY <1>2, <2>1
  <2> QED
    BY <2>2 DEF m
<1>5. Natural[c] * budget = budget * Natural[c]
  BY <1>1
<1> HIDE DEF share
<1>6. Scaled(budget)[c] = IF 4 >= share THEN 4 ELSE share
  BY <1>4, MaxOfTwo DEF Scaled, total, share
<1> QED
  BY <1>4, <1>5, <1>6 DEF total

LEMMA ScaledType ==
  ASSUME NEW budget \in Int, ~FitsAsIs(budget)
  PROVE  Scaled(budget) \in [Column -> Nat]
BY ScaledShare DEF Scaled

\* More is used than offered only if some column is at the floor.
LEMMA FloorOrFit ==
  ASSUME NEW budget \in Int, ~FitsAsIs(budget), Total(Scaled(budget)) > budget
  PROVE  \E c \in Column : Scaled(budget)[c] = 4
<1> SUFFICES ASSUME \A c \in Column : Scaled(budget)[c] # 4 PROVE FALSE
  OBVIOUS
<1> DEFINE v == Scaled(budget)
           total == Total(Natural)
           used == Total(v)
<1>1. \A c \in Column : total * v[c] <= budget * Natural[c]
  BY ScaledShare
<1>2. v \in [Column -> Int] /\ Natural \in [Column -> Int]
  BY ScaledType, ListViewAssumption, ColumnsAreFinite
<1>3. total \in Int /\ used \in Int /\ budget < total /\ budget > 0
  <2>1. total \in Int /\ used \in Int
    BY <1>2, TotalIsInt
  <2>2. Cardinality(Column) \in Nat
    BY ColumnsAreFinite, FS_CardinalityType
  <2> QED
    BY <2>1, <2>2 DEF FitsAsIs
<1> HIDE DEF v
<1>4. total * used <= budget * total
  <2>1. PICK g : IsSum(Natural, Column, g) /\ total = g[Column]
    BY <1>2, TotalIsSum
  <2>2. PICK h : IsSum(v, Column, h) /\ used = h[Column]
    BY <1>2, TotalIsSum
  <2> HIDE DEF total, used
  <2> QED
    BY <1>1, <1>2, <1>3, <2>1, <2>2, SumOfShares, ColumnsAreFinite
<1>5. used > budget
  BY DEF v
<1> HIDE DEF total, used
<1>6. total * used >= total * (budget + 1)
  BY <1>3, <1>5
<1>7. total * (budget + 1) = total * budget + total
  BY <1>3
<1>8. total * budget = budget * total
  BY <1>3
<1>9. total * used \in Int /\ budget * total \in Int
  BY <1>3
<1> QED
  BY <1>3, <1>4, <1>6, <1>7, <1>8, <1>9

\* What fitColumnWidths makes of the columns in a pane of w cells: they are as
\* they like, or fill it to the last cell, or one of them is at the floor.
LEMMA FitFills ==
  ASSUME NEW w \in Nat
  PROVE  LET f    == fitColumnWidths(w)
             used == Total(f) + 2 * Cardinality(Column)
         IN  /\ f \in Seq(Nat)
             /\ f # Natural =>
                  used = w \/ (used > w /\ \E c \in Column : f[c] = 4)
<1> DEFINE n == Cardinality(Column)
           budget == w - 2 * n
           v == Scaled(budget)
           used == Total(v)
           widened == [v EXCEPT ![1] = @ + (budget - used)]
<1>1. n \in Nat /\ budget \in Int
  BY ColumnsAreFinite, FS_CardinalityType
<1>2. CASE FitsAsIs(budget)
  BY <1>2, ListViewAssumption DEF fitColumnWidths
<1>3. CASE ~FitsAsIs(budget)
  <2>1. v \in [Column -> Nat] /\ used \in Int
    BY <1>1, <1>3, ScaledType, TotalIsInt
  <2>2. CASE used < budget
    <3>1. fitColumnWidths(w) = widened
      BY <1>3, <2>2 DEF fitColumnWidths
    <3>0. used = Total(v)
      OBVIOUS
    <3> HIDE DEF v, used, budget, n
    <3>2. 1 \in Column
      <4>1. SUFFICES ASSUME Column = {} PROVE FALSE
        BY ColumnsAreFinite
      <4>2. Natural \in [Column -> Int]
        BY ListViewAssumption, ColumnsAreFinite
      <4>3. Total(Natural) = 0
        BY <4>1, <4>2, TotalIsSum DEF IsSum
      <4>4. Total(Natural) > budget /\ budget > 4 * n
        BY <1>1, <1>3, <4>3 DEF FitsAsIs, n
      <4> QED
        BY <1>1, <4>3, <4>4
    <3>3. \A c \in Column : widened[c] \in Nat /\ DOMAIN widened = Column
      BY <1>1, <2>1, <2>2, <3>2
    <3>4. widened \in [Column -> Nat]
      <4>1. widened = [c \in Column |-> widened[c]]
        BY <2>1
      <4> HIDE DEF widened
      <4> QED
        BY <3>3, <4>1
    <3>5. Total(widened) = used + (budget - used)
      <4>1. v \in [Column -> Int] /\ widened \in [Column -> Int] /\ budget - used \in Int
        BY <1>1, <2>1, <3>4
      <4>2. PICK g : IsSum(v, Column, g) /\ used = g[Column]
        BY <3>0, <4>1, TotalIsSum
      <4>3. PICK h : IsSum(widened, Column, h) /\ Total(widened) = h[Column]
        BY <4>1, TotalIsSum
      <4>4. h[Column] = g[Column] + (budget - used)
        <5> DEFINE d == budget - used
        <5>1. widened[1] = v[1] + d /\ \A x \in Column \ {1} : widened[x] = v[x]
          BY <2>1, <3>2
        <5> HIDE DEF widened, d
        <5>2. d \in Int
          BY <4>1 DEF d
        <5>3. IsFiniteSet(Column) /\ v \in [Column -> Int] /\ widened \in [Column -> Int]
          BY <4>1, ColumnsAreFinite
        <5>4. h[Column] = g[Column] + d
          BY <3>2, <4>2, <4>3, <5>1, <5>2, <5>3, SumOneMore
        <5> QED
          BY <5>4 DEF d
      <4> QED
        BY <4>2, <4>3, <4>4
    <3>6. Total(widened) + 2 * n = w
      <4>1. budget = w - 2 * n
        BY DEF budget
      <4> HIDE DEF widened
      <4> QED
        BY <1>1, <2>1, <3>5, <4>1
    <3>7. widened \in Seq(Nat)
      <4> HIDE DEF widened
      <4> QED
        BY <3>4, ColumnsAreFinite
    <3> HIDE DEF widened
    <3> QED
      BY <3>1, <3>6, <3>7 DEF n
  <2>3. CASE ~(used < budget)
    <3>1. fitColumnWidths(w) = v
      BY <1>3, <2>3 DEF fitColumnWidths
    <3>2. v \in Seq(Nat)
      BY <2>1, ColumnsAreFinite
    <3>3. used = budget \/ (used > budget /\ \E c \in Column : v[c] = 4)
      BY <1>1, <1>3, <2>1, <2>3, FloorOrFit
    <3> HIDE DEF used, v, n
    <3>4. used + 2 * n = w \/ (used + 2 * n > w /\ \E c \in Column : v[c] = 4)
      BY <1>1, <2>1, <3>3
    <3> QED
      BY <3>1, <3>2, <3>4 DEF used, n
  <2> QED
    BY <2>2, <2>3
<1> QED
  BY <1>2, <1>3

-----------------------------------------------------------------------------
(* The rows of a list.                                                     *)

ListSource == [run : Run, kind : Kind] \cup {Nothing}

LEMMA RowsAreRows ==
  ASSUME NEW s \in ListSource
  PROVE  Answered(s) \subseteq AnyRow /\ AnyRow \subseteq Nat \ {0} /\ IsFiniteSet(Answered(s))
<1>1. \A r \in Run, k \in Kind : Size[r][k] \in Nat /\ Rows(r, k) = 1 .. Size[r][k]
  BY PanesAssumption DEF Rows
<1>2. AnyRow \subseteq Nat \ {0}
  BY <1>1 DEF AnyRow
<1>3. CASE s = Nothing
  BY <1>2, <1>3, FS_EmptySet DEF Answered
<1>4. CASE s # Nothing
  <2>1. s.run \in Run /\ s.kind \in Kind /\ Answered(s) = Rows(s.run, s.kind)
    BY <1>4 DEF ListSource, Answered
  <2>2. Answered(s) \subseteq AnyRow
    BY <2>1 DEF AnyRow
  <2>3. IsFiniteSet(Answered(s))
    <3>1. Answered(s) = 1 .. Size[s.run][s.kind] /\ Size[s.run][s.kind] \in Int
      BY <1>1, <2>1
    <3> QED
      BY <3>1, FS_Interval
  <2> QED
    BY <1>2, <2>2, <2>3
<1> QED
  BY <1>3, <1>4

\* The visible rows are a sequence of the matching ones.
LEMMA ArrangedRows ==
  ASSUME NEW s \in ListSource, NEW p, NEW o, NEW v, NEW w \in Arranged(v, s, p, o)
  PROVE  w \in Seq(AnyRow) /\ Range(w) = Matching(s, p)
<1> DEFINE M == Matching(s, p)
<1>1. M \in SUBSET Answered(s) /\ Answered(s) \subseteq AnyRow
  BY RowsAreRows DEF Matching
<1>2. Cardinality(M) \in Nat
  BY <1>1, RowsAreRows, FS_Subset, FS_CardinalityType
<1>3. w \in [1 .. Cardinality(M) -> M] /\ Range(w) = M
  BY DEF Arranged, Orderings
<1> HIDE DEF M
<1>4. w \in Seq(M)
  BY <1>2, <1>3
<1>5. w \in Seq(AnyRow)
  BY <1>1, <1>4
<1> QED
  BY <1>3, <1>5 DEF M

LEMMA AllMatch ==
  ASSUME NEW s
  PROVE  Matching(s, NoText) = Answered(s)
BY DEF Matching, Matches

\* A list without an answer has no rows.
LEMMA NoRows ==
  ASSUME NEW o
  PROVE  <<>> \in Arranged(Stored(Nothing), Nothing, NoText, o)
<1>1. Matching(Nothing, NoText) = {}
  BY AllMatch DEF Answered
<1>2. Cardinality({}) = 0
  BY FS_EmptySet
<1>3. <<>> \in [1 .. 0 -> {}] /\ Range(<<>>) = {}
  BY DEF Range
<1> QED
  BY <1>1, <1>2, <1>3 DEF Arranged, Orderings

LEMMA HeightIsInt ==
  ASSUME NEW n \in Nat, NEW h \in Int
  PROVE  tableHeight(n, h) \in Int
<1>1. Min({n + 1, h - 6}) \in Int
  BY MinOfTwo
<1> QED
  BY <1>1, MaxOfTwo DEF tableHeight

-----------------------------------------------------------------------------
(* Every step keeps the list's invariant.                                  *)

\* A step to new rows: what applyFilter and SetRows leave.
LEMMA RowsStep ==
  ASSUME ListTypeOK, NEW s \in ListSource, NEW p \in Text, NEW o \in Order,
         applyFilter(s, p, o)
  PROVE  /\ visible' \in Seq(AnyRow) /\ Len(visible') \in Nat
         /\ Range(visible') = Matching(s, p)
         /\ visible' \in Arranged(Stored(s), s, p, o)
         /\ shown' = p /\ tall' \in Int
         /\ height > 0 => tall' = tableHeight(Len(visible'), height)
<1>1. visible' \in Arranged(Stored(s), s, p, o)
  BY DEF applyFilter
<1>2. visible' \in Seq(AnyRow) /\ Range(visible') = Matching(s, p)
  BY <1>1, ArrangedRows
<1>3. Len(visible') \in Nat
  BY <1>2
<1>4. tall' \in Int
  BY <1>3, HeightIsInt DEF applyFilter, ListTypeOK
<1> QED
  BY <1>1, <1>2, <1>3, <1>4 DEF applyFilter

LEMMA AfterSetRowsIs ==
  ASSUME NEW c \in Nat, NEW n \in Nat, NEW d \in AfterSetRows(c, n)
  PROVE  d \in Nat /\ d <= n
BY DEF AfterSetRows

LEMMA ListInit_ == ListInit => ListInv
<1> SUFFICES ASSUME ListInit PROVE ListInv
  OBVIOUS
<1>1. <<>> \in Arranged(Stored(Nothing), Nothing, NoText, Unsorted)
  BY NoRows
<1>2. ListTypeOK
  <2>1. own \in [run : Run, kind : Kind]
    BY DEF ListInit
  <2>2. visible \in Seq(AnyRow)
    BY DEF ListInit
  <2>3. sort \in Order /\ filterIn \in Text /\ shown \in Text
    BY DEF ListInit, Order, Text
  <2>4. widths \in Seq(Nat)
    BY ListViewAssumption DEF ListInit
  <2>5. /\ src = Nothing /\ loaded = FALSE /\ filterOn = FALSE /\ cursor = 1
        /\ pending = 0 /\ goal = 0 /\ height = 0 /\ tall = 15 /\ innerWidth = 0
    BY DEF ListInit
  <2>6. pending \in AnyRow \cup {0} /\ goal \in AnyRow \cup {0}
    BY <2>5
  <2>7. src \in [run : Run, kind : Kind] \cup {Nothing}
    BY <2>5
  <2>8. cursor \in Nat /\ height \in Nat /\ tall \in Int /\ innerWidth \in Nat
    BY <2>5
  <2>9. loaded \in BOOLEAN /\ filterOn \in BOOLEAN
    BY <2>5
  <2> QED
    BY <2>1, <2>2, <2>3, <2>4, <2>6, <2>7, <2>8, <2>9 DEF ListTypeOK
<1>3. RowsAreCurrent
  BY <1>1 DEF ListInit, RowsAreCurrent
<1> QED
  BY <1>2, <1>3 DEF ListInit, ListInv

LEMMA NewListStep ==
  ASSUME NEW r \in Run, NEW k \in Kind, NEW j \in AnyRow \cup {0}, NEW h \in Nat,
         NewList(r, k, j, h)
  PROVE  ListInv'
<1>1. <<>> \in Arranged(Stored(Nothing), Nothing, NoText, Unsorted)
  BY NoRows
<1>2. tableHeight(0, h) \in Int
  BY HeightIsInt
<1>3. ListTypeOK'
  <2>1. own' \in [run : Run, kind : Kind]
    BY DEF NewList
  <2>2. visible' \in Seq(AnyRow)
    BY DEF NewList
  <2>3. sort' \in Order /\ filterIn' \in Text /\ shown' \in Text
    BY DEF NewList, Order, Text
  <2>4. widths' \in Seq(Nat) /\ tall' \in Int
    BY <1>2, ListViewAssumption DEF NewList
  <2> QED
    BY <2>1, <2>2, <2>3, <2>4 DEF NewList, ListTypeOK
<1>4. RowsAreCurrent'
  BY <1>1 DEF NewList, RowsAreCurrent
<1>5. visible' = <<>> /\ widths' = Natural /\ height' = h
      /\ (h > 0 => tall' = tableHeight(Len(visible'), h))
  BY DEF NewList
<1> QED
  BY <1>3, <1>4, <1>5 DEF ListInv

LEMMA TakeLoadStep ==
  ASSUME ListInv, NEW s \in ListSource, TakeLoad(s)
  PROVE  ListInv'
<1>1. /\ visible' \in Seq(AnyRow) /\ Len(visible') \in Nat
      /\ visible' \in Arranged(Stored(s), s, NoText, sort)
      /\ shown' = NoText /\ tall' \in Int
      /\ height > 0 => tall' = tableHeight(Len(visible'), height)
  BY RowsStep DEF TakeLoad, ListInv, ListTypeOK, Text
<1>2. cursor' \in Nat /\ cursor' <= Len(visible')
  <2>1. \A c \in AfterSetRows(cursor, Len(visible')) : c \in Nat /\ c <= Len(visible')
    BY <1>1, AfterSetRowsIs DEF ListInv, ListTypeOK
  <2>2. \A c \in DOMAIN visible' : c \in Nat /\ c <= Len(visible')
    BY <1>1
  <2> QED
    BY <2>1, <2>2 DEF TakeLoad
<1>3. ListTypeOK'
  BY <1>1, <1>2 DEF TakeLoad, ListInv, ListTypeOK, Text, ListSource
<1>4. RowsAreCurrent'
  BY <1>1 DEF TakeLoad, RowsAreCurrent
<1> QED
  BY <1>1, <1>2, <1>3, <1>4 DEF TakeLoad, ListInv

LEMMA ResizeStep ==
  ASSUME ListInv, NEW h \in Nat, Resize(h)
  PROVE  ListInv'
<1>1. tableHeight(Len(visible), h) \in Int
  BY HeightIsInt DEF ListInv, ListTypeOK
<1>2. ListTypeOK'
  BY <1>1 DEF Resize, ListInv, ListTypeOK
<1>3. RowsAreCurrent'
  BY DEF Resize, ListInv, RowsAreCurrent
<1> QED
  BY <1>2, <1>3 DEF Resize, ListInv

LEMMA SetInnerWidthStep ==
  ASSUME ListInv, NEW w \in Int, SetInnerWidth(w)
  PROVE  ListInv'
<1>1. w \in Nat /\ widths' = fitColumnWidths(w) /\ widths' \in Seq(Nat)
  BY FitFills DEF SetInnerWidth
<1>2. cursor' \in Nat /\ cursor' <= Len(visible)
  BY AfterSetRowsIs DEF SetInnerWidth, ListInv, ListTypeOK
<1>3. ListTypeOK'
  BY <1>1, <1>2 DEF SetInnerWidth, ListInv, ListTypeOK
<1>4. RowsAreCurrent'
  BY DEF SetInnerWidth, ListInv, RowsAreCurrent
<1>5. UNCHANGED <<visible, height, tall>> /\ innerWidth' = w
  BY DEF SetInnerWidth
<1> QED
  BY <1>1, <1>2, <1>3, <1>4, <1>5 DEF ListInv

LEMMA ReapplyStep ==
  ASSUME ListInv, NEW t \in Text, Reapply(t), sort' \in Order, filterIn' \in Text,
         filterOn' \in BOOLEAN, goal' \in AnyRow \cup {0}
  PROVE  ListInv'
<1>1. src \in ListSource
  BY DEF ListInv, ListTypeOK, ListSource
<1>2. /\ visible' \in Seq(AnyRow) /\ Len(visible') \in Nat
      /\ visible' \in Arranged(Stored(src), src, t, sort')
      /\ shown' = t /\ tall' \in Int
      /\ height > 0 => tall' = tableHeight(Len(visible'), height)
  BY <1>1, RowsStep DEF Reapply, ListInv
<1>3. cursor' \in Nat /\ cursor' <= Len(visible')
  BY <1>2, AfterSetRowsIs DEF Reapply, ListInv, ListTypeOK
<1>4. ListTypeOK'
  BY <1>2, <1>3 DEF Reapply, ListInv, ListTypeOK
<1>5. RowsAreCurrent'
  BY <1>2 DEF Reapply, RowsAreCurrent
<1>6. UNCHANGED <<widths, innerWidth, height>>
  BY DEF Reapply
<1> QED
  BY <1>2, <1>3, <1>4, <1>5, <1>6 DEF ListInv

LEMMA CycleSortIsOrder ==
  ASSUME NEW o \in Order
  PROVE  cycleSort(o) \in Order
<1>1. CASE o.column = 0
  <2>1. \A x \in [column : Column, desc : BOOLEAN] : x.column # 0
    BY ColumnsAreFinite
  <2>2. o = Unsorted
    BY <1>1, <2>1 DEF Order
  <2>3. 1 \in Column
    BY ColumnsAreFinite, ListViewAssumption
  <2> QED
    BY <1>1, <2>3 DEF cycleSort, Order
<1>2. CASE o.column # 0
  <2>1. o \in [column : Column, desc : BOOLEAN]
    BY <1>2 DEF Order, Unsorted
  <2> QED
    BY <1>2, <2>1 DEF cycleSort, Order
<1> QED
  BY <1>1, <1>2

LEMMA SetCursorIs ==
  ASSUME NEW c \in Int, NEW n \in Nat
  PROVE  IF n = 0 THEN SetCursor(c, n) = 0 ELSE SetCursor(c, n) \in 1 .. n
BY DEF SetCursor, clampCursor

LEMMA CursorStep ==
  ASSUME ListInv, NEW c \in Int, CursorTo(c)
  PROVE  ListInv'
<1>1. Len(visible) \in Nat
  BY DEF ListInv, ListTypeOK
<1>2. cursor' \in Nat /\ cursor' <= Len(visible)
  BY <1>1, SetCursorIs DEF CursorTo
<1>3. ListTypeOK'
  BY <1>2 DEF CursorTo, ListInv, ListTypeOK
<1>4. RowsAreCurrent'
  BY DEF CursorTo, ListInv, RowsAreCurrent
<1>5. UNCHANGED <<visible, widths, innerWidth, height, tall>>
  BY DEF CursorTo
<1> QED
  BY <1>1, <1>2, <1>3, <1>4, <1>5 DEF ListInv

\* The keys that move the cursor.
CursorKey == Top \/ Bottom \/ Down \/ Up \/ HalfDown \/ HalfUp \/ TableKey

LEMMA CursorKeyMoves ==
  ASSUME ListTypeOK, CursorKey
  PROVE  ~filterOn /\ \E c \in Int : CursorTo(c)
<1>1. cursor \in Nat /\ Len(visible) \in Nat /\ DOMAIN visible \subseteq Int
  BY DEF ListTypeOK
<1>2. halfPage \in Int
  BY DEF ListTypeOK, halfPage
<1>3. \A c \in Int : clampCursor(c, Len(visible)) \in Int
  BY <1>1 DEF clampCursor
<1>4. CASE Top \/ Bottom \/ Down \/ Up
  BY <1>1, <1>4 DEF Top, Bottom, Down, Up
<1>5. CASE HalfDown \/ HalfUp
  <2>1. cursor + halfPage \in Int /\ cursor - halfPage \in Int
    BY <1>1, <1>2
  <2> QED
    BY <1>3, <1>5, <2>1 DEF HalfDown, HalfUp
<1>6. CASE TableKey
  BY <1>1, <1>6 DEF TableKey
<1> QED
  BY <1>4, <1>5, <1>6 DEF CursorKey

LEMMA ListKeyStep ==
  ASSUME ListInv, ListKey
  PROVE  ListInv'
<1>1. ASSUME NEW t \in Text, FilterText(t) PROVE ListInv'
  BY <1>1, ReapplyStep DEF FilterText, ListInv, ListTypeOK
<1>2. CASE FilterEsc
  BY <1>2, ReapplyStep DEF FilterEsc, ListInv, ListTypeOK, Text
<1>3. CASE FilterEnter
  <2>1. ListTypeOK' /\ RowsAreCurrent'
    BY <1>3 DEF FilterEnter, ListInv, ListTypeOK, RowsAreCurrent
  <2> QED
    BY <1>3, <2>1 DEF FilterEnter, ListInv
<1>4. CASE Slash
  <2>1. ListTypeOK' /\ RowsAreCurrent'
    BY <1>4 DEF Slash, ListInv, ListTypeOK, RowsAreCurrent, Text
  <2> QED
    BY <1>4, <2>1 DEF Slash, ListInv
<1>5. CASE SortKey
  <2>1. sort' \in Order
    BY <1>5, CycleSortIsOrder DEF SortKey, ListInv, ListTypeOK
  <2> QED
    BY <1>5, <2>1, ReapplyStep DEF SortKey, ListInv, ListTypeOK
<1>6. CASE CursorKey
  BY <1>6, CursorKeyMoves, CursorStep DEF ListInv
<1> QED
  BY <1>1, <1>2, <1>3, <1>4, <1>5, <1>6 DEF ListKey, CursorKey

LEMMA ListMessageStep ==
  ASSUME ListInv, ListMessage
  PROVE  ListInv'
<1>1. ASSUME NEW s \in ListSource, TakeLoad(s) PROVE ListInv'
  BY <1>1, TakeLoadStep
<1>2. CASE OtherMessage
  BY <1>2, ReapplyStep DEF OtherMessage, FilterText, ListInv, ListTypeOK
<1> QED
  BY <1>1, <1>2 DEF ListMessage, ListSource

-----------------------------------------------------------------------------
(* The command bar.                                                        *)

LEMMA BarSizes == maxFuzzyResults \in Nat \ {0} /\ visibleWindow \in Nat \ {0}
BY PaletteAssumption

LEMMA FoundIsSuggestions ==
  ASSUME NEW t \in Typed \cup {Blank}, NEW r \in Run
  PROVE  Found(t, r) \in Seq(Suggestion)
<1>1. CASE t = Blank
  BY <1>1 DEF Found
<1>2. CASE t # Blank
  <2> DEFINE all == AliasHits[t] \o IndexHits[r][t]
  <2>1. AliasHits[t] \in Seq(Suggestion) /\ IndexHits[r][t] \in Seq(Suggestion)
    <3>1. AliasHits[t] \in Seq(AliasEntry) /\ IndexHits[r][t] \in Seq(ResourceEntry)
      BY <1>2, PaletteAssumption DEF MaybeRun
    <3> QED
      BY <3>1 DEF Suggestion
  <2>2. all \in Seq(Suggestion) /\ Len(all) \in Nat
    <3>1. all \in Seq(Suggestion)
      BY <2>1, ConcatProperties, Zenon
    <3> HIDE DEF all
    <3> QED
      BY <3>1
  <2>3. Found(t, r) = SubSeq(all, 1, Min({maxFuzzyResults, Len(all)}))
    BY <1>2 DEF Found
  <2> HIDE DEF all
  <2>4. Min({maxFuzzyResults, Len(all)}) \in 0 .. Len(all)
    BY <2>2, MinOfTwo, BarSizes
  <2>5. SubSeq(all, 1, Min({maxFuzzyResults, Len(all)})) \in Seq(Suggestion)
    <3> DEFINE m == Min({maxFuzzyResults, Len(all)})
    <3> HIDE DEF m
    <3>0. m \in 0 .. Len(all)
      BY <2>4 DEF m
    <3>1. m \in Int /\ \A i \in 1 .. m : all[i] \in Suggestion
      BY <2>2, <3>0, ElementOfSeq
    <3>2. SubSeq(all, 1, m) \in Seq(Suggestion)
      BY <3>1, SubSeqProperties
    <3> QED
      BY <3>2 DEF m
  <2> QED
    BY <2>3, <2>5
<1> QED
  BY <1>1, <1>2

\* The entry highlighted after the suggestions were found again: the first
\* one that is the entry the user moved to, or the first of all.
LEMMA RecomputeHighlights ==
  ASSUME BarInv, NEW t \in Typed \cup {Blank}, recomputeSuggestions(t)
  PROVE  /\ suggestions' = Found(t, resources) /\ suggestions' \in Seq(Suggestion)
         /\ \/ selected' = 1 /\ offset' = 0 /\ Highlighted(suggestions') = {}
            \/ selected' \in Highlighted(suggestions') /\ offset' = WindowOver(selected')
<1>1. suggestions' = Found(t, resources) /\ suggestions' \in Seq(Suggestion)
  BY FoundIsSuggestions DEF recomputeSuggestions, BarInv, BarTypeOK
<1> DEFINE kept == Highlighted(suggestions')
<1>2. kept \in SUBSET Nat
  BY <1>1 DEF Highlighted
<1>3. kept = {} => selected' = 1 /\ offset' = 0
  BY DEF recomputeSuggestions
<1>4. kept # {} => selected' = Min(kept) /\ offset' = WindowOver(selected')
  BY DEF recomputeSuggestions
<1>5. kept # {} => Min(kept) \in kept
  <2> HIDE DEF kept
  <2>1. kept # {} => \E x \in kept : \A y \in kept : x <= y
    BY <1>2, Least
  <2> QED
    BY <2>1 DEF Min
<1> QED
  BY <1>1, <1>3, <1>4, <1>5

LEMMA RecomputeStep ==
  ASSUME BarInv, NEW t \in Typed \cup {Blank}, recomputeSuggestions(t),
         open' \in BOOLEAN, UNCHANGED resources
  PROVE  BarInv'
<1>1. suggestions' \in Seq(Suggestion)
  BY RecomputeHighlights
<1>2. visibleWindow \in Nat \ {0}
  BY BarSizes
<1>3. text' = t
  BY DEF recomputeSuggestions
<1>4. CASE selected' = 1 /\ offset' = 0
  <2>1. BarTypeOK'
    BY <1>1, <1>3, <1>4 DEF BarInv, BarTypeOK
  <2>2. suggestions' # <<>> => 1 \in DOMAIN suggestions'
    BY <1>1
  <2> QED
    BY <1>2, <1>4, <2>1, <2>2 DEF BarInv, HighlightOnScreen
<1>5. CASE selected' \in Highlighted(suggestions') /\ offset' = WindowOver(selected')
  <2>1. selected' \in DOMAIN suggestions' /\ selected' \in 1 .. Len(suggestions')
    BY <1>1, <1>5 DEF Highlighted
  <2>2. /\ offset' \in Nat /\ selected' \in offset' + 1 .. offset' + visibleWindow
        /\ offset' = 0 \/ offset' + visibleWindow = selected'
    BY <1>1, <1>2, <1>5, <2>1 DEF WindowOver
  <2>3. BarTypeOK'
    BY <1>1, <1>3, <2>1, <2>2 DEF BarInv, BarTypeOK
  <2>4. suggestions' # <<>>
    BY <2>1
  <2> QED
    BY <1>1, <1>2, <2>1, <2>2, <2>3, <2>4 DEF BarInv, HighlightOnScreen
<1> QED
  BY <1>4, <1>5, RecomputeHighlights

LEMMA BarInit_ == BarInit => BarInv
<1> SUFFICES ASSUME BarInit PROVE BarInv
  OBVIOUS
<1>1. BarTypeOK
  <2>1. suggestions \in Seq(Suggestion)
    BY DEF BarInit
  <2>2. /\ open = FALSE /\ text = Blank /\ resources \in Run
        /\ selected = 1 /\ offset = 0
    BY DEF BarInit
  <2>3. selected \in Nat \ {0} /\ offset \in Nat
    BY <2>2
  <2>5. open \in BOOLEAN
    BY <2>2
  <2>4. text \in Typed \cup {Blank} /\ resources \in Run
    BY <2>2
  <2> QED
    BY <2>1, <2>3, <2>4, <2>5 DEF BarTypeOK
<1>2. suggestions = <<>> /\ selected = 1 /\ offset = 0
  BY DEF BarInit
<1> QED
  BY <1>1, <1>2 DEF BarInv, HighlightOnScreen

LEMMA CloseStep ==
  ASSUME BarInv, Close, UNCHANGED <<text, resources>>
  PROVE  BarInv'
<1>1. BarTypeOK'
  <2>1. suggestions' \in Seq(Suggestion)
    BY DEF Close
  <2>2. text' \in Typed \cup {Blank} /\ resources' \in Run
    BY DEF BarInv, BarTypeOK
  <2>3. selected' \in Nat \ {0} /\ offset' \in Nat
    BY DEF Close
  <2>4. open' \in BOOLEAN
    BY DEF Close
  <2> QED
    BY <2>1, <2>2, <2>3, <2>4 DEF BarTypeOK
<1>2. suggestions' = <<>> /\ selected' = 1 /\ offset' = 0
  BY DEF Close
<1> QED
  BY <1>1, <1>2 DEF BarInv, HighlightOnScreen

LEMMA BarMoveStep ==
  ASSUME BarInv, BarUp \/ BarDown
  PROVE  BarInv'
<1>1. /\ Len(suggestions) \in Nat /\ DOMAIN suggestions = 1 .. Len(suggestions)
      /\ selected \in Nat \ {0} /\ offset \in Nat /\ visibleWindow \in Nat \ {0}
  BY BarSizes DEF BarInv, BarTypeOK
<1>2. UNCHANGED <<open, text, resources, suggestions>>
  BY DEF BarUp, BarDown
<1>3. suggestions # <<>>
  BY <1>1 DEF BarUp, BarDown, BarInv
<1>4. selected \in offset + 1 .. offset + visibleWindow /\ selected \in 1 .. Len(suggestions)
      /\ (offset = 0 \/ offset + visibleWindow <= Len(suggestions))
  BY <1>1, <1>3 DEF BarInv, HighlightOnScreen
<1>5. /\ selected' \in 1 .. Len(suggestions) /\ offset' \in Nat
      /\ selected' \in offset' + 1 .. offset' + visibleWindow
      /\ offset' = 0 \/ offset' + visibleWindow <= Len(suggestions)
  <2>1. CASE BarUp
    BY <1>1, <1>4, <2>1 DEF BarUp
  <2>2. CASE BarDown
    BY <1>1, <1>4, <2>2 DEF BarDown, WindowOver
  <2> QED
    BY <2>1, <2>2
<1>6. BarTypeOK'
  BY <1>1, <1>2, <1>5 DEF BarInv, BarTypeOK
<1> QED
  BY <1>1, <1>2, <1>3, <1>5, <1>6 DEF BarInv, HighlightOnScreen

LEMMA InputStep ==
  ASSUME BarInv, NEW t \in Typed \cup {Blank}, Input(t)
  PROVE  BarInv'
BY RecomputeStep DEF Input, BarInv, BarTypeOK

LEMMA OpenStep ==
  ASSUME BarInv, Open
  PROVE  BarInv'
<1>1. open' \in BOOLEAN
  BY DEF Open
<1> QED
  BY <1>1, RecomputeStep DEF Open

LEMMA BarFrame ==
  ASSUME BarInv, UNCHANGED bvars
  PROVE  BarInv'
BY DEF bvars, BarInv, BarTypeOK, HighlightOnScreen

LEMMA ListFrame ==
  ASSUME ListInv, UNCHANGED lvars
  PROVE  ListInv'
<1>1. ListTypeOK' /\ RowsAreCurrent'
  BY DEF lvars, ListInv, ListTypeOK, RowsAreCurrent
<1> QED
  BY <1>1 DEF lvars, ListInv

-----------------------------------------------------------------------------
(* The lists under the one on the screen.                                  *)

LEMMA ThisOK ==
  ASSUME ListInv
  PROVE  ListOK(This)
<1>1. This \in ListState
  BY DEF ListInv, ListTypeOK, This, ListState
<1>2. This.visible \in Arranged(Stored(This.src), This.src, This.shown, This.sort)
  BY DEF ListInv, RowsAreCurrent, This
<1>3. /\ This.visible = <<>> \/ This.cursor <= Len(This.visible)
      /\ This.widths = Natural \/ This.widths = fitColumnWidths(This.innerWidth)
      /\ This.height > 0 => This.tall = tableHeight(Len(This.visible), This.height)
  BY DEF ListInv, This
<1> QED
  BY <1>1, <1>2, <1>3 DEF ListOK

LEMMA ShowOK ==
  ASSUME NEW l, ListOK(l), Show(l)
  PROVE  ListInv'
<1>0. /\ l.own \in [run : Run, kind : Kind]
      /\ l.src \in [run : Run, kind : Kind] \cup {Nothing}
      /\ l.loaded \in BOOLEAN /\ l.visible \in Seq(AnyRow) /\ l.cursor \in Nat
      /\ l.filterOn \in BOOLEAN /\ l.filterIn \in Text /\ l.sort \in Order
      /\ l.pending \in AnyRow \cup {0} /\ l.height \in Nat /\ l.tall \in Int
      /\ l.innerWidth \in Nat /\ l.widths \in Seq(Nat) /\ l.shown \in Text
      /\ l.goal \in AnyRow \cup {0}
  BY DEF ListOK, ListState
<1>1. ListTypeOK'
  BY <1>0 DEF Show, ListTypeOK
<1>2. RowsAreCurrent'
  BY DEF ListOK, Show, RowsAreCurrent
<1> QED
  BY <1>1, <1>2 DEF ListOK, Show, ListInv

LEMMA HistoryFrame ==
  ASSUME HistoryOK, UNCHANGED leftHistory, window' = NoWindow => window = NoWindow
  PROVE  HistoryOK'
BY DEF HistoryOK

-----------------------------------------------------------------------------
(* The sizes that are handed down.                                         *)

LEMMA BudgetIsHeight ==
  ASSUME NEW w \in Window \cup {NoWindow}, NEW o \in BOOLEAN
  PROVE  RenderHeight(o) \in Nat /\ bodyBudget(w, o) \in Nat /\ bodyBudget(w, o) > 0
<1>1. w.height \in Nat
  BY LookupAssumption DEF NoWindow
<1>2. RenderHeight(o) \in Nat
  BY BarSizes DEF RenderHeight
<1>3. w.height - 3 - RenderHeight(o) \in Int
  BY <1>1, <1>2
<1> QED
  BY <1>2, <1>3, MaxOfTwo DEF bodyBudget

LEMMA WindowsAreSizes ==
  ASSUME NEW w \in Window
  PROVE  w # NoWindow /\ w.width \in Nat
<1>1. w \in [width : Nat \ {0}, height : Nat \ {0}]
  BY LookupAssumption
<1> QED
  BY <1>1 DEF NoWindow

LEMMA SyncStep ==
  ASSUME ListInv, SizesAgree, open \in BOOLEAN, open' \in BOOLEAN, syncBodyShrink
  PROVE  ListInv' /\ SizesAgree' /\ UNCHANGED <<window, leftHistory>>
<1>1. window' = window /\ window \in Window \cup {NoWindow}
  BY DEF syncBodyShrink, SizesAgree
<1>2. CASE Shrunk
  <2> DEFINE h == bodyBudget(window, open')
  <2>1. h \in Nat
    BY <1>1, BudgetIsHeight
  <2>2. Resize(h) /\ height' = h
    BY <1>2 DEF syncBodyShrink, TellFrame, Resize
  <2>3. window # NoWindow /\ window.width \in Nat
    BY <1>1, <1>2, WindowsAreSizes DEF Shrunk
  <2>4. /\ frame' = [width |-> window.width, height |-> h]
        /\ lastBodyShrink' = RenderHeight(open') /\ sizedFor' = window
        /\ UNCHANGED leftHistory
    BY <1>2 DEF syncBodyShrink, TellFrame
  <2>5. ListInv'
    BY <2>1, <2>2, ResizeStep
  <2> HIDE DEF h
  <2>6. frame' \in [width : Nat, height : Nat] /\ frame'.height = height'
    BY <2>1, <2>2, <2>3, <2>4
  <2> QED
    BY <1>1, <2>2, <2>3, <2>4, <2>5, <2>6 DEF SizesAgree, h
<1>3. CASE ~Shrunk
  <2>1. UNCHANGED <<lvars, lastBodyShrink, frame, leftHistory, sizedFor>>
    BY <1>3 DEF syncBodyShrink
  <2>2. ListInv'
    BY <2>1, ListFrame
  <2>3. window # NoWindow => RenderHeight(open') = RenderHeight(open)
    BY <1>3 DEF Shrunk, SizesAgree
  <2>4. window # NoWindow => bodyBudget(window, open') = bodyBudget(window, open)
    BY <2>3 DEF bodyBudget
  <2> QED
    BY <1>1, <2>1, <2>2, <2>3, <2>4 DEF SizesAgree, lvars
<1> QED
  BY <1>2, <1>3

\* No key and no message of the list changes what it was told.
LEMMA KeysKeepHeight ==
  ASSUME ListKey \/ ListMessage
  PROVE  height' = height
<1>1. \A t : Reapply(t) => height' = height
  BY DEF Reapply
<1>2. \A c : CursorTo(c) => height' = height
  BY DEF CursorTo
<1>3. CASE ListKey
  <2>1. CASE (\E t \in Text : FilterText(t)) \/ FilterEsc \/ SortKey
    BY <1>1, <2>1 DEF FilterText, FilterEsc, SortKey
  <2>2. CASE FilterEnter \/ Slash
    BY <2>2 DEF FilterEnter, Slash
  <2>3. CASE CursorKey
    BY <1>2, <2>3 DEF CursorKey, Top, Bottom, Down, Up, HalfDown, HalfUp, TableKey
  <2> QED
    BY <1>3, <2>1, <2>2, <2>3 DEF ListKey, CursorKey
<1>4. CASE ListMessage
  BY <1>1, <1>4 DEF ListMessage, TakeLoad, OtherMessage, FilterText
<1> QED
  BY <1>3, <1>4

\* What Enter commits is a suggestion: a kind, or a row of one.
LEMMA CommitsSuggestion ==
  ASSUME BarInv, NEW s \in commit
  PROVE  (s \in AliasEntry /\ IsAlias(s)) \/ (s \in ResourceEntry /\ ~IsAlias(s))
<1>1. s \in Suggestion
  BY DEF commit, BarInv, BarTypeOK, HighlightOnScreen
<1>2. NoKind \notin Kind
  BY PanesAssumption
<1>3. CASE s \in AliasEntry
  <2>1. s.kind = NoKind
    BY <1>3 DEF AliasEntry
  <2> QED
    BY <1>3, <2>1 DEF IsAlias
<1>4. CASE s \in ResourceEntry
  <2>1. s.kind \in Kind
    BY <1>4 DEF ResourceEntry
  <2> QED
    BY <1>2, <1>4, <2>1 DEF IsAlias
<1> QED
  BY <1>1, <1>3, <1>4 DEF Suggestion

\* The height handed to a new list is the one the closed bar leaves.
LEMMA SyncedIs ==
  ASSUME LookupInv, open' = FALSE
  PROVE  /\ SyncedHeight \in Nat
         /\ window # NoWindow => SyncedHeight = bodyBudget(window, open')
         /\ window = NoWindow => SyncedHeight = 0
<1>0. window \in Window \cup {NoWindow} /\ frame.height \in Nat
  BY DEF LookupInv, SizesAgree
<1>1. CASE Shrunk
  BY <1>0, <1>1, BudgetIsHeight DEF SyncedHeight, Shrunk
<1>2. CASE ~Shrunk
  <2>1. SyncedHeight = frame.height
    BY <1>2 DEF SyncedHeight
  <2>2. window # NoWindow => RenderHeight(open') = RenderHeight(open)
    BY <1>2 DEF Shrunk, SizesAgree, LookupInv
  <2>3. window # NoWindow => bodyBudget(window, open') = bodyBudget(window, open)
    BY <2>2 DEF bodyBudget
  <2> QED
    BY <1>0, <2>1, <2>3 DEF SizesAgree, LookupInv, NoWindow
<1> QED
  BY <1>1, <1>2

\* The bar's closing reaches the list whenever the window is known.
LEMMA ClosingIsSeen ==
  ASSUME LookupInv, open, open' = FALSE, window # NoWindow
  PROVE  Shrunk
<1>1. lastBodyShrink = 1 + visibleWindow
  BY DEF LookupInv, SizesAgree, RenderHeight
<1>2. RenderHeight(open') = 0 /\ visibleWindow \in Nat
  BY BarSizes DEF RenderHeight
<1> QED
  BY <1>1, <1>2 DEF Shrunk

LEMMA ToldOK ==
  ASSUME LookupInv, open, open' = FALSE
  PROVE  /\ ListOK(Told)
         /\ window # NoWindow => Told.height = bodyBudget(window, FALSE)
<1>0. ListOK(This)
  BY ThisOK DEF LookupInv
<1> DEFINE h == SyncedHeight
           n == Len(visible)
<1>1. h \in Nat /\ (window # NoWindow => h = bodyBudget(window, FALSE))
  BY SyncedIs
<1>2. CASE Shrunk
  <2>1. tableHeight(n, h) \in Int
    <3>1. n \in Nat
      BY DEF LookupInv, ListInv, ListTypeOK
    <3> QED
      BY <1>1, <3>1, HeightIsInt
  <2>2. Told = [This EXCEPT !.height = h, !.tall = tableHeight(n, h)]
    BY <1>2 DEF Told
  <2>3. This.visible = visible
    BY DEF This
  <2> DEFINE t == tableHeight(n, h)
  <2>4. t = tableHeight(Len(This.visible), h)
    BY <2>3
  <2>5. h \in Nat /\ t \in Int /\ Told = [This EXCEPT !.height = h, !.tall = t]
    BY <1>1, <2>1, <2>2
  <2>6. This \in ListState
    BY <1>0 DEF ListOK
  <2> HIDE DEF h, n, t
  <2>7. /\ Told \in ListState /\ Told.height = h /\ Told.tall = t
        /\ Told.visible = This.visible /\ Told.src = This.src /\ Told.shown = This.shown
        /\ Told.sort = This.sort /\ Told.cursor = This.cursor
        /\ Told.widths = This.widths /\ Told.innerWidth = This.innerWidth
    BY <2>5, <2>6 DEF ListState
  <2> QED
    BY <1>0, <1>1, <2>4, <2>7 DEF ListOK
<1>3. CASE ~Shrunk
  BY <1>0, <1>3, ClosingIsSeen DEF Told
<1> QED
  BY <1>2, <1>3

LEMMA LeaveStep ==
  ASSUME LookupInv, open, open' = FALSE, Leave, UNCHANGED window
  PROVE  HistoryOK'
<1> DEFINE e == [list |-> Told, sizedFor |-> IF Shrunk THEN window ELSE sizedFor]
<1>1. CASE UNCHANGED leftHistory
  BY <1>1, HistoryFrame DEF LookupInv
<1>2. CASE leftHistory' = Append(leftHistory, e)
  <2>1. ListOK(e.list) /\ e.list \in ListState
    <3>1. e.list = Told
      OBVIOUS
    <3>2. ListOK(Told) /\ Told \in ListState
      BY ToldOK DEF ListOK
    <3> HIDE DEF e
    <3> QED
      BY <3>1, <3>2
  <2>2. /\ e.sizedFor \in Window \cup {NoWindow}
        /\ window = NoWindow => e.sizedFor = NoWindow
        /\ e.sizedFor # NoWindow => e.list.height = bodyBudget(e.sizedFor, FALSE)
    BY ToldOK, ClosingIsSeen DEF LookupInv, SizesAgree
  <2>3. e \in [list : ListState, sizedFor : Window \cup {NoWindow}]
    BY <2>1, <2>2
  <2> HIDE DEF e
  <2>4. leftHistory \in Seq([list : ListState, sizedFor : Window \cup {NoWindow}])
    BY DEF LookupInv, HistoryOK
  <2>5. leftHistory' \in Seq([list : ListState, sizedFor : Window \cup {NoWindow}])
    BY <1>2, <2>3, <2>4
  <2>6. \A i \in DOMAIN leftHistory' :
          leftHistory'[i] = e \/ (i \in DOMAIN leftHistory /\ leftHistory'[i] = leftHistory[i])
    BY <1>2, <2>3, <2>4
  <2> QED
    BY <2>1, <2>2, <2>5, <2>6 DEF LookupInv, HistoryOK
<1> QED
  BY <1>1, <1>2 DEF Leave

LEMMA CommitListStep ==
  ASSUME LookupInv, open, open' = FALSE, NEW s \in commit, CommitList(s)
  PROVE  /\ ListInv' /\ SizesAgree' /\ HistoryOK'
         /\ \E k \in Kind, j \in AnyRow \cup {0}, h \in Nat : NewList(own.run, k, j, h)
<1> DEFINE h == SyncedHeight
<1>0. window' = window /\ window \in Window \cup {NoWindow} /\ frame.height \in Nat
      /\ frame.width \in Nat /\ frame \in [width : Nat, height : Nat]
      /\ open \in BOOLEAN /\ open' \in BOOLEAN /\ own.run \in Run
      /\ sizedFor' = window
  BY DEF CommitList, LookupInv, SizesAgree, BarInv, BarTypeOK, ListInv, ListTypeOK
<1>1. h \in Nat /\ (window # NoWindow => h = bodyBudget(window, open'))
  BY SyncedIs
<1>2. window # NoWindow => lastBodyShrink' = RenderHeight(open')
  BY DEF CommitList, Shrunk
<1>3. window = NoWindow => frame' = NoWindow
  <2>1. window = NoWindow => frame = NoWindow /\ SyncedHeight = 0
    BY SyncedIs DEF SizesAgree, LookupInv
  <2>2. frame' = [frame EXCEPT !.height = SyncedHeight]
    BY DEF CommitList
  <2> QED
    BY <2>1, <2>2 DEF NoWindow
<1>4. frame' = [frame EXCEPT !.height = h]
  BY DEF CommitList
<1>5. PICK k \in Kind, j \in AnyRow \cup {0} : NewList(own.run, k, j, h)
  <2>1. CASE s \in AliasEntry /\ IsAlias(s)
    BY <2>1 DEF CommitList, AliasEntry
  <2>2. CASE s \in ResourceEntry /\ ~IsAlias(s)
    BY <2>2 DEF CommitList, ResourceEntry
  <2> QED
    BY <2>1, <2>2, CommitsSuggestion DEF LookupInv
<1>6. height' = h
  BY <1>5 DEF NewList
<1> HIDE DEF h
<1>7. ListInv'
  BY <1>0, <1>1, <1>5, NewListStep
<1>8. frame' \in [width : Nat, height : Nat] /\ frame'.height = h
  BY <1>0, <1>1, <1>4
<1>9. SizesAgree'
  BY <1>0, <1>1, <1>2, <1>3, <1>6, <1>8 DEF SizesAgree
<1>10. HistoryOK'
  BY <1>0, LeaveStep DEF CommitList
<1> QED
  BY <1>1, <1>5, <1>7, <1>9, <1>10

LEMMA FrameEscStep ==
  ASSUME LookupInv, FrameEsc
  PROVE  LookupInv'
<1> DEFINE n == Len(leftHistory)
           last == leftHistory[n]
<1>1. /\ leftHistory \in Seq([list : ListState, sizedFor : Window \cup {NoWindow}])
      /\ leftHistory # <<>> /\ UNCHANGED <<window, lastBodyShrink, frame>> /\ UNCHANGED bvars
      /\ Show(last.list) /\ sizedFor' = last.sizedFor
      /\ leftHistory' = SubSeq(leftHistory, 1, n - 1)
  BY DEF FrameEsc, LookupInv, HistoryOK
<1>2. n \in Nat \ {0} /\ n \in DOMAIN leftHistory /\ last.sizedFor \in Window \cup {NoWindow}
  <2>1. n \in Nat \ {0} /\ n \in DOMAIN leftHistory
    BY <1>1
  <2> DEFINE E == [list : ListState, sizedFor : Window \cup {NoWindow}]
  <2>2. leftHistory \in Seq(E) /\ n \in 1 .. Len(leftHistory)
    BY <1>1, <2>1
  <2>3. last.sizedFor \in Window \cup {NoWindow}
    <3>1. last \in E
      <4> HIDE DEF E
      <4> QED
        BY <2>2, ElementOfSeq
    <3> QED
      BY <3>1
  <2> QED
    BY <2>1, <2>3
<1>3. /\ ListOK(last.list)
      /\ window = NoWindow => last.sizedFor = NoWindow
      /\ last.sizedFor # NoWindow => last.list.height = bodyBudget(last.sizedFor, FALSE)
  BY <1>2 DEF LookupInv, HistoryOK
<1>4. height' = last.list.height /\ open' = open /\ open = FALSE
  <2>1. open \in BOOLEAN /\ ~open
    BY DEF FrameEsc, LookupInv, BarInv, BarTypeOK
  <2> QED
    BY <1>1, <2>1 DEF Show, bvars
<1> HIDE DEF last
<1>5. ListInv' /\ BarInv'
  BY <1>1, <1>3, ShowOK, BarFrame DEF LookupInv
<1>6. SizesAgree'
  BY <1>1, <1>2, <1>3, <1>4 DEF SizesAgree, LookupInv
<1>7. HistoryOK'
  <2>1. /\ leftHistory' \in Seq([list : ListState, sizedFor : Window \cup {NoWindow}])
        /\ \A i \in DOMAIN leftHistory' :
             i \in DOMAIN leftHistory /\ leftHistory'[i] = leftHistory[i]
    <3> DEFINE E == [list : ListState, sizedFor : Window \cup {NoWindow}]
    <3>1. leftHistory \in Seq(E)
      BY <1>1
    <3> HIDE DEF E
    <3>2. n \in Nat \ {0} /\ DOMAIN leftHistory = 1 .. n
      BY <1>2, <3>1
    <3>3. /\ leftHistory' \in Seq(E) /\ DOMAIN leftHistory' = 1 .. n - 1
          /\ \A i \in 1 .. n - 1 : leftHistory'[i] = leftHistory[i]
      BY <1>1, <3>1, <3>2
    <3> QED
      BY <3>2, <3>3 DEF E
  <2> QED
    BY <1>1, <2>1 DEF LookupInv, HistoryOK
<1> QED
  BY <1>5, <1>6, <1>7 DEF LookupInv

\* A new list is told what the Frame was.
LEMMA FreshListStep ==
  ASSUME LookupInv, NEW r \in Run, NEW k \in Kind, NewList(r, k, 0, frame.height),
         sizedFor' = window, UNCHANGED <<window, lastBodyShrink, frame, open>>
  PROVE  ListInv' /\ SizesAgree'
<1>1. frame.height \in Nat
  BY DEF LookupInv, SizesAgree
<1>2. height' = frame.height
  BY DEF NewList
<1>3. ListInv'
  BY <1>1, NewListStep
<1> QED
  BY <1>2, <1>3 DEF LookupInv, SizesAgree

LEMMA LookupInit == Init => LookupInv
<1> SUFFICES ASSUME Init PROVE LookupInv
  OBVIOUS
<1>1. ListInv /\ BarInv
  BY ListInit_, BarInit_ DEF Init
<1>2. SizesAgree
  BY DEF Init, SizesAgree, NoWindow
<1>3. HistoryOK
  BY DEF Init, HistoryOK
<1> QED
  BY <1>1, <1>2, <1>3 DEF LookupInv

LEMMA LookupStep == LookupInv /\ [Next]_vars => LookupInv'
<1> SUFFICES ASSUME LookupInv, [Next]_vars PROVE LookupInv'
  OBVIOUS
<1> USE DEF LookupInv
<1>0. open \in BOOLEAN /\ window \in Window \cup {NoWindow}
  BY DEF BarInv, BarTypeOK, SizesAgree
<1>1. CASE ToList
  <2>1. BarInv'
    BY <1>1, BarFrame DEF ToList
  <2>2. ListInv'
    BY <1>1, ListKeyStep, ListMessageStep DEF ToList
  <2>3. height' = height
    BY <1>1, KeysKeepHeight DEF ToList
  <2> QED
    BY <1>1, <2>1, <2>2, <2>3, HistoryFrame DEF ToList, SizesAgree, fvars, bvars
<1>2. CASE ToBar
  <2>1. BarInv'
    <3>1. ASSUME NEW t \in Typed \cup {Blank}, Input(t) PROVE BarInv'
      BY <3>1, InputStep
    <3>2. CASE BarUp \/ BarDown
      BY <3>2, BarMoveStep
    <3>3. CASE Esc
      BY <3>3, CloseStep DEF Esc
    <3> QED
      BY <1>2, <3>1, <3>2, <3>3 DEF ToBar
  <2> QED
    BY <1>0, <1>2, <2>1, SyncStep, HistoryFrame DEF ToBar, BarInv, BarTypeOK
<1>3. CASE OpenBar
  <2>1. BarInv'
    BY <1>3, OpenStep DEF OpenBar
  <2> QED
    BY <1>0, <1>3, <2>1, SyncStep, HistoryFrame DEF OpenBar, BarInv, BarTypeOK
<1>4. CASE Commit
  <2>1. BarInv'
    BY <1>4, CloseStep DEF Commit, Enter
  <2>2. CASE syncBodyShrink
    BY <1>0, <2>1, <2>2, SyncStep, HistoryFrame DEF BarInv, BarTypeOK
  <2>3. CASE \E s \in commit : CommitList(s)
    <3>1. open' = FALSE /\ open
      BY <1>4 DEF Commit, Enter, Close
    <3> QED
      BY <2>1, <2>3, <3>1, CommitListStep
  <2> QED
    BY <1>4, <2>2, <2>3 DEF Commit
<1>5. CASE SwitchRun
  <2>1. PICK r \in Run, k \in Kind : SetCorpus(r) /\ NewList(r, k, 0, frame.height)
    BY <1>5 DEF SwitchRun
  <2>2. BarInv'
    BY <2>1 DEF SetCorpus, BarInv, BarTypeOK, HighlightOnScreen
  <2>3. ListInv' /\ SizesAgree'
    BY <1>5, <2>1, FreshListStep DEF SwitchRun, SetCorpus
  <2>4. HistoryOK'
    BY <1>5 DEF SwitchRun, HistoryOK
  <2> QED
    BY <2>2, <2>3, <2>4
<1>6. CASE WindowSize
  <2>1. PICK w \in Window :
          /\ window' = w /\ lastBodyShrink' = RenderHeight(open)
          /\ TellFrame(w, bodyBudget(w, open)) /\ UNCHANGED bvars
    BY <1>6 DEF WindowSize
  <2> DEFINE h == bodyBudget(w, open)
  <2>2. h \in Nat /\ w # NoWindow /\ w.width \in Nat
    BY <1>0, BudgetIsHeight, WindowsAreSizes
  <2>3. /\ Resize(h) /\ height' = h /\ frame' = [width |-> w.width, height |-> h]
        /\ sizedFor' = w /\ UNCHANGED leftHistory
    BY <2>1 DEF TellFrame, Resize
  <2>4. open' = open
    BY <2>1 DEF bvars
  <2>5. BarInv' /\ ListInv'
    BY <2>1, <2>2, <2>3, BarFrame, ResizeStep
  <2> HIDE DEF h
  <2>6. frame' \in [width : Nat, height : Nat] /\ frame'.height = height'
    BY <2>2, <2>3
  <2>7. SizesAgree'
    BY <2>1, <2>2, <2>3, <2>4, <2>6 DEF SizesAgree, h
  <2>8. HistoryOK'
    BY <2>1, <2>2, <2>3, HistoryFrame
  <2> QED
    BY <2>5, <2>7, <2>8
<1>7. CASE Draw
  <2>1. PICK w \in Int : SetInnerWidth(w)
    <3>1. frame.width \in Nat
      BY DEF SizesAgree
    <3>2. frame.width - 2 \in Int /\ ((frame.width - 1) * 60) \div 100 - 2 \in Int
      BY <3>1
    <3> QED
      BY <1>7, <3>2 DEF Draw
  <2>2. ListInv' /\ height' = height
    BY <2>1, SetInnerWidthStep DEF SetInnerWidth
  <2>3. BarInv'
    BY <1>7, BarFrame DEF Draw
  <2> QED
    BY <1>7, <2>2, <2>3, HistoryFrame DEF Draw, SizesAgree, fvars, bvars
<1>8. CASE UNCHANGED vars
  <2>1. UNCHANGED lvars /\ UNCHANGED bvars /\ UNCHANGED fvars
    BY <1>8 DEF vars, lvars, bvars, fvars
  <2>2. ListInv' /\ BarInv'
    BY <2>1, ListFrame, BarFrame
  <2> QED
    BY <2>1, <2>2, HistoryFrame DEF SizesAgree, lvars, bvars, fvars
<1>9. CASE FrameEsc
  BY <1>9, FrameEscStep
<1>10. CASE DrillAgain
  <2>1. PICK k \in Kind : NewList(own.run, k, 0, frame.height)
    BY <1>10 DEF DrillAgain
  <2>2. own.run \in Run
    BY DEF ListInv, ListTypeOK
  <2>3. ListInv' /\ SizesAgree'
    BY <1>10, <2>1, <2>2, FreshListStep DEF DrillAgain, bvars
  <2>4. HistoryOK' /\ BarInv'
    BY <1>10, HistoryFrame, BarFrame DEF DrillAgain
  <2> QED
    BY <2>3, <2>4
<1> QED
  BY <1>1, <1>2, <1>3, <1>4, <1>5, <1>6, <1>7, <1>8, <1>9, <1>10 DEF Next

LEMMA LookupCorrect == Spec => []LookupInv
BY LookupInit, LookupStep, PTL DEF Spec

-----------------------------------------------------------------------------

\* Whatever answers, filters, sorts, resizes and new lists come in whatever
\* order, the rows of a list are those its last answer and its last filter
\* leave, in the order of its sort and then of the store.
THEOREM RowsCurrent == Spec => []RowsAreCurrent
<1>1. LookupInv => RowsAreCurrent
  BY DEF LookupInv, ListInv
<1> QED
  BY <1>1, LookupCorrect, PTL

\* What Enter would commit is an entry of the list and inside its window.
THEOREM HighlightShown == Spec => []HighlightOnScreen
<1>1. LookupInv => HighlightOnScreen
  BY DEF LookupInv, BarInv
<1> QED
  BY <1>1, LookupCorrect, PTL

\* fitColumnWidths spends the pane to the last cell, for any columns, unless
\* one is at the floor.
THEOREM ColumnsFill == Spec => []ColumnsFillPane
<1>1. LookupInv => ColumnsFillPane
  <2> SUFFICES ASSUME LookupInv, widths # Natural PROVE ColumnsFillPane
    BY DEF ColumnsFillPane
  <2>1. widths = fitColumnWidths(innerWidth) /\ innerWidth \in Nat
    BY DEF LookupInv, ListInv, ListTypeOK
  <2> QED
    BY <2>1, FitFills DEF ColumnsFillPane
<1> QED
  BY <1>1, LookupCorrect, PTL

LEMMA InvFollows == LookupInv => TableFollowsWindow
<1> SUFFICES ASSUME LookupInv, window # NoWindow, sizedFor = window
             PROVE  tall = tableHeight(Len(visible), bodyBudget(window, open))
  BY DEF TableFollowsWindow, TableFillsPane
<1>1. height = bodyBudget(window, open) /\ height > 0
  BY BudgetIsHeight DEF LookupInv, SizesAgree, BarInv, BarTypeOK
<1> QED
  BY <1>1 DEF LookupInv, ListInv

\* After any sequence of resizes, loads, new lists, edges of the bar and ways
\* back, a table whose list was last told a size of the present window has the
\* lines that window leaves it.
THEOREM TableFollows == Spec => []TableFollowsWindow
BY InvFollows, LookupCorrect, PTL

\* An edge of the bar that the list is not told is none.
LEMMA SyncTells ==
  ASSUME LookupInv, window # NoWindow, open' \in BOOLEAN, syncBodyShrink, sizedFor' # window'
  PROVE  sizedFor # window /\ UNCHANGED <<window, open, leftHistory>>
<1>1. ~Shrunk /\ UNCHANGED <<window, leftHistory, sizedFor>>
  BY DEF syncBodyShrink, TellFrame
<1>2. RenderHeight(open') = RenderHeight(open)
  BY <1>1 DEF Shrunk, LookupInv, SizesAgree
<1>3. open \in BOOLEAN /\ visibleWindow \in Nat
  BY BarSizes DEF LookupInv, BarInv, BarTypeOK
<1>4. RenderHeight(TRUE) # RenderHeight(FALSE)
  BY <1>3 DEF RenderHeight
<1>5. open' = open
  BY <1>2, <1>3, <1>4
<1> QED
  BY <1>1, <1>5

\* A table of the wrong height was last told a size of another window; only Esc
\* brings it back, and each later resize, edge of the bar or new list ends it.
THEOREM OldLinesByEsc == Spec => OnlyEscBringsOldLines
<1> DEFINE Excused ==
             /\ sizedFor' # window'
             /\ FrameEsc \/ (sizedFor # window /\ UNCHANGED <<window, open, leftHistory>>)
<1>1. LookupInv /\ LookupInv' /\ TableFollowsWindow' /\ [Next]_vars
        => [~TableFillsPane' => Excused]_vars
  <2> SUFFICES ASSUME LookupInv, LookupInv', sizedFor' # window', window' # NoWindow, Next
               PROVE  Excused
    BY DEF TableFollowsWindow, TableFillsPane
  <2>1. ~WindowSize /\ ~SwitchRun /\ ~DrillAgain
    BY DEF WindowSize, TellFrame, SwitchRun, DrillAgain
  <2>2. \A s : ~CommitList(s)
    BY DEF CommitList
  <2>3. CASE ToList \/ Draw
    BY <2>3 DEF ToList, Draw, fvars, bvars
  <2>4. CASE FrameEsc
    BY <2>4
  <2>5. CASE ToBar \/ OpenBar \/ Commit
    <3>1. syncBodyShrink
      BY <2>2, <2>5 DEF ToBar, OpenBar, Commit
    <3>2. window # NoWindow
      BY <3>1 DEF syncBodyShrink
    <3>3. open' \in BOOLEAN
      BY DEF LookupInv, BarInv, BarTypeOK
    <3> QED
      BY <3>1, <3>2, <3>3, SyncTells
  <2> QED
    BY <2>1, <2>3, <2>4, <2>5 DEF Next
<1>2. LookupInv' => TableFollowsWindow'
  BY InvFollows, PTL
<1> QED
  BY <1>1, <1>2, InvFollows, LookupStep, LookupCorrect, PTL DEF Spec, OnlyEscBringsOldLines

\* No keystroke takes the highlight from an entry the user moved to while the
\* text still finds it, however long the lists and however often it is there.
THEOREM PickKept == Spec => PickSurvives
<1> DEFINE Kept ==
      \A i \in DOMAIN suggestions' :
        /\ open /\ open' /\ selected > 1 /\ text' # text
        /\ suggestions'[i] = suggestions[selected]
        => suggestions'[selected'] = suggestions[selected]
<1>1. LookupInv /\ [Next]_vars => [Kept]_bvars
  <2> SUFFICES ASSUME LookupInv, [Next]_vars, NEW i \in DOMAIN suggestions',
                      open, open', selected > 1, text' # text,
                      suggestions'[i] = suggestions[selected]
               PROVE  suggestions'[selected'] = suggestions[selected]
    OBVIOUS
  <2>1. PICK t \in Typed \cup {Blank} : Input(t)
    <3>1. ~Open /\ ~BarUp /\ ~BarDown /\ ~Esc /\ ~Enter /\ ~(UNCHANGED bvars)
      BY DEF Open, BarUp, BarDown, Esc, Enter, Close, bvars
    <3>2. \A r : ~SetCorpus(r)
      BY DEF SetCorpus
    <3>3. ~(UNCHANGED vars)
      BY DEF vars
    <3> QED
      BY <3>1, <3>2, <3>3 DEF Next, ToList, ToBar, OpenBar, Commit, FrameEsc, DrillAgain,
                               SwitchRun, WindowSize, Draw
  <2>2. /\ suggestions' \in Seq(Suggestion)
        /\ \/ Highlighted(suggestions') = {}
           \/ selected' \in Highlighted(suggestions')
    BY <2>1, RecomputeHighlights DEF Input, LookupInv
  <2>3. selected \in DOMAIN suggestions
    <3>1. suggestions # <<>>
      BY DEF LookupInv, BarInv
    <3> QED
      BY <3>1 DEF LookupInv, BarInv, HighlightOnScreen
  <2>4. i \in Highlighted(suggestions')
    BY <2>3 DEF Highlighted
  <2>5. selected' \in Highlighted(suggestions')
    BY <2>2, <2>4
  <2> QED
    BY <2>3, <2>5 DEF Highlighted
<1> QED
  BY <1>1, LookupCorrect, PTL DEF Spec, PickSurvives

-----------------------------------------------------------------------------
(* The list is what the models of the screens take it to be.               *)

\* The row the table's cursor is on, of rows v.
RowAt(v, c) == IF c \in DOMAIN v THEN v[c] ELSE 0

LEMMA RowAtIs ==
  ASSUME NEW v, NEW c
  PROVE  RowAt(v, c) \in Range(v) \cup {0}
BY DEF RowAt, Range

Hidden(t) == {i \in AnyRow : ~Matches(i, t)}

LEMMA HiddenIs ==
  ASSUME NEW s \in ListSource, NEW t \in Text
  PROVE  /\ Matching(s, t) = Answered(s) \ Hidden(t)
         /\ Hidden(t) \in SUBSET AnyRow
BY RowsAreRows DEF Matching, Hidden

LEMMA NothingHidden == Hidden(NoText) = {}
BY DEF Hidden, Matches

\* The definitions of Panes, seen through the instance.
LEMMA SameAnswers ==
  /\ Screens!AnyRow = AnyRow /\ Screens!Nothing = Nothing
  /\ \A s : Screens!Answered(s) = Answered(s)
<1>1. \A r, k : Screens!Rows(r, k) = Rows(r, k)
  BY DEF Screens!Rows, Rows
<1>2. Screens!AnyRow = AnyRow
  BY DEF Screens!AnyRow, AnyRow, Screens!Rows, Rows
<1>3. Screens!Nothing = Nothing
  BY DEF Screens!Nothing, Nothing
<1> QED
  BY <1>1, <1>2, <1>3 DEF Screens!Answered, Answered

\* Panes with the same parts are one.
LEMMA SamePane ==
  ASSUME NEW p \in Pane, NEW q \in Pane,
         p.run = q.run, p.kind = q.kind, p.loaded = q.loaded, p.src = q.src,
         p.visible = q.visible, p.cursor = q.cursor, p.filter = q.filter,
         p.hides = q.hides, p.jump = q.jump, p.goal = q.goal
  PROVE  p = q
BY DEF Pane

PaneFields ==
  /\ AsPane \in Pane
  /\ AsPane.run = own.run /\ AsPane.kind = own.kind
  /\ AsPane.loaded = loaded /\ AsPane.src = src
  /\ AsPane.visible = Range(visible) /\ AsPane.cursor = RowAt(visible, cursor)
  /\ AsPane.filter = filterOn /\ AsPane.hides = Hidden(filterIn)
  /\ AsPane.jump = pending /\ AsPane.goal = goal

LEMMA AsPaneFields == ListTypeOK => PaneFields
<1> SUFFICES ASSUME ListTypeOK PROVE PaneFields
  OBVIOUS
<1>1. AnyRow \subseteq Nat
  BY RowsAreRows DEF ListSource
<1>2. Range(visible) \in SUBSET Nat /\ Hidden(filterIn) \in SUBSET Nat
  <2>1. \A c \in DOMAIN visible : visible[c] \in AnyRow
    BY DEF ListTypeOK
  <2> QED
    BY <1>1, <2>1 DEF Range, Hidden
<1>3. RowAt(visible, cursor) \in Nat
  BY <1>2, RowAtIs
<1>4. own.run \in Run /\ own.kind \in MaybeKind /\ src \in Source
  BY DEF ListTypeOK, MaybeKind, MaybeRun, Source, Nothing
<1>5. AsPane = [run |-> own.run, kind |-> own.kind, loaded |-> loaded, src |-> src,
                visible |-> Range(visible), cursor |-> RowAt(visible, cursor),
                filter |-> filterOn, hides |-> Hidden(filterIn),
                jump |-> pending, goal |-> goal]
  BY DEF AsPane, PaneOf, This, RowAt, Hidden
<1>6. pending \in Nat /\ goal \in Nat /\ loaded \in BOOLEAN /\ filterOn \in BOOLEAN
  BY <1>1 DEF ListTypeOK
<1>7. AsPane \in Pane
  BY <1>2, <1>3, <1>4, <1>5, <1>6 DEF Pane
<1> QED
  BY <1>5, <1>7 DEF PaneFields

\* The panes before and after a step.
LEMMA PaneIs ==
  ASSUME ListInv, ListInv'
  PROVE  PaneFields /\ PaneFields'
<1>1. PaneFields
  BY AsPaneFields DEF ListInv
<1>2. ListTypeOK' => PaneFields'
  BY AsPaneFields, PTL
<1> QED
  BY <1>1, <1>2 DEF ListInv

LEMMA NotOverview ==
  ASSUME ListInv
  PROVE  ~Screens!IsOverview(AsPane)
<1>1. own.kind \in Kind
  BY DEF ListInv, ListTypeOK
<1>2. AsPane.kind = own.kind
  BY AsPaneFields DEF ListInv, PaneFields
<1> QED
  BY <1>1, <1>2, PanesAssumption DEF Screens!IsOverview

FreshPane(p, r, k, j) ==
  /\ p \in Pane
  /\ p.run = r /\ p.kind = k /\ p.loaded = FALSE /\ p.src = Nothing
  /\ p.visible = {} /\ p.cursor = 0 /\ p.filter = FALSE /\ p.hides = {}
  /\ p.jump = j /\ p.goal = j

LEMMA NewPane ==
  ASSUME NEW r \in Run, NEW k \in Kind, NEW j \in AnyRow \cup {0},
         NEW p, p = Screens!NewResourceList(r, k, j)
  PROVE  FreshPane(p, r, k, j)
<1> DEFINE o == Screens!NewOverview(r)
<1>0. j \in Nat
  BY RowsAreRows DEF ListSource
<1>1. /\ o \in Pane
      /\ o.run = r /\ o.loaded = FALSE /\ o.src = Nothing
      /\ o.visible = {} /\ o.cursor = 0 /\ o.filter = FALSE /\ o.hides = {}
  BY SameAnswers DEF Screens!NewOverview, Nothing, Pane, Source, MaybeRun, MaybeKind
<1>2. p = [o EXCEPT !.kind = k, !.jump = j, !.goal = j]
  BY DEF Screens!NewResourceList
<1>3. k \in MaybeKind
  BY DEF MaybeKind
<1> HIDE DEF o
<1> QED
  BY <1>0, <1>1, <1>2, <1>3 DEF Pane, FreshPane

LEMMA NewListIs ==
  ASSUME NEW r \in Run, NEW k \in Kind, NEW j \in AnyRow \cup {0}, NEW h,
         ListInv, ListInv', NewList(r, k, j, h)
  PROVE  AsPane' = Screens!NewResourceList(r, k, j)
<1>1. Range(visible') = {} /\ RowAt(visible', cursor') = 0
  BY DEF NewList, Range, RowAt
<1>2. Hidden(filterIn') = {}
  BY NothingHidden DEF NewList
<1>3. /\ own'.run = r /\ own'.kind = k /\ loaded' = FALSE /\ src' = Nothing
      /\ filterOn' = FALSE /\ pending' = j /\ goal' = j
  BY DEF NewList
<1> DEFINE p == Screens!NewResourceList(r, k, j)
<1>4. p = Screens!NewResourceList(r, k, j)
  OBVIOUS
<1> HIDE DEF p
<1>5. FreshPane(p, r, k, j)
  BY <1>4, NewPane
<1>6. /\ AsPane' \in Pane
      /\ AsPane'.run = p.run /\ AsPane'.kind = p.kind /\ AsPane'.loaded = p.loaded
      /\ AsPane'.src = p.src /\ AsPane'.visible = p.visible /\ AsPane'.cursor = p.cursor
      /\ AsPane'.filter = p.filter /\ AsPane'.hides = p.hides
      /\ AsPane'.jump = p.jump /\ AsPane'.goal = p.goal
  BY <1>1, <1>2, <1>3, <1>5, PaneIs DEF PaneFields, FreshPane
<1>7. AsPane' = p
  BY <1>5, <1>6, SamePane DEF FreshPane
<1> QED
  BY <1>4, <1>7

\* What Take and Press make of the pane alone.
Taken == \E s \in Screens!Answers : AsPane' \in Screens!TakeRows(AsPane, s)
Pressed == AsPane' \in Screens!LeftKeys(AsPane)

LEMMA TakeLoadIs ==
  ASSUME ListInv, ListInv', NEW s \in ListSource, TakeLoad(s)
  PROVE  Taken
<1> DEFINE c == RowAt(visible', cursor')
           q == [AsPane EXCEPT !.loaded = TRUE, !.src = s, !.visible = Answered(s),
                               !.jump = 0, !.cursor = c]
<1>1. visible' \in Seq(AnyRow) /\ Len(visible') \in Nat /\ Range(visible') = Answered(s)
  BY RowsStep, AllMatch DEF TakeLoad, ListInv, ListTypeOK, Text
<1>2. c \in Answered(s) \cup {0}
  BY <1>1, RowAtIs
<1>3. pending \in Answered(s) => c = pending
  <2> DEFINE found == {i \in DOMAIN visible' : visible'[i] = pending}
  <2>1. pending \in Answered(s) => found # {}
    BY <1>1 DEF Range
  <2>2. found # {} => cursor' \in found
    BY DEF TakeLoad
  <2> QED
    BY <2>1, <2>2 DEF RowAt
<1>4. PaneFields /\ PaneFields'
  BY PaneIs
<1>5. s \in Source /\ Answered(s) \in SUBSET Nat /\ c \in Nat
  BY <1>2, RowsAreRows DEF ListSource, Source, MaybeRun, MaybeKind, Nothing
<1>6. /\ q \in Pane /\ q.run = AsPane.run /\ q.kind = AsPane.kind /\ q.loaded = TRUE
      /\ q.src = s /\ q.visible = Answered(s) /\ q.cursor = c /\ q.filter = AsPane.filter
      /\ q.hides = AsPane.hides /\ q.jump = 0 /\ q.goal = AsPane.goal
  <2> HIDE DEF c
  <2> QED
    BY <1>4, <1>5 DEF PaneFields, Pane
<1>7. /\ UNCHANGED <<own, filterOn, filterIn, goal>>
      /\ loaded' = TRUE /\ src' = s /\ pending' = 0
  BY DEF TakeLoad
<1>8. AsPane' = q
  <2>1. /\ AsPane' \in Pane
        /\ AsPane'.run = AsPane.run /\ AsPane'.kind = AsPane.kind
        /\ AsPane'.loaded = TRUE /\ AsPane'.src = s
        /\ AsPane'.visible = Answered(s) /\ AsPane'.cursor = c
        /\ AsPane'.filter = AsPane.filter /\ AsPane'.hides = AsPane.hides
        /\ AsPane'.jump = 0 /\ AsPane'.goal = AsPane.goal
    BY <1>1, <1>4, <1>7 DEF PaneFields
  <2> HIDE DEF c, q
  <2> QED
    BY <1>6, <2>1, SamePane
<1> HIDE DEF c
<1>9. AsPane' \in Screens!TakeRows(AsPane, s)
  <2>1. AsPane.jump = pending
    BY <1>4 DEF PaneFields
  <2>2. c \in IF AsPane.jump \in Answered(s) THEN {AsPane.jump} ELSE Answered(s) \cup {0}
    BY <1>2, <1>3, <2>1
  <2> QED
    BY <1>8, <2>2, NotOverview, SameAnswers DEF Screens!TakeRows
<1>10. s \in Screens!Answers
  BY SameAnswers DEF Screens!Answers, ListSource
<1> QED
  BY <1>9, <1>10 DEF Taken

\* Reapply leaves the rows that match t, and some row or none selected.
LEMMA ReapplyIs ==
  ASSUME ListInv, ListInv', NEW t \in Text, Reapply(t),
         NEW o \in Pane, o.run = own.run, o.kind = own.kind, o.loaded = loaded,
         o.src = src, o.filter = filterOn', o.hides = Hidden(filterIn'),
         o.jump = pending, o.goal = goal'
  PROVE  AsPane' \in Screens!Filtered(o, Answered(src) \ Hidden(t))
<1>1. src \in ListSource /\ sort' \in Order
  BY DEF ListInv, ListTypeOK, ListSource
<1> DEFINE v == Answered(src) \ Hidden(t)
           c == RowAt(visible', cursor')
           q == [o EXCEPT !.visible = v, !.cursor = c]
<1>2. Range(visible') = v
  BY <1>1, RowsStep, HiddenIs DEF Reapply, ListInv
<1>3. c \in v \cup {0} /\ v \in SUBSET Nat /\ c \in Nat
  BY <1>1, <1>2, RowAtIs, RowsAreRows
<1> HIDE DEF c, v
<1>4. /\ q \in Pane /\ q.run = o.run /\ q.kind = o.kind /\ q.loaded = o.loaded
      /\ q.src = o.src /\ q.visible = v /\ q.cursor = c /\ q.filter = o.filter
      /\ q.hides = o.hides /\ q.jump = o.jump /\ q.goal = o.goal
  BY <1>3 DEF Pane
<1>5. UNCHANGED <<own, src, loaded, pending>>
  BY DEF Reapply
<1>6. PaneFields'
  BY PaneIs
<1>7. AsPane' = q
  <2>1. /\ AsPane' \in Pane
        /\ AsPane'.run = o.run /\ AsPane'.kind = o.kind /\ AsPane'.loaded = o.loaded
        /\ AsPane'.src = o.src /\ AsPane'.visible = v /\ AsPane'.cursor = c
        /\ AsPane'.filter = o.filter /\ AsPane'.hides = o.hides
        /\ AsPane'.jump = o.jump /\ AsPane'.goal = o.goal
    BY <1>2, <1>5, <1>6 DEF PaneFields, c
  <2> HIDE DEF q
  <2> QED
    BY <1>4, <2>1, SamePane
<1>8. AsPane' \in Screens!Filtered(o, v)
  BY <1>3, <1>7 DEF Screens!Filtered
<1> QED
  BY <1>8 DEF v

LEMMA FilterTextIs ==
  ASSUME ListInv, ListInv', NEW t \in Text, FilterText(t)
  PROVE  Pressed
<1> DEFINE o == [AsPane EXCEPT !.hides = Hidden(t)]
<1>1. Reapply(t) /\ filterOn /\ filterOn' = filterOn /\ filterIn' = t /\ goal' = goal
  BY DEF FilterText
<1>2. PaneFields
  BY PaneIs
<1>3. Hidden(t) \in SUBSET AnyRow /\ Hidden(t) \in SUBSET Nat
  BY RowsAreRows DEF Hidden, ListSource
<1>4. /\ o \in Pane /\ o.run = own.run /\ o.kind = own.kind /\ o.loaded = loaded
      /\ o.src = src /\ o.filter = filterOn /\ o.hides = Hidden(t)
      /\ o.jump = pending /\ o.goal = goal
  BY <1>2, <1>3 DEF PaneFields, Pane
<1>5. AsPane' \in Screens!Filtered(o, Answered(src) \ Hidden(t))
  <2> HIDE DEF o
  <2> QED
    BY <1>1, <1>4, ReapplyIs
<1>6. AsPane' \in Screens!FilterTyped(AsPane)
  BY <1>2, <1>3, <1>5, SameAnswers DEF Screens!FilterTyped, PaneFields
<1> QED
  BY <1>1, <1>2, <1>6, NotOverview DEF Pressed, Screens!LeftKeys, PaneFields

LEMMA FilterEscIs ==
  ASSUME ListInv, ListInv', FilterEsc
  PROVE  Pressed
<1> DEFINE o == [AsPane EXCEPT !.filter = FALSE]
<1>1. /\ Reapply(NoText) /\ filterOn /\ filterOn' = FALSE /\ filterIn' = filterIn
      /\ goal' = goal /\ NoText \in Text
  BY DEF FilterEsc, Text
<1>2. PaneFields
  BY PaneIs
<1>3. /\ o \in Pane /\ o.run = own.run /\ o.kind = own.kind /\ o.loaded = loaded
      /\ o.src = src /\ o.filter = FALSE /\ o.hides = Hidden(filterIn)
      /\ o.jump = pending /\ o.goal = goal
  BY <1>2 DEF PaneFields, Pane
<1>4. AsPane' \in Screens!Filtered(o, Answered(src) \ Hidden(NoText))
  <2> HIDE DEF o
  <2> QED
    BY <1>1, <1>3, ReapplyIs
<1>5. Answered(src) \ Hidden(NoText) = Answered(src)
  BY NothingHidden
<1>6. AsPane' \in Screens!FilterClosed(AsPane)
  BY <1>2, <1>4, <1>5, SameAnswers DEF Screens!FilterClosed, PaneFields
<1> QED
  BY <1>1, <1>2, <1>6, NotOverview DEF Pressed, Screens!LeftKeys, PaneFields

LEMMA SortKeyIs ==
  ASSUME ListInv, ListInv', SortKey
  PROVE  Pressed
<1> DEFINE o == [AsPane EXCEPT !.goal = 0]
<1>1. /\ Reapply(filterIn) /\ ~filterOn /\ filterOn' = filterOn /\ filterIn' = filterIn
      /\ goal' = 0 /\ filterIn \in Text
  BY DEF SortKey, ListInv, ListTypeOK
<1>2. PaneFields
  BY PaneIs
<1>3. /\ o \in Pane /\ o.run = own.run /\ o.kind = own.kind /\ o.loaded = loaded
      /\ o.src = src /\ o.filter = filterOn /\ o.hides = Hidden(filterIn)
      /\ o.jump = pending /\ o.goal = 0
  BY <1>2 DEF PaneFields, Pane
<1>4. AsPane' \in Screens!Filtered(o, Answered(src) \ Hidden(filterIn))
  <2> HIDE DEF o
  <2> QED
    BY <1>1, <1>3, ReapplyIs
<1>5. AsPane' \in Screens!Sorted(AsPane)
  BY <1>2, <1>4, SameAnswers DEF Screens!Sorted, PaneFields
<1> QED
  BY <1>1, <1>2, <1>5, NotOverview DEF Pressed, Screens!LeftKeys, PaneFields

LEMMA FilterEnterIs ==
  ASSUME ListInv, ListInv', FilterEnter
  PROVE  Pressed
<1> DEFINE q == [AsPane EXCEPT !.filter = FALSE]
<1>1. PaneFields /\ PaneFields'
  BY PaneIs
<1>2. /\ q \in Pane /\ q.run = own.run /\ q.kind = own.kind /\ q.loaded = loaded
      /\ q.src = src /\ q.visible = Range(visible) /\ q.cursor = RowAt(visible, cursor)
      /\ q.filter = FALSE /\ q.hides = Hidden(filterIn) /\ q.jump = pending /\ q.goal = goal
  BY <1>1 DEF PaneFields, Pane
<1>3. AsPane' = q
  <2> HIDE DEF q
  <2>1. /\ AsPane' \in Pane
        /\ AsPane'.run = q.run /\ AsPane'.kind = q.kind /\ AsPane'.loaded = q.loaded
        /\ AsPane'.src = q.src /\ AsPane'.visible = q.visible /\ AsPane'.cursor = q.cursor
        /\ AsPane'.filter = q.filter /\ AsPane'.hides = q.hides
        /\ AsPane'.jump = q.jump /\ AsPane'.goal = q.goal
    BY <1>1, <1>2 DEF FilterEnter, PaneFields
  <2> QED
    BY <1>2, <2>1, SamePane
<1>4. filterOn
  BY DEF FilterEnter
<1> QED
  BY <1>1, <1>3, <1>4, NotOverview
     DEF Pressed, Screens!LeftKeys, Screens!FilterKept, PaneFields

LEMMA SlashIs ==
  ASSUME ListInv, ListInv', Slash
  PROVE  Pressed
<1> DEFINE q == [AsPane EXCEPT !.filter = TRUE, !.hides = {}, !.goal = 0]
<1>1. PaneFields /\ PaneFields'
  BY PaneIs
<1>2. /\ q \in Pane /\ q.run = own.run /\ q.kind = own.kind /\ q.loaded = loaded
      /\ q.src = src /\ q.visible = Range(visible) /\ q.cursor = RowAt(visible, cursor)
      /\ q.filter = TRUE /\ q.hides = {} /\ q.jump = pending /\ q.goal = 0
  BY <1>1 DEF PaneFields, Pane
<1>3. AsPane' = q
  <2> HIDE DEF q
  <2>1. /\ AsPane' \in Pane
        /\ AsPane'.run = q.run /\ AsPane'.kind = q.kind /\ AsPane'.loaded = q.loaded
        /\ AsPane'.src = q.src /\ AsPane'.visible = q.visible /\ AsPane'.cursor = q.cursor
        /\ AsPane'.filter = q.filter /\ AsPane'.hides = q.hides
        /\ AsPane'.jump = q.jump /\ AsPane'.goal = q.goal
    BY <1>1, <1>2, NothingHidden DEF Slash, PaneFields
  <2> QED
    BY <1>2, <2>1, SamePane
<1>4. ~filterOn
  BY DEF Slash
<1> QED
  BY <1>1, <1>3, <1>4, NotOverview
     DEF Pressed, Screens!LeftKeys, Screens!FilterOpened, PaneFields

\* A step nothing of which is to be seen.
LEMMA Unseen ==
  ASSUME ListInv, ListInv', RowAt(visible', cursor') = RowAt(visible, cursor),
         UNCHANGED <<own, src, loaded, visible, filterOn, filterIn, pending, goal>>
  PROVE  AsPane' = AsPane
<1>1. PaneFields /\ PaneFields'
  BY PaneIs
<1> QED
  BY <1>1, SamePane DEF PaneFields

\* The cursor is put on a row, or there is none and nothing is to be seen.
LEMMA CursorIs ==
  ASSUME ListInv, ListInv', ~filterOn, NEW c \in Int, CursorTo(c)
  PROVE  Pressed \/ AsPane' = AsPane
<1>1. visible \in Seq(AnyRow) /\ Len(visible) \in Nat /\ DOMAIN visible = 1 .. Len(visible)
  BY DEF ListInv, ListTypeOK
<1>2. CASE cursor' \in DOMAIN visible
  <2> DEFINE i == visible[cursor']
             q == [AsPane EXCEPT !.cursor = i, !.goal = 0]
  <2>1. i \in Range(visible) /\ i \in Nat
    <3>1. AnyRow \subseteq Nat
      BY RowsAreRows DEF ListSource
    <3>2. i \in AnyRow
      BY <1>1, <1>2
    <3> QED
      BY <1>2, <3>1, <3>2 DEF Range
  <2>2. PaneFields /\ PaneFields'
    BY PaneIs
  <2>3. RowAt(visible', cursor') = i /\ goal' = 0
        /\ UNCHANGED <<own, src, loaded, visible, filterOn, filterIn, pending>>
    BY <1>2 DEF CursorTo, RowAt
  <2> HIDE DEF i
  <2>4. /\ q \in Pane /\ q.run = own.run /\ q.kind = own.kind /\ q.loaded = loaded
        /\ q.src = src /\ q.visible = Range(visible) /\ q.cursor = i
        /\ q.filter = filterOn /\ q.hides = Hidden(filterIn) /\ q.jump = pending /\ q.goal = 0
    BY <2>1, <2>2 DEF PaneFields, Pane
  <2>5. AsPane' = q
    <3> HIDE DEF q
    <3>1. /\ AsPane' \in Pane
          /\ AsPane'.run = own.run /\ AsPane'.kind = own.kind
          /\ AsPane'.loaded = loaded /\ AsPane'.src = src
          /\ AsPane'.visible = Range(visible) /\ AsPane'.cursor = i
          /\ AsPane'.filter = filterOn /\ AsPane'.hides = Hidden(filterIn)
          /\ AsPane'.jump = pending /\ AsPane'.goal = 0
      BY <2>2, <2>3 DEF PaneFields
    <3> QED
      BY <2>4, <3>1, SamePane
  <2>6. AsPane' \in Screens!Moved(AsPane)
    BY <2>1, <2>2, <2>5 DEF Screens!Moved, PaneFields
  <2> QED
    BY <2>2, <2>6, NotOverview DEF Pressed, Screens!LeftKeys, PaneFields
<1>3. CASE cursor' \notin DOMAIN visible
  <2>1. DOMAIN visible = {}
    BY <1>1, <1>3, SetCursorIs DEF CursorTo
  <2>2. RowAt(visible', cursor') = RowAt(visible, cursor)
    BY <2>1 DEF RowAt, CursorTo
  <2> QED
    BY <1>3, <2>2, Unseen DEF CursorTo
<1> QED
  BY <1>2, <1>3

LEMMA ListKeyIs ==
  ASSUME ListInv, ListInv', ListKey
  PROVE  Pressed \/ AsPane' = AsPane
<1>1. CASE CursorKey
  BY <1>1, CursorKeyMoves, CursorIs DEF ListInv
<1> QED
  BY <1>1, FilterTextIs, FilterEscIs, FilterEnterIs, SlashIs, SortKeyIs DEF ListKey, CursorKey

\* SetRows moves a cursor that is beyond the last row, which none ever is.
LEMMA DrawIs ==
  ASSUME ListInv, ListInv', NEW w, SetInnerWidth(w)
  PROVE  AsPane' = AsPane
<1>1. visible \in Seq(AnyRow) /\ Len(visible) \in Nat /\ cursor \in Nat
      /\ DOMAIN visible = 1 .. Len(visible) /\ visible' = visible
  BY DEF ListInv, ListTypeOK, SetInnerWidth
<1>2. RowAt(visible', cursor') = RowAt(visible, cursor)
  <2>1. CASE visible = <<>>
    BY <1>1, <2>1 DEF RowAt
  <2>2. CASE cursor <= Len(visible)
    BY <1>1, <2>2 DEF SetInnerWidth, AfterSetRows, RowAt
  <2> QED
    BY <2>1, <2>2 DEF ListInv
<1> QED
  BY <1>2, Unseen DEF SetInnerWidth

LEMMA ListFrameIs ==
  ASSUME ListInv, ListInv', UNCHANGED lvars
  PROVE  AsPane' = AsPane
BY Unseen DEF lvars, RowAt

LEMMA ResizeIs ==
  ASSUME ListInv, ListInv', NEW h, Resize(h)
  PROVE  AsPane' = AsPane
BY Unseen DEF Resize, RowAt

LEMMA SyncIs ==
  ASSUME ListInv, ListInv', syncBodyShrink
  PROVE  AsPane' = AsPane
BY ListFrameIs, ResizeIs DEF syncBodyShrink, TellFrame

\* The lists under the one on the screen, as the screens' models have them.
LEMMA UnderIs ==
  ASSUME HistoryOK
  PROVE  /\ leftHistory \in Seq([list : ListState, sizedFor : Window \cup {NoWindow}])
         /\ Len(leftHistory) \in Nat /\ DOMAIN leftHistory = 1 .. Len(leftHistory)
         /\ Len(Under) = Len(leftHistory) /\ DOMAIN Under = 1 .. Len(leftHistory)
         /\ \A i \in 1 .. Len(leftHistory) : Under[i] = PaneOf(leftHistory[i].list)
         /\ \A S : (\A i \in 1 .. Len(leftHistory) : Under[i] \in S) => Under \in Seq(S)
<1>1. leftHistory \in Seq([list : ListState, sizedFor : Window \cup {NoWindow}])
  BY DEF HistoryOK
<1>2. DOMAIN leftHistory = 1 .. Len(leftHistory) /\ Len(leftHistory) \in Nat
  BY <1>1
<1>3. Under = [i \in 1 .. Len(leftHistory) |-> PaneOf(leftHistory[i].list)]
  BY <1>2 DEF Under
<1> QED
  BY <1>1, <1>2, <1>3

LEMMA UnderFrame ==
  ASSUME UNCHANGED leftHistory
  PROVE  Under' = Under
BY DEF Under

LEMMA NoneUnder ==
  ASSUME leftHistory = <<>>
  PROVE  Under = <<>>
BY DEF Under

\* A size is nothing that the screens see.
LEMMA ToldIs == PaneOf(Told) = AsPane
<1>1. /\ Told.own = own /\ Told.src = src /\ Told.loaded = loaded
      /\ Told.visible = visible /\ Told.cursor = cursor /\ Told.filterOn = filterOn
      /\ Told.filterIn = filterIn /\ Told.pending = pending /\ Told.goal = goal
  BY DEF Told, This
<1>2. /\ This.own = own /\ This.src = src /\ This.loaded = loaded
      /\ This.visible = visible /\ This.cursor = cursor /\ This.filterOn = filterOn
      /\ This.filterIn = filterIn /\ This.pending = pending /\ This.goal = goal
  BY DEF This
<1> QED
  BY <1>1, <1>2 DEF PaneOf, AsPane

\* A list that is left is the last of those under the new one.
LEMMA LeaveIs ==
  ASSUME HistoryOK, HistoryOK', Leave
  PROVE  Under' = Append(Under, AsPane) \/ (Under = <<>> /\ Under' = Under)
<1> DEFINE e == [list |-> Told, sizedFor |-> IF Shrunk THEN window ELSE sizedFor]
           n == Len(leftHistory)
<1>1. CASE leftHistory = <<>> /\ UNCHANGED leftHistory
  BY <1>1, NoneUnder, UnderFrame
<1>2. CASE leftHistory' = Append(leftHistory, e)
  <2>1. e.list = Told
    OBVIOUS
  <2> HIDE DEF e
  <2>2. /\ Len(leftHistory') = n + 1 /\ leftHistory'[n + 1] = e
        /\ \A i \in 1 .. n : leftHistory'[i] = leftHistory[i]
    BY <1>2, UnderIs
  <2>3. n \in Nat /\ Len(Under) = n
    BY UnderIs
  <2>4. Under' = [i \in 1 .. n + 1 |-> PaneOf(leftHistory'[i].list)]
    BY <2>2 DEF Under, HistoryOK
  <2>5. \A i \in 1 .. n : Under'[i] = Under[i]
    BY <2>2, <2>3, <2>4, UnderIs
  <2>6. Under'[n + 1] = AsPane
    BY <2>1, <2>2, <2>3, <2>4, ToldIs
  <2> DEFINE S == {Under[i] : i \in 1 .. n} \cup {AsPane}
             a == Append(Under, AsPane)
  <2>7. Under \in Seq(S) /\ AsPane \in S
    BY UnderIs
  <2> HIDE DEF S
  <2>8. /\ a \in Seq(S) /\ Len(a) = n + 1 /\ a[n + 1] = AsPane
        /\ \A i \in 1 .. n : a[i] = Under[i]
    BY <2>3, <2>7, AppendProperties
  <2> HIDE DEF a, n
  <2>9. \A i \in 1 .. n + 1 : Under'[i] = a[i]
    BY <2>3, <2>5, <2>6, <2>8
  <2>10. a = [i \in 1 .. n + 1 |-> a[i]] /\ Under' = [i \in 1 .. n + 1 |-> Under'[i]]
    BY <2>4, <2>8
  <2> QED
    BY <2>9, <2>10 DEF a
<1> QED
  BY <1>1, <1>2 DEF Leave

\* The list that Esc brings back is the last of those under the one before.
LEMMA FrameEscIs ==
  ASSUME HistoryOK, FrameEsc
  PROVE  Screens!Back
<1> DEFINE n == Len(leftHistory)
           l == leftHistory[n].list
<1>1. n \in Nat \ {0} /\ Len(Under) = n /\ Under # <<>>
  <2>1. n # 0
    BY UnderIs DEF FrameEsc
  <2> QED
    BY <2>1, UnderIs
<1>2. Show(l) /\ leftHistory' = SubSeq(leftHistory, 1, n - 1)
  BY DEF FrameEsc
<1>3. AsPane' = Under[Len(Under)]
  <2>1. Under[n] = PaneOf(l)
    BY <1>1, UnderIs
  <2> HIDE DEF l
  <2>2. /\ This'.own = l.own /\ This'.src = l.src /\ This'.loaded = l.loaded
        /\ This'.visible = l.visible /\ This'.cursor = l.cursor
        /\ This'.filterOn = l.filterOn /\ This'.filterIn = l.filterIn
        /\ This'.pending = l.pending /\ This'.goal = l.goal
    BY <1>2 DEF Show, This
  <2>3. AsPane' = PaneOf(l)
    BY <2>2 DEF AsPane, PaneOf
  <2> QED
    BY <1>1, <2>1, <2>3
<1> HIDE DEF l
<1>4. Under' = SubSeq(Under, 1, Len(Under) - 1)
  <2>1. /\ DOMAIN leftHistory' = 1 .. n - 1
        /\ \A i \in 1 .. n - 1 : leftHistory'[i] = leftHistory[i]
    BY <1>1, <1>2, UnderIs
  <2>2. Under' = [i \in 1 .. n - 1 |-> PaneOf(leftHistory'[i].list)]
    BY <2>1 DEF Under
  <2> DEFINE u == [i \in 1 .. n - 1 |-> Under[i]]
  <2>3. SubSeq(Under, 1, n - 1) = u
    <3> DEFINE S == {Under[i] : i \in 1 .. n}
    <3>1. Under \in Seq(S)
      BY UnderIs
    <3> HIDE DEF S
    <3> QED
      BY <1>1, <3>1
  <2>4. Under' = u
    BY <1>1, <2>1, <2>2, UnderIs
  <2> QED
    BY <1>1, <2>3, <2>4
<1> QED
  BY <1>1, <1>3, <1>4 DEF Screens!Back

\* A resource list with its patterns, orders, cursors, columns and windows is
\* the abstract pane of the screens' models, for any rows and any scores: what
\* is proved of the screens with the one holds with the other.
THEOREM ListIsPane == Spec => ImplementsPane
<1>1. Init => Screens!PaneInit
  <2> SUFFICES ASSUME Init PROVE Screens!PaneInit
    OBVIOUS
  <2>1. PICK r \in Run, k \in Kind : own = [run |-> r, kind |-> k]
    BY DEF Init, ListInit
  <2>2. Range(visible) = {} /\ RowAt(visible, cursor) = 0
    BY DEF Init, ListInit, Range, RowAt
  <2>3. /\ Hidden(filterIn) = {} /\ loaded = FALSE /\ src = Nothing /\ filterOn = FALSE
        /\ pending = 0 /\ goal = 0
    BY NothingHidden DEF Init, ListInit
  <2>4. PaneFields
    BY LookupInit, AsPaneFields DEF LookupInv, ListInv
  <2>5. AsPane = Screens!NewResourceList(r, k, 0)
    <3> DEFINE p == Screens!NewResourceList(r, k, 0)
    <3>0. p = Screens!NewResourceList(r, k, 0) /\ 0 \in AnyRow \cup {0}
      OBVIOUS
    <3> HIDE DEF p
    <3>1. FreshPane(p, r, k, 0)
      BY <3>0, NewPane
    <3>2. /\ AsPane \in Pane
          /\ AsPane.run = p.run /\ AsPane.kind = p.kind /\ AsPane.loaded = p.loaded
          /\ AsPane.src = p.src /\ AsPane.visible = p.visible /\ AsPane.cursor = p.cursor
          /\ AsPane.filter = p.filter /\ AsPane.hides = p.hides
          /\ AsPane.jump = p.jump /\ AsPane.goal = p.goal
      BY <2>1, <2>2, <2>3, <2>4, <3>1 DEF PaneFields, FreshPane
    <3>3. AsPane = p
      BY <3>1, <3>2, SamePane DEF FreshPane
    <3> QED
      BY <3>3 DEF p
  <2>6. Under = <<>>
    BY NoneUnder DEF Init
  <2> QED
    BY <2>5, <2>6 DEF Screens!PaneInit
<1>2. LookupInv /\ [Next]_vars => [Screens!PaneNext]_<<AsPane, Under>>
  <2> DEFINE Same == AsPane' = AsPane /\ Under' = Under
  <2> SUFFICES ASSUME LookupInv, [Next]_vars PROVE Screens!PaneNext \/ Same
    OBVIOUS
  <2>0. /\ ListInv /\ ListInv' /\ HistoryOK /\ HistoryOK'
        /\ own.run \in Run /\ AsPane.run = own.run
    <3>1. LookupInv'
      BY LookupStep
    <3> QED
      BY <3>1, AsPaneFields DEF LookupInv, ListInv, ListTypeOK, PaneFields
  <2> USE DEF LookupInv
  <2> USE <2>0
  <2>1. CASE ToList
    <3>0. Under' = Under
      BY <2>1, UnderFrame DEF ToList, fvars
    <3>1. CASE ListKey
      BY <3>0, <3>1, ListKeyIs DEF Pressed, Screens!Press, Screens!PaneNext
    <3>2. CASE ListMessage
      <4>1. ASSUME NEW s \in ListSource, TakeLoad(s) PROVE Screens!Take
        BY <3>0, <4>1, TakeLoadIs DEF Taken, Screens!Take
      <4>2. CASE OtherMessage
        <5>1. Pressed
          BY <4>2, FilterTextIs DEF OtherMessage, ListInv, ListTypeOK
        <5> QED
          BY <3>0, <5>1 DEF Pressed, Screens!Press, Screens!PaneNext
      <4> QED
        BY <3>2, <4>1, <4>2 DEF ListMessage, ListSource, Screens!PaneNext
    <3> QED
      BY <2>1, <3>1, <3>2 DEF ToList
  <2>2. ASSUME syncBodyShrink PROVE Same
    BY <2>2, SyncIs, UnderFrame DEF syncBodyShrink, TellFrame
  <2>3. CASE ToBar \/ OpenBar
    BY <2>2, <2>3 DEF ToBar, OpenBar
  <2>4. CASE Commit
    <3>1. CASE \E s \in commit : CommitList(s)
      <4>1. open' = FALSE /\ open
        BY <2>4 DEF Commit, Enter, Close
      <4>2. Screens!NextList
        BY <2>0, <3>1, <4>1, CommitListStep, NewListIs, SameAnswers DEF Screens!NextList
      <4>3. Under' = Append(Under, AsPane) \/ (Under = <<>> /\ Under' = Under)
        BY <2>0, <3>1, LeaveIs DEF CommitList
      <4> QED
        BY <4>2, <4>3 DEF Screens!Swap, Screens!Drill, Screens!PaneNext
    <3> QED
      BY <2>2, <2>4, <3>1 DEF Commit
  <2>5. CASE SwitchRun
    <3>1. \E r \in Run, k \in Kind : AsPane' = Screens!NewResourceList(r, k, 0)
      BY <2>5, NewListIs DEF SwitchRun
    <3>2. Under' = <<>>
      BY <2>5 DEF SwitchRun, Under
    <3> QED
      BY <3>1, <3>2 DEF Screens!Switch, Screens!PaneNext
  <2>6. CASE DrillAgain
    <3>1. Screens!NextList
      BY <2>0, <2>6, NewListIs, SameAnswers DEF DrillAgain, Screens!NextList
    <3>2. Under = <<>> /\ Under' = Under
      BY <2>6, NoneUnder, UnderFrame DEF DrillAgain
    <3> QED
      BY <3>1, <3>2 DEF Screens!Drill, Screens!PaneNext
  <2>7. CASE FrameEsc
    BY <2>0, <2>7, FrameEscIs DEF Screens!PaneNext
  <2>8. CASE WindowSize
    BY <2>8, ResizeIs, UnderFrame DEF WindowSize, TellFrame
  <2>9. CASE Draw
    BY <2>9, DrawIs, UnderFrame DEF Draw, fvars
  <2>10. CASE UNCHANGED vars
    <3>1. UNCHANGED lvars /\ UNCHANGED leftHistory
      BY <2>10 DEF vars, lvars
    <3> QED
      BY <3>1, ListFrameIs, UnderFrame
  <2> QED
    BY <2>1, <2>3, <2>4, <2>5, <2>6, <2>7, <2>8, <2>9, <2>10 DEF Next
<1> QED
  BY <1>1, <1>2, LookupCorrect, PTL DEF Spec, ImplementsPane, Screens!PaneSpec
=============================================================================
