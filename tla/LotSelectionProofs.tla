------------------------- MODULE LotSelectionProofs -------------------------
(***************************************************************************)
(* No selection sells what is not there; it meets the target as far as     *)
(* the lots allow and takes the largest losses first: for any number of    *)
(* lots, symbols, quantities, prices and targets.                          *)
(***************************************************************************)
EXTENDS LotSelection, FiniteSetTheorems, TLAPS

---------------------------------------------------------------------------
(* Quotients.                                                              *)

\* Of a product that exceeds the dividend the divisor's factor is more than the
\* quotient, so that rounding up does not pass it.
LEMMA RoundedQuotient ==
  ASSUME NEW x \in Int, NEW u \in Nat \ {0}
  PROVE  /\ HalfEven(x, u) \in Int
         /\ \A q \in Int : x < q * u => HalfEven(x, u) <= q
<1> DEFINE d == x \div u
           m == x % u
<1>1. d \in Int /\ m \in 0..(u - 1) /\ x = u * d + m
  OBVIOUS
<1>2. HalfEven(x, u) = d \/ HalfEven(x, u) = d + 1
  BY DEF HalfEven
<1> HIDE DEF d, m
<1>3. ASSUME NEW q \in Int, x < q * u PROVE d < q
  <2>1. u * d < u * q
    BY <1>1, <1>3
  <2> SUFFICES ASSUME q <= d PROVE FALSE
    BY <1>1
  <2>2. d - q \in Nat
    BY <1>1
  <2>3. u * (d - q) >= 0
    BY <2>2
  <2>4. u * (d - q) = u * d - u * q
    BY <1>1
  <2> QED BY <1>1, <2>1, <2>3, <2>4
<1> QED
  BY <1>1, <1>2, <1>3

\* A positive product with a positive factor has two.
LEMMA PositiveFactor ==
  ASSUME NEW a \in Int, NEW b \in Nat \ {0}, a * b > 0
  PROVE  a \in Nat \ {0}
<1> SUFFICES ASSUME a <= 0 PROVE FALSE
  OBVIOUS
<1>1. (-a) * b >= 0
  OBVIOUS
<1>2. (-a) * b = -(a * b)
  OBVIOUS
<1> QED BY <1>1, <1>2

\* Nothing is further from its rounded multiple than half a unit.
LEMMA RoundedIsClose ==
  ASSUME NEW x \in Int, NEW u \in Nat \ {0}
  PROVE  /\ HalfEven(x, u) \in Int
         /\ 2 * (x - u * HalfEven(x, u)) <= u
         /\ 2 * (u * HalfEven(x, u) - x) <= u
<1> DEFINE d == x \div u
           m == x % u
<1>1. d \in Int /\ m \in 0..(u - 1) /\ x = u * d + m
  OBVIOUS
<1>2. HalfEven(x, u) = IF 2 * m < u \/ (2 * m = u /\ d % 2 = 0) THEN d ELSE d + 1
  BY DEF HalfEven
<1> HIDE DEF d, m
<1>3. u * (d + 1) = u * d + u
  BY <1>1
<1>4. u * d \in Int
  BY <1>1
<1> QED
  BY <1>1, <1>2, <1>3, <1>4

\* Half a unit about a multiple there is nothing but the multiple, and rounding
\* keeps the order to a multiple.
LEMMA RoundedToMultiple ==
  ASSUME NEW x \in Int, NEW u \in Nat \ {0}, NEW k \in Int
  PROVE  /\ 2 * (x - u * k) < u /\ 2 * (u * k - x) < u => HalfEven(x, u) = k
         /\ x <= u * k => HalfEven(x, u) <= k
         /\ u * k <= x => k <= HalfEven(x, u)
<1> DEFINE h == HalfEven(x, u)
<1>1. h \in Int /\ 2 * (x - u * h) <= u /\ 2 * (u * h - x) <= u
  BY RoundedIsClose
<1> HIDE DEF h
<1>2. h >= k + 1 => u * h >= u * k + u
  <2>1. u * (h - (k + 1)) = u * h - (u * k + u)
    BY <1>1
  <2>2. h >= k + 1 => u * (h - (k + 1)) >= 0
    <3> SUFFICES ASSUME h >= k + 1 PROVE u * (h - (k + 1)) >= 0
      OBVIOUS
    <3>1. h - (k + 1) \in Nat
      BY <1>1
    <3> QED BY <3>1
  <2>3. u * h \in Int /\ u * k \in Int
    BY <1>1
  <2> QED BY <2>1, <2>2, <2>3
<1>3. k >= h + 1 => u * k >= u * h + u
  <2>1. u * (k - (h + 1)) = u * k - (u * h + u)
    BY <1>1
  <2>2. k >= h + 1 => u * (k - (h + 1)) >= 0
    <3> SUFFICES ASSUME k >= h + 1 PROVE u * (k - (h + 1)) >= 0
      OBVIOUS
    <3>1. k - (h + 1) \in Nat
      BY <1>1
    <3> QED BY <3>1
  <2>3. u * h \in Int /\ u * k \in Int
    BY <1>1
  <2> QED BY <2>1, <2>2, <2>3
<1>4. u * h \in Int /\ u * k \in Int
  BY <1>1
<1>5. 2 * (x - u * k) < u /\ 2 * (u * k - x) < u => h = k
  BY <1>1, <1>2, <1>3, <1>4
<1>6. x <= u * k => h <= k
  BY <1>1, <1>2, <1>4
<1>7. u * k <= x => k <= h
  BY <1>1, <1>3, <1>4
<1> QED BY <1>5, <1>6, <1>7 DEF h

---------------------------------------------------------------------------
(* Sums.                                                                   *)

\* A set of subsets of a finite set has a smallest member.
LEMMA SmallestSet ==
  ASSUME NEW S, IsFiniteSet(S), NEW B \in SUBSET (SUBSET S), B # {}
  PROVE  \E T \in B : \A U \in B : U \subseteq T => U = T
<1>1. IsWellFoundedOn(StrictSubsetOrdering(S), SUBSET S)
  BY FS_StrictSubsetOrderingWellFounded, FS_FiniteSubsetsOfFinite
<1>2. \E T \in B : \A U \in B : ~(<<U, T>> \in StrictSubsetOrdering(S))
  BY <1>1, WFMin
<1>3. \A U, T \in B : U \subseteq T /\ U # T => <<U, T>> \in StrictSubsetOrdering(S)
  BY DEF StrictSubsetOrdering
<1> QED
  BY <1>2, <1>3

\* What a sum takes next, and the function that Sum(f, S) is a value of.
Pick(T) == CHOOSE y \in T : TRUE
Adds(g, f, S) ==
  g = [T \in SUBSET S |-> IF T = {} THEN 0 ELSE f[Pick(T)] + g[T \ {Pick(T)}]]

\* Two such functions agree where both are defined: a smallest set on which
\* they differ would not be the empty one.
LEMMA AddsAgree ==
  ASSUME NEW S, IsFiniteSet(S), NEW R, NEW T \in SUBSET (S \cap R),
         NEW f, NEW g, NEW h, Adds(g, f, S), Adds(h, f, R)
  PROVE  g[T] = h[T]
<1> DEFINE B == {U \in SUBSET (S \cap R) : g[U] # h[U]}
<1> SUFFICES ASSUME g[T] # h[T] PROVE FALSE
  OBVIOUS
<1>0. B # {} /\ B \in SUBSET (SUBSET S)
  <2>1. T \in B /\ B \in SUBSET (SUBSET S)
    OBVIOUS
  <2> HIDE DEF B
  <2> QED BY <2>1
<1>1. PICK U \in B : \A V \in B : V \subseteq U => V = U
  <2> HIDE DEF B
  <2> QED BY <1>0, SmallestSet
<1>2. U \in SUBSET S /\ U \in SUBSET R /\ g[U] # h[U]
  BY <1>1
<1>3. U # {}
  BY <1>2 DEF Adds
<1>4. Pick(U) \in U
  BY <1>3 DEF Pick
<1>5. g[U \ {Pick(U)}] = h[U \ {Pick(U)}]
  BY <1>1, <1>4
<1>6. g[U] = f[Pick(U)] + g[U \ {Pick(U)}] /\ h[U] = f[Pick(U)] + h[U \ {Pick(U)}]
  BY <1>2, <1>3 DEF Adds
<1> QED
  BY <1>2, <1>5, <1>6

\* There is one for every finite set, made of those of its proper subsets.
LEMMA AddsExists ==
  ASSUME NEW S, IsFiniteSet(S), NEW f
  PROVE  \E g : Adds(g, f, S)
<1> DEFINE B == {T \in SUBSET S : ~ \E g : Adds(g, f, T)}
<1> SUFFICES ASSUME ~ \E g : Adds(g, f, S) PROVE FALSE
  OBVIOUS
<1>0. B # {} /\ B \in SUBSET (SUBSET S)
  <2>1. S \in SUBSET S
    OBVIOUS
  <2>2. S \in B /\ B \in SUBSET (SUBSET S)
    BY <2>1
  <2> HIDE DEF B
  <2> QED BY <2>2
<1>1. PICK T \in B : \A U \in B : U \subseteq T => U = T
  <2> HIDE DEF B
  <2> QED BY <1>0, SmallestSet
<1> DEFINE G(U) == CHOOSE g : Adds(g, f, U)
           h == [U \in SUBSET T |->
                   IF U = {} THEN 0 ELSE f[Pick(U)] + G(U \ {Pick(U)})[U \ {Pick(U)}]]
<1>2. \A U \in SUBSET T : U # T => Adds(G(U), f, U)
  BY <1>1
<1>3. \A U \in SUBSET T : U # {} => Pick(U) \in U
  BY DEF Pick
<1>4. \A U \in SUBSET T : IsFiniteSet(U)
  BY FS_Subset
<1> HIDE DEF G
<1>5. ASSUME NEW U \in SUBSET T, U # T PROVE h[U] = G(U)[U]
  <2>1. CASE U = {}
    BY <1>2, <1>5, <2>1 DEF Adds
  <2>2. CASE U # {}
    <3> DEFINE V == U \ {Pick(U)}
    <3>1. V \in SUBSET T /\ V \in SUBSET (U \cap V) /\ V # T /\ IsFiniteSet(U)
      BY <1>3, <1>4, <2>2
    <3>2. G(U)[V] = G(V)[V]
      BY <1>2, <1>5, <3>1, AddsAgree
    <3>3. G(U)[U] = f[Pick(U)] + G(U)[V]
      BY <1>2, <1>5, <2>2 DEF Adds
    <3>4. h[U] = f[Pick(U)] + G(V)[V]
      BY <2>2
    <3> QED BY <3>2, <3>3, <3>4
  <2> QED BY <2>1, <2>2
<1>6. ASSUME NEW U \in SUBSET T, U # {}
      PROVE  h[U] = f[Pick(U)] + h[U \ {Pick(U)}]
  <2>1. h[U] = f[Pick(U)] + G(U \ {Pick(U)})[U \ {Pick(U)}]
    BY <1>6
  <2>2. U \ {Pick(U)} \in SUBSET T /\ U \ {Pick(U)} # T
    BY <1>3, <1>6
  <2> QED BY <1>5, <2>1, <2>2
<1>7. h[{}] = 0 /\ h = [U \in SUBSET T |-> h[U]]
  OBVIOUS
<1> HIDE DEF h
<1>8. h = [U \in SUBSET T |-> IF U = {} THEN 0 ELSE f[Pick(U)] + h[U \ {Pick(U)}]]
  BY <1>6, <1>7
<1> QED
  BY <1>1, <1>8 DEF Adds

\* Sum is the recursive function it says it is.
LEMMA SumAdds ==
  ASSUME NEW S, IsFiniteSet(S), NEW f
  PROVE  \E g : Adds(g, f, S) /\ Sum(f, S) = g[S]
<1> DEFINE g == CHOOSE h : Adds(h, f, S)
<1>1. Adds(g, f, S)
  BY AddsExists
<1>2. Sum(f, S) = g[S]
  BY DEF Sum, Adds, Pick
<1> QED BY <1>1, <1>2

\* A sum of integers is one.
LEMMA SumType ==
  ASSUME NEW S, IsFiniteSet(S), NEW f \in [S -> Int]
  PROVE  Sum(f, S) \in Int
<1>1. PICK g : Adds(g, f, S) /\ Sum(f, S) = g[S]
  BY SumAdds
<1> DEFINE B == {T \in SUBSET S : g[T] \notin Int}
<1> SUFFICES ASSUME g[S] \notin Int PROVE FALSE
  BY <1>1
<1>0. B # {} /\ B \in SUBSET (SUBSET S)
  <2>1. S \in SUBSET S
    OBVIOUS
  <2>2. S \in B /\ B \in SUBSET (SUBSET S)
    BY <2>1
  <2> HIDE DEF B
  <2> QED BY <2>2
<1>2. PICK T \in B : \A U \in B : U \subseteq T => U = T
  <2> HIDE DEF B
  <2> QED BY <1>0, SmallestSet
<1>3. T # {} /\ T \in SUBSET S
  BY <1>1, <1>2 DEF Adds
<1>4. Pick(T) \in T
  BY <1>3 DEF Pick
<1>5. g[T \ {Pick(T)}] \in Int
  BY <1>2, <1>4
<1>6. g[T] = f[Pick(T)] + g[T \ {Pick(T)}]
  BY <1>1, <1>3 DEF Adds
<1>7. f[Pick(T)] \in Int
  BY <1>3, <1>4
<1> QED BY <1>2, <1>5, <1>6, <1>7

\* A sum of zeros is zero.
LEMMA ZeroSum ==
  ASSUME NEW S, IsFiniteSet(S)
  PROVE  Sum([x \in S |-> 0], S) = 0
<1> DEFINE z == [x \in S |-> 0]
<1>1. PICK g : Adds(g, z, S) /\ Sum(z, S) = g[S]
  BY SumAdds
<1> DEFINE B == {T \in SUBSET S : g[T] # 0}
<1> SUFFICES ASSUME S \in B PROVE FALSE
  <2>1. S \in SUBSET S
    OBVIOUS
  <2> QED BY <1>1, <2>1
<1>2. PICK T \in B : \A U \in B : U \subseteq T => U = T
  <2>1. B # {} /\ B \in SUBSET (SUBSET S)
    OBVIOUS
  <2> HIDE DEF B
  <2> QED BY <2>1, SmallestSet
<1>3. T # {} /\ T \in SUBSET S
  BY <1>1, <1>2 DEF Adds
<1>4. Pick(T) \in T
  BY <1>3 DEF Pick
<1>5. g[T] = z[Pick(T)] + g[T \ {Pick(T)}]
  BY <1>1, <1>3 DEF Adds
<1>6. g[T \ {Pick(T)}] = 0 /\ z[Pick(T)] = 0
  BY <1>2, <1>3, <1>4
<1> QED BY <1>2, <1>5, <1>6

\* Where each term of one sum exceeds the other's by half of d at most, the sums
\* differ by as much for each term.
LEMMA SumBound ==
  ASSUME NEW S, IsFiniteSet(S), NEW f \in [S -> Int], NEW h \in [S -> Int],
         NEW d \in Int, \A x \in S : 2 * (f[x] - h[x]) <= d
  PROVE  2 * (Sum(f, S) - Sum(h, S)) <= d * Cardinality(S)
<1>1. PICK g : Adds(g, f, S) /\ Sum(f, S) = g[S]
  BY SumAdds
<1>2. PICK k : Adds(k, h, S) /\ Sum(h, S) = k[S]
  BY SumAdds
<1> DEFINE B == {T \in SUBSET S :
                   ~ /\ g[T] \in Int /\ k[T] \in Int
                     /\ 2 * (g[T] - k[T]) <= d * Cardinality(T)}
<1> SUFFICES ASSUME S \in B PROVE FALSE
  <2>1. S \in SUBSET S
    OBVIOUS
  <2> QED BY <1>1, <1>2, <2>1
<1>3. PICK T \in B : \A U \in B : U \subseteq T => U = T
  <2>1. B # {} /\ B \in SUBSET (SUBSET S)
    OBVIOUS
  <2> HIDE DEF B
  <2> QED BY <2>1, SmallestSet
<1>4. T \in SUBSET S /\ IsFiniteSet(T)
  BY FS_Subset
<1>5. T # {}
  <2>1. g[{}] = 0 /\ k[{}] = 0 /\ Cardinality({}) = 0
    BY <1>1, <1>2, FS_EmptySet DEF Adds
  <2>2. d * 0 = 0
    OBVIOUS
  <2>3. {} \notin B
    BY <2>1, <2>2
  <2> HIDE DEF B
  <2> QED BY <1>3, <2>3
<1> DEFINE x == Pick(T)
           U == T \ {x}
<1>6. x \in T
  BY <1>5 DEF Pick
<1>7. /\ IsFiniteSet(U) /\ Cardinality(U) = Cardinality(T) - 1
      /\ Cardinality(T) \in Nat
  BY <1>4, <1>6, FS_RemoveElement, FS_CardinalityType
<1>8. U \in SUBSET S /\ U \notin B
  BY <1>3, <1>4, <1>6
<1>9. g[U] \in Int /\ k[U] \in Int /\ 2 * (g[U] - k[U]) <= d * Cardinality(U)
  BY <1>8
<1>10. g[T] = f[x] + g[U] /\ k[T] = h[x] + k[U]
  BY <1>1, <1>2, <1>4, <1>5 DEF Adds
<1>11. f[x] \in Int /\ h[x] \in Int /\ 2 * (f[x] - h[x]) <= d
  BY <1>4, <1>6
<1>12. d * Cardinality(T) = d * Cardinality(U) + d
  <2> DEFINE c == Cardinality(U)
  <2>1. c \in Int /\ Cardinality(T) = c + 1
    BY <1>7
  <2> HIDE DEF c
  <2>2. d * (c + 1) = d * c + d
    BY <2>1
  <2> QED BY <2>1, <2>2 DEF c
<1>13. d * Cardinality(U) \in Int
  BY <1>7
<1> HIDE DEF U, x
<1>14. g[T] \in Int /\ k[T] \in Int /\ 2 * (g[T] - k[T]) <= d * Cardinality(T)
  BY <1>9, <1>10, <1>11, <1>12, <1>13
<1> QED BY <1>3, <1>14

\* A sum changes by what one of its terms changes.
LEMMA SumStep ==
  ASSUME NEW S, IsFiniteSet(S), NEW f \in [S -> Int], NEW h \in [S -> Int],
         NEW l \in S, \A x \in S \ {l} : h[x] = f[x]
  PROVE  Sum(h, S) = Sum(f, S) + (h[l] - f[l])
<1>1. PICK g : Adds(g, f, S) /\ Sum(f, S) = g[S]
  BY SumAdds
<1>2. PICK k : Adds(k, h, S) /\ Sum(h, S) = k[S]
  BY SumAdds
<1> DEFINE e(T) == IF l \in T THEN h[l] - f[l] ELSE 0
           B == {T \in SUBSET S : ~(g[T] \in Int /\ k[T] = g[T] + e(T))}
<1> SUFFICES ASSUME S \in B PROVE FALSE
  <2>1. S \in SUBSET S
    OBVIOUS
  <2>2. l \in S
    OBVIOUS
  <2> QED BY <1>1, <1>2, <2>1, <2>2
<1>3. PICK T \in B : \A U \in B : U \subseteq T => U = T
  <2>1. B # {} /\ B \in SUBSET (SUBSET S)
    OBVIOUS
  <2> HIDE DEF B
  <2> QED BY <2>1, SmallestSet
<1>5. T # {} /\ T \in SUBSET S
  BY <1>1, <1>2, <1>3 DEF Adds
<1> DEFINE x == Pick(T)
           U == T \ {x}
<1>6. x \in T
  BY <1>5 DEF Pick
<1>8. U \in SUBSET S /\ U \notin B
  BY <1>3, <1>5, <1>6
<1>9. g[U] \in Int /\ k[U] = g[U] + e(U)
  BY <1>8
<1>10. g[T] = f[x] + g[U] /\ k[T] = h[x] + k[U]
  BY <1>1, <1>2, <1>5 DEF Adds
<1>11. f[x] \in Int /\ h[x] \in Int /\ f[l] \in Int /\ h[l] \in Int
  BY <1>5, <1>6
<1>12. h[x] - f[x] + e(U) = e(T)
  <2>1. CASE x = l
    BY <1>6, <1>11, <2>1
  <2>2. CASE x # l
    BY <1>5, <1>6, <1>11, <2>2
  <2> QED BY <2>1, <2>2
<1>13. e(U) \in Int /\ e(T) \in Int
  BY <1>11
<1> HIDE DEF U, x, e
<1>14. g[T] \in Int /\ k[T] = g[T] + e(T)
  BY <1>9, <1>10, <1>11, <1>12, <1>13
<1> QED BY <1>3, <1>14

---------------------------------------------------------------------------
(* Nothing is sold that is not there.                                      *)

Numbers ==
  /\ lot \in [Lots -> [qty: Int, basis: Int, acquired: Int]]
  /\ price \in [Symbols -> Int]
  /\ mirror \in [Symbols -> Int]
  /\ todo \subseteq Approved
  /\ rank \in Int /\ left \in Int
  /\ picked \in [Lots -> [qty: Int, usable: Int, rank: Int]]

IInv == Numbers /\ SelectedIsOwned

LEMMA InitInv == Init => IInv
<1> SUFFICES ASSUME Init PROVE IInv
  OBVIOUS
<1>1. /\ lot \in [Lots -> [qty: Int, basis: Int, acquired: Int]]
      /\ price \in [Symbols -> Int] /\ mirror \in [Symbols -> Int]
  <2>1. Quantities \subseteq Int /\ Bases \subseteq Int /\ Dates \subseteq Int /\ Prices \subseteq Int
    BY SelectionAssumption
  <2>2. lot \in [Lots -> [qty: Quantities, basis: Bases, acquired: Dates]]
    BY DEF Init
  <2>3. \A l \in Lots : lot[l] \in [qty: Int, basis: Int, acquired: Int]
    <3>1. \A r \in [qty: Quantities, basis: Bases, acquired: Dates] :
            r \in [qty: Int, basis: Int, acquired: Int]
      BY <2>1
    <3> QED BY <2>2, <3>1
  <2>4. lot \in [Lots -> [qty: Int, basis: Int, acquired: Int]]
    BY <2>2, <2>3
  <2>5. price \in [Symbols -> Int] /\ mirror \in [Symbols -> Int]
    <3>1. price \in [Symbols -> Prices] /\ mirror \in [Symbols -> Quantities \cup {0}]
      BY DEF Init
    <3>2. \A x \in Prices : x \in Int
      BY <2>1
    <3>3. \A x \in Quantities \cup {0} : x \in Int
      BY <2>1
    <3>4. price \in [Symbols -> Int]
      BY <3>1, <3>2
    <3>5. mirror \in [Symbols -> Int]
      BY <3>1, <3>3
    <3> QED BY <3>4, <3>5
  <2> QED BY <2>4, <2>5
<1>2. target \in Int
  BY SelectionAssumption DEF Init, HarvestingTarget
<1>3. picked \in [Lots -> [qty: Int, usable: Int, rank: Int]] /\ SelectedIsOwned
  BY DEF Init, Nothing, SelectedIsOwned
<1> QED
  BY <1>1, <1>2, <1>3 DEF IInv, Numbers, Init

\* An approved lot loses something on each share.
LEMMA LossIsPositive ==
  ASSUME Numbers, NEW l \in Approved
  PROVE  Loss(l) \in Nat \ {0}
<1>1. /\ lot[l].qty \in Nat \ {0} /\ Loss(l) \in Int /\ Loss(l) * lot[l].qty > 0
  BY SelectionAssumption DEF Approved, Total, Loss, Numbers
<1> QED BY <1>1, PositiveFactor

\* What is taken of a lot is within the lot and the mirrored position.
LEMMA TakenIsOwned ==
  ASSUME Numbers, NEW l \in Approved, Capacity(l) > 0
  PROVE  /\ Taken(l).qty \in Int /\ Taken(l).usable \in Int
         /\ Taken(l).qty <= lot[l].qty /\ Taken(l).qty <= mirror[SymbolOf[l]]
<1> DEFINE c == Capacity(l)
           u == Loss(l)
           n == Needed(l)
<1>1. /\ l \in Lots /\ SymbolOf[l] \in Symbols
      /\ lot[l].qty \in Int /\ lot[l].basis \in Int /\ price[SymbolOf[l]] \in Int
      /\ mirror[SymbolOf[l]] \in Int /\ left \in Int
  BY SelectionAssumption DEF Approved, Numbers
<1>2. c \in Nat \ {0} /\ c <= lot[l].qty /\ c <= mirror[SymbolOf[l]]
  BY <1>1 DEF Capacity, Lower
<1>3. u \in Nat \ {0}
  BY LossIsPositive
<1>4. n \in Int /\ \A q \in Int : left < q * u => n <= q
  BY <1>1, <1>3, RoundedQuotient DEF Needed
<1>5. \A x \in Int : Quantize(x) \in Int
  BY RoundedQuotient, SelectionAssumption DEF Quantize
<1> HIDE DEF c, u, n
<1>6. ASSUME NEW q \in Int
      PROVE  Exact(l, q).qty \in Int /\ Exact(l, q).usable \in Int /\ Exact(l, q).qty <= q
  <2>1. q * u \in Int
    BY <1>3
  <2> QED
    BY <1>1, <1>4, <2>1 DEF Exact, u, n
<1>7. Rounded(l).qty \in Int /\ Rounded(l).usable \in Int /\ Rounded(l).qty <= c
  <2> DEFINE q == Lower(c, n)
             v == Quantize(q * u)
  <2>1. q \in Int /\ q <= c
    BY <1>2, <1>4 DEF Lower
  <2> HIDE DEF q
  <2>2. v \in Int
    BY <1>3, <1>5, <2>1
  <2> HIDE DEF v
  <2>3. Rounded(l) = IF allow \/ v <= left THEN [qty |-> q, usable |-> v] ELSE Exact(l, q)
    BY DEF Rounded, c, u, n, q, v
  <2> QED
    BY <1>2, <1>6, <2>1, <2>2, <2>3
<1>8. Taken(l) = Rounded(l)
  BY <1>7 DEF Taken, Capped, c
<1> QED
  BY <1>1, <1>2, <1>7, <1>8

LEMMA NextStep == IInv /\ [Next]_vars => IInv'
<1> SUFFICES ASSUME IInv, [Next]_vars PROVE IInv'
  OBVIOUS
<1>1. CASE Stop
  BY <1>1 DEF Stop, IInv, Numbers, SelectedIsOwned, inputs, Approved, Total, Loss
<1>2. ASSUME NEW l \in Lots, Skip(l) PROVE IInv'
  BY <1>2 DEF Skip, Meets, IInv, Numbers, SelectedIsOwned, inputs, Approved, Total, Loss
<1>3. ASSUME NEW l \in Lots, Take(l) PROVE IInv'
  <2> DEFINE t == Taken(l)
  <2>1. /\ UNCHANGED inputs /\ rank' = rank + 1 /\ todo' = todo \ {l} /\ left' = left - t.usable
        /\ picked' = [picked EXCEPT ![l] = [qty |-> t.qty, usable |-> t.usable, rank |-> rank + 1]]
        /\ l \in Approved /\ Numbers /\ SelectedIsOwned
    BY <1>3 DEF Take, Meets, First, IInv, Numbers
  <2>2. Capacity(l) > 0
    <3>1. Capacity(l) \in Int /\ Loss(l) \in Nat \ {0}
      BY <2>1, LossIsPositive, SelectionAssumption DEF Capacity, Lower, Numbers, Approved
    <3>2. Needed(l) \in Int
      BY <2>1, <3>1, RoundedQuotient DEF Needed, Numbers
    <3> QED
      BY <1>3, <3>1, <3>2 DEF Take, Lower
  <2>3. /\ t.qty \in Int /\ t.usable \in Int
        /\ t.qty <= lot[l].qty /\ t.qty <= mirror[SymbolOf[l]]
    BY <2>1, <2>2, TakenIsOwned
  <2> HIDE DEF t
  <2>4. Numbers'
    BY <2>1, <2>3 DEF Numbers, inputs, Approved, Total, Loss
  <2>5. SelectedIsOwned'
    BY <2>1, <2>3 DEF Numbers, SelectedIsOwned, inputs
  <2> QED
    BY <2>4, <2>5 DEF IInv
<1>4. CASE UNCHANGED vars
  BY <1>4 DEF vars, IInv, Numbers, SelectedIsOwned, inputs, Approved, Total, Loss
<1> QED
  BY <1>1, <1>2, <1>3, <1>4 DEF Next, Ranked

\* Whatever the ranking, the rounding of the needed quantity and the setting,
\* a selected quantity is covered by its lot and by the position that the
\* ranking saw (select_against_target).
THEOREM SelectionIsOwned == Spec => []SelectedIsOwned
<1>1. IInv => SelectedIsOwned
  BY DEF IInv
<1> QED
  BY <1>1, InitInv, NextStep, PTL DEF Spec

---------------------------------------------------------------------------
(* How far the target is met, and in which order.                          *)

\* What is left is a multiple of the unit that amounts are quantized to.
Quantized == target \in Nat /\ \E k \in Nat : left = Precision * k

\* Nothing is taken of a lot before it is met.
Untouched == \A l \in Lots : l \in todo \/ l \notin Approved => picked[l] = Nothing

\* Lots are met in the order of their losses and, while something is left of
\* the target, taken as far as they can be.
Ordered ==
  /\ rank \in Nat
  /\ \A l \in Lots :
       picked[l].qty > 0 =>
         /\ 0 < picked[l].rank /\ picked[l].rank <= rank
         /\ \A m \in todo : Total(m) <= Total(l)
  /\ left > 0 =>
       \A l \in Approved \ todo : Capacity(l) > 0 => picked[l].qty = Capacity(l)

\* The loss taken of a lot is the loss it has, but for half a unit.
Close ==
  /\ \A l \in Lots : 2 * (picked[l].usable - Reach[l]) <= Precision
  /\ left > 0 =>
       \A l \in Lots \ todo : 2 * (Reach[l] - picked[l].usable) <= Precision

Given == (\A l \in Lots : lot[l].basis \in Bases) /\ price \in [Symbols -> Prices]

Met == Sum(Usable, Lots) = target - left

Progress ==
  Given /\ Quantized /\ Untouched /\ Ordered /\ Close /\ Met /\ LargestFirst

\* Lots have numbers.
LEMMA LotTypes ==
  ASSUME Numbers, NEW l \in Lots
  PROVE  /\ SymbolOf[l] \in Symbols
         /\ lot[l].qty \in Int /\ lot[l].basis \in Int /\ price[SymbolOf[l]] \in Int
         /\ mirror[SymbolOf[l]] \in Int
         /\ Loss(l) \in Int /\ Total(l) \in Int /\ Capacity(l) \in Int
         /\ Capacity(l) <= lot[l].qty
         /\ picked[l].qty \in Int /\ picked[l].usable \in Int /\ picked[l].rank \in Int
<1>1. /\ SymbolOf[l] \in Symbols
      /\ lot[l].qty \in Int /\ lot[l].basis \in Int /\ price[SymbolOf[l]] \in Int
      /\ mirror[SymbolOf[l]] \in Int
  BY SelectionAssumption DEF Numbers
<1>2. Loss(l) \in Int
  BY <1>1 DEF Loss
<1>3. Total(l) \in Int
  BY <1>1, <1>2 DEF Total
<1>4. Capacity(l) \in Int /\ Capacity(l) <= lot[l].qty
  BY <1>1 DEF Capacity, Lower
<1>5. picked[l].qty \in Int /\ picked[l].usable \in Int /\ picked[l].rank \in Int
  BY DEF Numbers
<1> QED BY <1>1, <1>2, <1>3, <1>4, <1>5

\* The terms of the two sums are integers.
LEMMA SumTypes ==
  ASSUME Numbers
  PROVE  /\ IsFiniteSet(Lots)
         /\ Usable \in [Lots -> Int] /\ Reach \in [Lots -> Int]
<1>1. \A l \in Lots : picked[l].usable \in Int /\ Reach[l] \in Int
  <2> SUFFICES ASSUME NEW l \in Lots PROVE picked[l].usable \in Int /\ Reach[l] \in Int
    OBVIOUS
  <2>1. Capacity(l) * Loss(l) \in Int /\ picked[l].usable \in Int
    BY LotTypes
  <2> QED BY <2>1 DEF Reach
<1> QED BY <1>1, SelectionAssumption DEF Usable, Reach

\* The first lot has the largest loss.
LEMMA FirstIsLargest ==
  ASSUME Numbers, NEW l, First(l), NEW m \in todo
  PROVE  Total(m) <= Total(l)
<1>1. l \in Lots /\ m \in Lots
  BY DEF First, Numbers, Approved
<1>2. Total(l) \in Int /\ Total(m) \in Int
  BY <1>1, LotTypes
<1>3. CASE m = l
  BY <1>2, <1>3
<1>4. CASE m # l
  <2> DEFINE a == RankKey(l)
             b == RankKey(m)
  <2>1. PICK i \in DOMAIN a : a[i] < b[i] /\ \A j \in 1..(i - 1) : a[j] = b[j]
    BY <1>4 DEF First, Outranks, Below
  <2>2. DOMAIN a = 1..5 /\ a[1] = -Total(l) /\ b[1] = -Total(m)
    BY DEF RankKey
  <2> HIDE DEF a, b
  <2>3. a[1] < b[1] \/ a[1] = b[1]
    <3>1. CASE i = 1
      BY <2>1, <3>1
    <3>2. CASE i # 1
      <4>1. 1 \in 1..(i - 1)
        BY <2>2, <3>2
      <4> QED BY <2>1, <4>1
    <3> QED BY <3>1, <3>2
  <2> QED BY <1>2, <2>2, <2>3
<1> QED BY <1>3, <1>4

\* Of a lot that can be sold, while something is left: the quantity is all there
\* is or what brings the target to its end, and nothing else happens to it.
LEMMA TakenMeets ==
  ASSUME Numbers, Given, Quantized,
         NEW l \in Approved, Capacity(l) > 0, left > 0
  PROVE  LET q == Lower(Capacity(l), Needed(l)) IN
         /\ q > 0 /\ q \in Int /\ q <= Capacity(l)
         /\ Taken(l).qty = q
         /\ Taken(l).usable \in Int
         /\ 2 * (Taken(l).usable - q * Loss(l)) <= Precision
         /\ 2 * (q * Loss(l) - Taken(l).usable) <= Precision
         /\ Taken(l).usable >= 0
         /\ \E k \in Nat : left - Taken(l).usable = Precision * k
         /\ q < Capacity(l) => Taken(l).usable = left
<1> DEFINE c == Capacity(l)
           u == Loss(l)
           n == Needed(l)
           q == Lower(c, n)
           P == Precision
           r == HalfEven(q * u, P)
           v == P * r
<1>0. P \in Nat \ {0} /\ l \in Lots
  BY SelectionAssumption DEF Approved
<1>1. c \in Nat \ {0} /\ left \in Int
  BY <1>0, LotTypes DEF Numbers
<1>2. u \in Nat \ {0} /\ u < P
  <2>1. lot[l].basis \in Bases /\ price[SymbolOf[l]] \in Prices
    BY <1>0, LotTypes DEF Given
  <2>2. u < P
    BY <2>1, PrecisionAssumption DEF Loss
  <2> QED BY <2>2, LossIsPositive
<1>3. PICK k \in Nat : left = P * k
  BY DEF Quantized
<1> HIDE DEF P
<1>4. k >= 1 /\ left >= P
  <2>1. k # 0
    BY <1>0, <1>3
  <2>2. P * (k - 1) = P * k - P /\ P * (k - 1) >= 0
    <3>1. k - 1 \in Nat
      BY <2>1
    <3>2. P * (k - 1) \in Nat
      BY <1>0, <3>1
    <3> QED BY <1>0, <3>2
  <2>3. P * k \in Int
    BY <1>0
  <2> QED BY <1>0, <1>3, <2>1, <2>2, <2>3
<1>5. /\ n \in Int /\ 2 * (left - u * n) <= u /\ 2 * (u * n - left) <= u
      /\ \A x \in Int : left < x * u => n <= x
  <2>1. n = HalfEven(left, u)
    BY DEF Needed
  <2> QED BY <1>1, <1>2, <2>1, RoundedIsClose, RoundedQuotient
<1>6. n >= 1
  <2>1. n = HalfEven(left, u)
    BY DEF Needed
  <2>2. u * 1 <= left
    BY <1>0, <1>1, <1>2, <1>4
  <2> QED BY <1>1, <1>2, <2>1, <2>2, RoundedToMultiple
<1> HIDE DEF c, u, n
<1>7. q \in Nat \ {0} /\ q <= c /\ (q = c \/ q = n) /\ q <= n /\ (q < c => q = n)
  BY <1>1, <1>5, <1>6 DEF Lower
<1> HIDE DEF q
<1>8. q * u \in Nat /\ P * k \in Int
  BY <1>0, <1>2, <1>7
<1>9. r \in Int /\ 2 * (v - q * u) <= P /\ 2 * (q * u - v) <= P
  BY <1>0, <1>8, RoundedIsClose
<1>10. r >= 0
  <2>1. P * 0 <= q * u
    BY <1>0, <1>8
  <2> QED BY <1>0, <1>8, <2>1, RoundedToMultiple
<1>11. q = n => r = k
  <2> SUFFICES ASSUME q = n PROVE r = k
    OBVIOUS
  <2>1. q * u = u * n
    BY <1>2, <1>5
  <2>2. 2 * (q * u - P * k) < P /\ 2 * (P * k - q * u) < P
    BY <1>0, <1>2, <1>3, <1>5, <1>8, <2>1
  <2> QED BY <1>0, <1>8, <2>2, RoundedToMultiple
<1>12. q # n => r <= k
  <2> SUFFICES ASSUME q # n PROVE r <= k
    OBVIOUS
  <2>1. q < n
    BY <1>5, <1>7
  <2>2. ~(left < q * u)
    BY <1>5, <1>7, <2>1
  <2>3. q * u <= P * k
    BY <1>1, <1>3, <1>8, <2>2
  <2> QED BY <1>0, <1>8, <2>3, RoundedToMultiple
<1>13. r <= k
  BY <1>9, <1>11, <1>12
<1> HIDE DEF r
<1>14. v \in Nat /\ v <= left /\ left - v = P * (k - r) /\ k - r \in Nat
  <2>1. k - r \in Nat
    BY <1>9, <1>10, <1>13
  <2>2. P * (k - r) = P * k - P * r /\ P * (k - r) \in Nat
    BY <1>0, <1>9, <2>1
  <2>3. v \in Nat
    BY <1>0, <1>9, <1>10
  <2> QED BY <1>3, <1>8, <2>1, <2>2, <2>3
<1>15. Taken(l) = [qty |-> q, usable |-> v]
  <2>1. v = Quantize(q * u)
    BY DEF Quantize, P, r
  <2>2. Rounded(l) = IF allow \/ v <= left THEN [qty |-> q, usable |-> v] ELSE Exact(l, q)
    BY <2>1 DEF Rounded, c, u, n, q
  <2>3. Rounded(l) = [qty |-> q, usable |-> v]
    BY <1>14, <2>2
  <2> HIDE DEF v
  <2> QED BY <1>7, <2>3 DEF Taken, Capped, c
<1>16. q < c => v = left
  BY <1>3, <1>7, <1>11
<1> HIDE DEF v
<1>17. /\ q > 0 /\ q \in Int /\ q <= c
       /\ Taken(l).qty = q
       /\ Taken(l).usable \in Int
       /\ 2 * (Taken(l).usable - q * u) <= P
       /\ 2 * (q * u - Taken(l).usable) <= P
       /\ Taken(l).usable >= 0
       /\ q < c => Taken(l).usable = left
  BY <1>7, <1>9, <1>14, <1>15, <1>16 DEF v
<1>18. \E j \in Nat : left - Taken(l).usable = P * j
  BY <1>14, <1>15
<1> QED BY <1>17, <1>18 DEF c, u, n, q, P

\* Nothing is taken at first.
LEMMA ProgressInit == Init => Progress
<1> SUFFICES ASSUME Init PROVE Progress
  OBVIOUS
<1>1. Numbers
  BY InitInv DEF IInv
<1>2. Given
  BY DEF Init, Given
<1>3. Quantized
  <2>1. PICK short, long \in Results : target = HarvestingTarget(short, long)
    BY DEF Init
  <2>2. short \in Int /\ long \in Int /\ Precision \in Nat \ {0}
    BY SelectionAssumption
  <2> DEFINE k == IF short + long > 0 THEN short + long ELSE 0
  <2>3. k \in Nat /\ target = Precision * k
    BY <2>1, <2>2 DEF HarvestingTarget
  <2> HIDE DEF k
  <2>4. Precision * k \in Nat
    BY <2>2, <2>3
  <2> QED BY <2>3, <2>4 DEF Quantized, Init
<1>4. \A l \in Lots : picked[l] = Nothing
  BY DEF Init
<1>5. Untouched /\ LargestFirst
  BY <1>4 DEF Untouched, LargestFirst, Nothing
<1>6. Ordered
  BY <1>4 DEF Ordered, Init, Nothing
<1>7. Close
  <2>1. Precision \in Nat
    BY SelectionAssumption
  <2>2. ASSUME NEW l \in Lots
        PROVE  /\ Reach[l] \in Nat
               /\ l \notin todo => Reach[l] = 0
    <3>1. CASE l \in Approved /\ Capacity(l) > 0
      <4>1. Loss(l) \in Nat /\ Capacity(l) \in Nat
        BY <1>1, <3>1, LossIsPositive, LotTypes
      <4>2. Capacity(l) * Loss(l) \in Nat
        BY <4>1
      <4> QED BY <3>1, <4>2 DEF Reach, Init
    <3>2. CASE ~(l \in Approved /\ Capacity(l) > 0)
      BY <3>2 DEF Reach
    <3> QED BY <3>1, <3>2
  <2> QED BY <1>4, <2>1, <2>2 DEF Close, Nothing
<1>8. Met
  <2>1. \A x \in Lots : 2 * (Usable[x] - Usable[x]) <= 0
    BY <1>1, SumTypes
  <2>2. Usable = [l \in Lots |-> 0]
    BY <1>4 DEF Usable, Nothing
  <2> DEFINE z == [l \in Lots |-> 0]
             y == [l \in Lots |-> 0]
  <2>3. Sum(z, Lots) = 0
    BY ZeroSum, SelectionAssumption
  <2>4. left = target /\ target \in Int
    BY <1>1, <1>3 DEF Init, Quantized
  <2> QED BY <2>2, <2>3, <2>4 DEF Met
<1> QED BY <1>2, <1>3, <1>5, <1>6, <1>7, <1>8 DEF Progress

\* The loop stops with nothing left.
LEMMA StopProgress == ASSUME Numbers, Progress, Stop PROVE Progress'
<1> USE DEF Progress
<1>1. /\ UNCHANGED <<inputs, rank, left, picked>> /\ todo' = {} /\ left <= 0
  BY DEF Stop
<1>2. left \in Int
  BY DEF Numbers
<1>3. Approved' = Approved /\ Reach' = Reach /\ Usable' = Usable
  BY <1>1 DEF inputs, Approved, Reach, Usable, Total, Loss, Capacity, Lower
<1>4. Given' /\ Quantized' /\ Met'
  BY <1>1, <1>3 DEF inputs, Given, Quantized, Met
<1>5. Untouched'
  BY <1>1, <1>3 DEF Untouched
<1>6. LargestFirst'
  BY <1>1 DEF LargestFirst, inputs, Total, Loss, Capacity, Lower
<1>7. Ordered'
  BY <1>1, <1>2 DEF Ordered
<1>8. Close'
  BY <1>1, <1>2, <1>3 DEF Close
<1> QED BY <1>4, <1>5, <1>6, <1>7, <1>8

\* A lot is passed over only when there is nothing of it to sell.
LEMMA SkipProgress == ASSUME Numbers, Progress, NEW l \in Lots, Skip(l) PROVE Progress'
<1> USE DEF Progress
<1>1. /\ UNCHANGED <<inputs, left, picked>> /\ todo' = todo \ {l} /\ rank' = rank + 1
      /\ First(l) /\ l \in todo /\ l \in Approved
  BY DEF Skip, Meets, First, Numbers
<1>2. Approved' = Approved /\ Reach' = Reach /\ Usable' = Usable
      /\ \A x \in Lots : Capacity(x)' = Capacity(x) /\ Total(x)' = Total(x)
  BY <1>1 DEF inputs, Approved, Reach, Usable, Total, Loss, Capacity, Lower
<1>3. left > 0 => Capacity(l) <= 0
  <2> SUFFICES ASSUME left > 0, ~(Capacity(l) <= 0) PROVE FALSE
    OBVIOUS
  <2>1. Capacity(l) > 0
    BY LotTypes
  <2>2. Lower(Capacity(l), Needed(l)) > 0
    BY <1>1, <2>1, TakenMeets
  <2>3. Lower(Capacity(l), Needed(l)) \in Int
    BY <1>1, <2>1, TakenMeets
  <2> QED BY <2>1, <2>2, <2>3 DEF Skip
<1>4. Given' /\ Quantized' /\ Met'
  BY <1>1, <1>2 DEF inputs, Given, Quantized, Met
<1>5. Untouched'
  BY <1>1, <1>2 DEF Untouched
<1>6. LargestFirst'
  BY <1>1, <1>2 DEF LargestFirst
<1>7. Ordered'
  <2>1. rank' \in Nat /\ rank <= rank'
    BY <1>1 DEF Ordered
  <2>2. \A x \in Lots : picked'[x].qty > 0 =>
          /\ 0 < picked'[x].rank /\ picked'[x].rank <= rank'
          /\ \A m \in todo' : Total(m)' <= Total(x)'
    <3> SUFFICES ASSUME NEW x \in Lots, picked[x].qty > 0
                 PROVE /\ 0 < picked[x].rank /\ picked[x].rank <= rank'
                       /\ \A m \in todo \ {l} : Total(m) <= Total(x)
      BY <1>1, <1>2 DEF Numbers, Approved
    <3> QED BY <1>1, LotTypes DEF Ordered
  <2>3. left' > 0 => \A x \in Approved' \ todo' : Capacity(x)' > 0 => picked'[x].qty = Capacity(x)'
    <3> SUFFICES ASSUME left > 0, NEW x \in Approved \ todo', Capacity(x) > 0
                 PROVE picked[x].qty = Capacity(x)
      BY <1>1, <1>2 DEF Approved
    <3>1. x # l
      BY <1>3, LotTypes
    <3> QED BY <1>1, <3>1 DEF Ordered
  <2> QED BY <2>1, <2>2, <2>3 DEF Ordered
<1>8. Close'
  <2>1. left > 0 => 2 * (Reach[l] - picked[l].usable) <= Precision
    <3> SUFFICES ASSUME left > 0 PROVE 2 * (Reach[l] - picked[l].usable) <= Precision
      OBVIOUS
    <3>1. Capacity(l) \in Int /\ ~(Capacity(l) > 0)
      BY <1>3, LotTypes
    <3>2. Reach[l] = 0 /\ picked[l].usable = 0
      BY <1>1, <3>1 DEF Reach, Untouched, Nothing
    <3> QED BY <3>2, SelectionAssumption
  <2> QED BY <1>1, <1>2, <2>1 DEF Close
<1> QED BY <1>4, <1>5, <1>6, <1>7, <1>8

\* What is taken of a lot makes up for what is left of the target.
LEMMA TakeProgress ==
  ASSUME Numbers, Numbers', Progress, NEW l \in Lots, Take(l) PROVE Progress'
<1> USE DEF Progress
<1> DEFINE t == Taken(l)
           q == Lower(Capacity(l), Needed(l))
<1>1. /\ UNCHANGED inputs /\ todo' = todo \ {l} /\ rank' = rank + 1
      /\ First(l) /\ l \in todo /\ l \in Approved /\ left > 0 /\ left' = left - t.usable
      /\ picked' = [picked EXCEPT ![l] =
                      [qty |-> t.qty, usable |-> t.usable, rank |-> rank + 1]]
  BY DEF Take, Meets, First, Numbers
<1>2. Capacity(l) > 0
  <2>1. Capacity(l) \in Int /\ Loss(l) \in Nat \ {0}
    BY <1>1, LotTypes, LossIsPositive
  <2>2. Needed(l) \in Int
    BY <2>1, RoundedQuotient DEF Needed, Numbers
  <2> QED BY <2>1, <2>2 DEF Take, Lower
<1>3. /\ q > 0 /\ q \in Int /\ q <= Capacity(l)
      /\ t.qty = q
      /\ t.usable \in Int /\ t.usable >= 0
      /\ 2 * (t.usable - q * Loss(l)) <= Precision
      /\ 2 * (q * Loss(l) - t.usable) <= Precision
      /\ \E k \in Nat : left - t.usable = Precision * k
      /\ q < Capacity(l) => t.usable = left
  BY <1>1, <1>2, TakenMeets
<1> HIDE DEF t, q
<1>4. Approved' = Approved /\ Reach' = Reach
      /\ \A x \in Lots : Capacity(x)' = Capacity(x) /\ Total(x)' = Total(x)
  BY <1>1 DEF inputs, Approved, Reach, Total, Loss, Capacity, Lower
<1>5. /\ picked'[l] = [qty |-> t.qty, usable |-> t.usable, rank |-> rank + 1]
      /\ \A x \in Lots \ {l} : picked'[x] = picked[x]
      /\ picked[l] = Nothing
  BY <1>1 DEF Numbers, Untouched
<1>6. left \in Int /\ rank \in Nat /\ Capacity(l) \in Int /\ Loss(l) \in Nat \ {0}
      /\ Precision \in Nat \ {0}
  BY <1>1, LotTypes, LossIsPositive, SelectionAssumption DEF Numbers, Ordered
<1>7. left' > 0 => q = Capacity(l)
  BY <1>1, <1>3, <1>6
<1>8. Given' /\ Quantized'
  BY <1>1, <1>3 DEF inputs, Given, Quantized
<1>9. Untouched'
  BY <1>1, <1>4, <1>5 DEF Untouched
<1>10. Ordered'
  <2>1. rank' \in Nat
    BY <1>1, <1>6
  <2>2. ASSUME NEW x \in Lots, picked'[x].qty > 0
        PROVE  /\ 0 < picked'[x].rank /\ picked'[x].rank <= rank'
               /\ \A m \in todo' : Total(m)' <= Total(x)'
    <3>0. \A m \in todo' : m \in todo /\ m \in Lots /\ Total(m)' = Total(m)
      BY <1>1, <1>4 DEF Numbers, Approved
    <3>1. CASE x = l
      BY <1>1, <1>4, <1>5, <1>6, <3>0, <3>1, FirstIsLargest
    <3>2. CASE x # l
      BY <1>1, <1>4, <1>5, <1>6, <2>2, <3>0, <3>2, LotTypes DEF Ordered
    <3> QED BY <3>1, <3>2
  <2>3. left' > 0 =>
          \A x \in Approved' \ todo' : Capacity(x)' > 0 => picked'[x].qty = Capacity(x)'
    <3> SUFFICES ASSUME left' > 0, NEW x \in Approved, x \notin todo', Capacity(x) > 0
                 PROVE  picked'[x].qty = Capacity(x)
      BY <1>4 DEF Approved
    <3>1. CASE x = l
      BY <1>3, <1>5, <1>7, <3>1
    <3>2. CASE x # l
      BY <1>1, <1>5, <3>2 DEF Ordered, Approved
    <3> QED BY <3>1, <3>2
  <2> QED BY <2>1, <2>2, <2>3 DEF Ordered
<1>11. Close'
  <2>1. Reach[l] = Capacity(l) * Loss(l)
    BY <1>1, <1>2 DEF Reach, Approved
  <2>2. q * Loss(l) <= Capacity(l) * Loss(l) /\ q * Loss(l) \in Int
        /\ Capacity(l) * Loss(l) \in Int
    <3>1. (Capacity(l) - q) * Loss(l) = Capacity(l) * Loss(l) - q * Loss(l)
      BY <1>3, <1>6
    <3>2. Capacity(l) - q \in Nat
      BY <1>3, <1>6
    <3>3. (Capacity(l) - q) * Loss(l) >= 0
      BY <1>6, <3>2
    <3>4. q * Loss(l) \in Int /\ Capacity(l) * Loss(l) \in Int
      BY <1>3, <1>6
    <3> QED BY <3>1, <3>3, <3>4
  <2>3. ASSUME NEW x \in Lots PROVE 2 * (picked'[x].usable - Reach[x]) <= Precision
    <3>1. CASE x = l
      BY <1>3, <1>5, <1>6, <2>1, <2>2, <3>1
    <3>2. CASE x # l
      BY <1>5, <3>2 DEF Close
    <3> QED BY <3>1, <3>2
  <2>4. ASSUME left' > 0, NEW x \in Lots \ todo'
        PROVE  2 * (Reach[x] - picked'[x].usable) <= Precision
    <3>1. CASE x = l
      BY <1>3, <1>5, <1>6, <1>7, <2>1, <2>4, <3>1
    <3>2. CASE x # l
      BY <1>1, <1>5, <2>4, <3>2 DEF Close
    <3> QED BY <3>1, <3>2
  <2> QED BY <1>4, <2>3, <2>4 DEF Close
<1>12. Met'
  <2>1. Usable \in [Lots -> Int] /\ IsFiniteSet(Lots)
    BY SumTypes
  <2>2. Usable' \in [Lots -> Int]
    BY DEF Numbers, Usable
  <2>3. /\ \A x \in Lots \ {l} : Usable'[x] = Usable[x]
        /\ Usable[l] = 0 /\ Usable'[l] = t.usable
    BY <1>5 DEF Usable, Nothing
  <2>4. Sum(Usable', Lots) = Sum(Usable, Lots) + (t.usable - 0)
    BY <2>1, <2>2, <2>3, SumStep
  <2>5. Sum(Usable, Lots) = target - left /\ target \in Int
    BY DEF Met, Quantized
  <2>6. Sum(Usable', Lots) = target - left'
    BY <1>1, <1>3, <1>6, <2>4, <2>5
  <2> QED BY <1>1, <2>6 DEF Met, inputs
<1>13. LargestFirst'
  <2> SUFFICES ASSUME NEW a \in Lots, NEW b \in Lots, picked'[b].qty > 0,
                      Total(a) > Total(b), Capacity(a) > 0
               PROVE  /\ picked'[a].qty = Capacity(a)
                      /\ 0 < picked'[a].rank /\ picked'[a].rank < picked'[b].rank
    BY <1>4 DEF LargestFirst
  <2>0. /\ Total(a) \in Int /\ Total(b) \in Int /\ lot[a].qty \in Int
        /\ Capacity(a) \in Int /\ Capacity(a) <= lot[a].qty
        /\ Total(l) \in Int
    BY LotTypes
  <2>1. CASE b = l
    <3>1. a # l /\ a \in Approved /\ a \notin todo
      <4>1. Total(l) > 0
        BY <1>1 DEF Approved
      <4>2. a \in Approved
        BY <2>0, <2>1, <4>1 DEF Approved
      <4>3. a \notin todo
        BY <1>1, <2>0, <2>1, FirstIsLargest
      <4> QED BY <2>0, <2>1, <4>2, <4>3
    <3>2. picked[a].qty = Capacity(a)
      BY <1>1, <3>1 DEF Ordered
    <3>3. 0 < picked[a].rank /\ picked[a].rank <= rank /\ picked[a].rank \in Int
      BY <3>2, LotTypes DEF Ordered
    <3> QED BY <1>5, <1>6, <2>1, <3>1, <3>2, <3>3
  <2>2. CASE b # l
    <3>1. picked[b].qty > 0
      BY <1>5, <2>2
    <3>2. a # l
      BY <1>1, <2>0, <3>1 DEF Ordered
    <3> QED BY <1>5, <2>2, <3>1, <3>2 DEF LargestFirst
  <2> QED BY <2>1, <2>2
<1> QED BY <1>8, <1>9, <1>10, <1>11, <1>12, <1>13

LEMMA ProgressStep == IInv /\ Progress /\ [Next]_vars => Progress'
<1> SUFFICES ASSUME IInv, Progress, [Next]_vars PROVE Progress'
  OBVIOUS
<1>1. Numbers /\ Numbers'
  BY NextStep DEF IInv
<1>2. CASE Stop
  BY <1>1, <1>2, StopProgress
<1>3. ASSUME NEW l \in Lots, Skip(l) PROVE Progress'
  BY <1>1, <1>3, SkipProgress
<1>4. ASSUME NEW l \in Lots, Take(l) PROVE Progress'
  BY <1>1, <1>4, TakeProgress
<1>5. CASE UNCHANGED vars
  <2>1. UNCHANGED <<lot, price, mirror, target, allow, todo, rank, left, picked>>
    BY <1>5 DEF vars, inputs
  <2>2. Approved' = Approved /\ Reach' = Reach /\ Usable' = Usable
    BY <2>1 DEF Approved, Reach, Usable, Total, Loss, Capacity, Lower
  <2>3. Given' /\ Quantized' /\ Met'
    BY <2>1, <2>2 DEF Given, Quantized, Met, Progress
  <2>4. Untouched' /\ Close'
    BY <2>1, <2>2 DEF Untouched, Close, Progress
  <2>5. Ordered' /\ LargestFirst'
    BY <2>1, <2>2 DEF Ordered, LargestFirst, Progress, Total, Loss, Capacity, Lower
  <2> QED BY <2>3, <2>4, <2>5 DEF Progress
<1> QED
  BY <1>2, <1>3, <1>4, <1>5 DEF Next, Ranked

\* When the loop ends the losses taken are the target or, but for the rounding,
\* all there are.
LEMMA ProgressMeets == Numbers /\ Progress => TargetIsMet
<1> SUFFICES ASSUME Numbers, Progress PROVE TargetIsMet
  OBVIOUS
<1> USE DEF Progress
<1> DEFINE n == Cardinality(Lots)
           used == Sum(Usable, Lots)
           all == Sum(Reach, Lots)
<1>1. /\ IsFiniteSet(Lots) /\ Usable \in [Lots -> Int] /\ Reach \in [Lots -> Int]
      /\ Precision \in Nat
  BY SumTypes, SelectionAssumption
<1>2. n \in Nat /\ used \in Int /\ all \in Int /\ left \in Nat /\ target \in Nat
  <2>1. \A k \in Nat : Precision * k \in Nat
    BY <1>1
  <2> QED BY <1>1, <2>1, FS_CardinalityType, SumType DEF Quantized
<1>3. used = target - left
  BY DEF Met
<1>4. 2 * (used - all) <= Precision * n
  <2>1. \A x \in Lots : 2 * (Usable[x] - Reach[x]) <= Precision
    BY DEF Close, Usable
  <2> QED BY <1>1, <2>1, SumBound
<1>5. todo = {} /\ left > 0 => 2 * (all - used) <= Precision * n
  <2> SUFFICES ASSUME todo = {}, left > 0 PROVE 2 * (all - used) <= Precision * n
    OBVIOUS
  <2>1. \A x \in Lots : 2 * (Reach[x] - Usable[x]) <= Precision
    BY DEF Close, Usable
  <2> QED BY <1>1, <2>1, SumBound
<1>6. Precision * n \in Nat
  BY <1>1, <1>2
<1> DEFINE due == Lower(target, all)
<1> HIDE DEF used, all
<1>7. due \in Int /\ (due = target \/ due = all) /\ due <= target /\ due <= all
  BY <1>2 DEF Lower
<1> HIDE DEF due, n
<1>8. used <= target
  BY <1>2, <1>3
<1>9. todo = {} => 2 * (used - due) <= Precision * n /\ 2 * (due - used) <= Precision * n
  <2>1. CASE left = 0
    BY <1>2, <1>3, <1>4, <1>6, <1>7, <2>1
  <2>2. CASE left > 0
    BY <1>2, <1>3, <1>4, <1>5, <1>6, <1>7, <2>2
  <2> QED BY <1>2, <2>1, <2>2
<1> QED BY <1>3, <1>8, <1>9 DEF TargetIsMet, used, due, all, n

\* For any lots, quantities, prices, targets and settings the losses selected
\* never exceed the target and, at the end, are the target or all there is to
\* sell, but for half a rounding unit a lot (select_against_target).
THEOREM TargetMet == Spec => []TargetIsMet
<1> QED
  BY InitInv, ProgressInit, NextStep, ProgressStep, ProgressMeets, PTL DEF Spec, IInv

\* No lot is sold before a larger loss is sold out, and ranks follow the losses
\* (rank_key, select_against_target).
THEOREM LargestSoldFirst == Spec => []LargestFirst
<1>1. Progress => LargestFirst
  BY DEF Progress
<1> QED
  BY <1>1, InitInv, ProgressInit, NextStep, ProgressStep, PTL DEF Spec
=============================================================================
