----------------------------- MODULE BillsProofs -----------------------------
(* What holds of the amounts of every bill, for all menus, rates, discounts   *)
(* and quantities: a line always is the price of what it says was ordered,    *)
(* a discount falls on the lines to the last unit, the totals are the sums of *)
(* the lines, cancelling never makes a bill dearer, and the priced bill is    *)
(* one the ledger of Settlement accounts for.  Sums are folds: what they add  *)
(* up to is proved by induction over the subsets of the menu.                 *)
EXTENDS Bills, SettlementProofs

-----------------------------------------------------------------------------
(* Rounding.                                                                  *)
LEMMA TimesMonotone ==
  ASSUME NEW a \in Int, NEW b \in Int, NEW d \in Nat, a <= b
  PROVE  d * a <= d * b
OBVIOUS

LEMMA HalfUpIsNearest ==
  ASSUME NEW n \in Nat, NEW d \in Nat \ {0}
  PROVE  /\ HalfUp(n, d) \in Nat
         /\ 2 * (d * HalfUp(n, d)) <= 2 * n + d
         /\ 2 * n + d < 2 * (d * HalfUp(n, d)) + 2 * d
BY DEF HalfUp

(* Rounding never passes a whole number.                                      *)
LEMMA HalfUpAtMost ==
  ASSUME NEW n \in Nat, NEW d \in Nat \ {0}, NEW m \in Nat, n <= d * m
  PROVE  HalfUp(n, d) <= m
<1> DEFINE h == HalfUp(n, d)
<1>1. h \in Nat /\ 2 * (d * h) <= 2 * n + d
  BY HalfUpIsNearest
<1>2. SUFFICES ASSUME m + 1 <= h PROVE FALSE
  BY <1>1
<1>3. d * (m + 1) <= d * h
  BY <1>1, <1>2, TimesMonotone
<1>4. d * (m + 1) = d * m + d /\ d * m \in Nat /\ d * h \in Nat
  BY <1>1
<1> HIDE DEF h
<1>5. QED
  BY <1>1, <1>3, <1>4

LEMMA HalfUpAtLeast ==
  ASSUME NEW n \in Nat, NEW d \in Nat \ {0}, NEW m \in Int, d * m <= n
  PROVE  m <= HalfUp(n, d)
<1> DEFINE h == HalfUp(n, d)
<1>1. h \in Nat /\ 2 * n + d < 2 * (d * h) + 2 * d
  BY HalfUpIsNearest
<1>2. SUFFICES ASSUME h + 1 <= m PROVE FALSE
  BY <1>1
<1>3. d * (h + 1) <= d * m
  BY <1>1, <1>2, TimesMonotone
<1>4. d * (h + 1) = d * h + d /\ d * m \in Int /\ d * h \in Nat
  BY <1>1
<1> HIDE DEF h
<1>5. QED
  BY <1>1, <1>3, <1>4

LEMMA HalfUpMonotone ==
  ASSUME NEW a \in Nat, NEW b \in Nat, NEW d \in Nat \ {0}, a <= b
  PROVE  HalfUp(a, d) <= HalfUp(b, d)
<1> DEFINE g == HalfUp(a, d)
           h == HalfUp(b, d)
<1>1. /\ g \in Nat /\ 2 * (d * g) <= 2 * a + d
      /\ h \in Nat /\ 2 * b + d < 2 * (d * h) + 2 * d
  BY HalfUpIsNearest
<1>2. SUFFICES ASSUME h + 1 <= g PROVE FALSE
  BY <1>1
<1>3. d * (h + 1) <= d * g
  BY <1>1, <1>2, TimesMonotone
<1>4. d * (h + 1) = d * h + d /\ d * g \in Nat /\ d * h \in Nat
  BY <1>1
<1> HIDE DEF g, h
<1>5. QED
  BY <1>1, <1>3, <1>4

-----------------------------------------------------------------------------
(* Sums over lines.  SumFunction is a fold, which takes the elements of a set *)
(* one by one; that it does not matter in which order is what the lemmas      *)
(* about it rest on.                                                          *)
LEMMA LeastNumber ==
  ASSUME NEW T \in SUBSET Nat, T # {} PROVE \E n \in T : \A m \in T : n <= m
<1> DEFINE R == OpToRel(<, Nat)
<1>1. IsWellFoundedOn(R, Nat)
  BY NatLessThanWellFounded
<1>2. T \subseteq Nat
  OBVIOUS
<1> HIDE DEF R
<1>3. PICK n \in T : \A m \in T : ~(<<m, n>> \in R)
  BY <1>1, <1>2, WFMin
<1> USE DEF R
<1>4. \A m \in T : ~(m < n)
  BY <1>3 DEF OpToRel
<1>5. QED
  BY <1>4

(* Induction over the subsets of a finite set: P has them all when it has     *)
(* each one of which it has all that lack one element.                        *)
LEMMA SubsetInduction ==
  ASSUME NEW S, IsFiniteSet(S), NEW P,
         \A T \in SUBSET S : (\A x \in T : T \ {x} \in P) => T \in P
  PROVE  S \in P
<1> DEFINE Bad == {n \in Nat : \E T \in SUBSET S : T \notin P /\ Cardinality(T) = n}
<1>1. SUFFICES ASSUME S \notin P PROVE FALSE
  OBVIOUS
<1>2. Cardinality(S) \in Bad
  BY <1>1, FS_CardinalityType
<1>3. Bad \in SUBSET Nat /\ Bad # {}
  BY <1>2
<1>4. PICK n \in Bad : \A m \in Bad : n <= m
  BY <1>3, LeastNumber
<1>5. PICK T \in SUBSET S : T \notin P /\ Cardinality(T) = n
  BY <1>4
<1>6. ASSUME NEW x \in T PROVE T \ {x} \in P
  <2>1. IsFiniteSet(T)
    BY FS_Subset
  <2>2. Cardinality(T \ {x}) = n - 1 /\ IsFiniteSet(T \ {x})
    BY <1>5, <2>1, FS_RemoveElement
  <2>3. n - 1 \in Nat /\ n \in Nat
    BY <2>2, FS_CardinalityType
  <2>4. n - 1 \notin Bad
    BY <1>4, <2>3
  <2>5. QED
    BY <2>2, <2>3, <2>4
<1>7. QED
  BY <1>5, <1>6

Picked(s) == CHOOSE x \in s : TRUE

(* The recursion of the fold over a collection of sets.                       *)
Adds(f, sets, g) ==
  g = [s \in sets |-> IF s = {} THEN 0 ELSE f[Picked(s)] + g[s \ {Picked(s)}]]

LEMMA SumIsFold ==
  ASSUME NEW f, NEW D
  PROVE  SumFunctionOnSet(f, D) = (CHOOSE g : Adds(f, SUBSET D, g))[D]
BY DEF SumFunctionOnSet, FoldFunctionOnSet, MapThenFoldSet, Adds, Picked

LEMMA PickedIsIn == ASSUME NEW s, s # {} PROVE Picked(s) \in s
BY DEF Picked

(* There is such a function for the sets of n elements at most ...            *)
UpTo(D, n) == {s \in SUBSET D : Cardinality(s) <= n}

LEMMA FoldGoesOn ==
  ASSUME NEW f, NEW D, IsFiniteSet(D), NEW n \in Nat, NEW g, Adds(f, UpTo(D, n), g)
  PROVE  \E h : Adds(f, UpTo(D, n + 1), h)
<1> DEFINE h == [s \in UpTo(D, n + 1) |->
                   IF s = {} THEN 0 ELSE f[Picked(s)] + g[s \ {Picked(s)}]]
<1>1. ASSUME NEW s \in UpTo(D, n) PROVE s \in UpTo(D, n + 1) /\ h[s] = g[s]
  <2>1. s \in UpTo(D, n + 1)
    <3>1. s \in SUBSET D /\ IsFiniteSet(s) /\ Cardinality(s) <= n
      BY FS_Subset DEF UpTo
    <3>2. Cardinality(s) \in Nat
      BY <3>1, FS_CardinalityType
    <3>3. QED
      BY <3>1, <3>2 DEF UpTo
  <2>2. QED
    BY <2>1 DEF Adds
<1>2. ASSUME NEW s \in UpTo(D, n + 1), s # {} PROVE s \ {Picked(s)} \in UpTo(D, n)
  <2>1. s \in SUBSET D /\ IsFiniteSet(s) /\ Cardinality(s) <= n + 1 /\ Picked(s) \in s
    BY <1>2, PickedIsIn, FS_Subset DEF UpTo
  <2>2. Cardinality(s \ {Picked(s)}) = Cardinality(s) - 1 /\ Cardinality(s) \in Nat
    BY <2>1, FS_RemoveElement, FS_CardinalityType
  <2>3. QED
    BY <2>1, <2>2 DEF UpTo
<1>3. \A s \in UpTo(D, n + 1) :
         h[s] = IF s = {} THEN 0 ELSE f[Picked(s)] + h[s \ {Picked(s)}]
  BY <1>1, <1>2
<1>4. h = [s \in UpTo(D, n + 1) |-> h[s]]
  OBVIOUS
<1> HIDE DEF h
<1>5. Adds(f, UpTo(D, n + 1), h)
  BY <1>3, <1>4 DEF Adds
<1>6. QED
  BY <1>5

(* ... and so for all subsets of a finite set.                                *)
LEMMA FoldExists ==
  ASSUME NEW f, NEW D, IsFiniteSet(D)
  PROVE  \E g : Adds(f, SUBSET D, g)
<1> DEFINE Bad == {n \in Nat : ~\E g : Adds(f, UpTo(D, n), g)}
<1>1. Cardinality(D) \in Nat /\ UpTo(D, Cardinality(D)) = SUBSET D
  BY FS_CardinalityType, FS_Subset DEF UpTo
<1>2. SUFFICES ASSUME Bad # {} PROVE FALSE
  <2>1. ASSUME Bad = {} PROVE \E g : Adds(f, UpTo(D, Cardinality(D)), g)
    BY <1>1, <2>1
  <2> HIDE DEF Bad
  <2>2. QED
    BY <1>1, <2>1
<1>3. PICK n \in Bad : \A m \in Bad : n <= m
  <2>1. Bad \in SUBSET Nat
    OBVIOUS
  <2>2. QED
    BY <1>2, <2>1, LeastNumber
<1>4. n # 0
  <2>1. \A s \in UpTo(D, 0) : s = {}
    <3>1. TAKE s \in UpTo(D, 0)
    <3>2. s \in SUBSET D /\ IsFiniteSet(s) /\ Cardinality(s) <= 0
      BY FS_Subset DEF UpTo
    <3>3. Cardinality(s) = 0
      BY <3>2, FS_CardinalityType
    <3>4. QED
      BY <3>2, <3>3, FS_EmptySet
  <2>2. Adds(f, UpTo(D, 0), [s \in UpTo(D, 0) |-> 0])
    BY <2>1 DEF Adds
  <2>3. QED
    BY <2>2
<1>5. n - 1 \in Nat /\ n - 1 \notin Bad /\ (n - 1) + 1 = n
  BY <1>3, <1>4
<1>6. QED
  BY <1>3, <1>5, FoldGoesOn

(* The fold of a set gives each subset its sum.                               *)
LEMMA FoldAgrees ==
  ASSUME NEW f, NEW D, IsFiniteSet(D), NEW g, Adds(f, SUBSET D, g), NEW S \in SUBSET D
  PROVE  g[S] = SumFunctionOnSet(f, S)
<1> DEFINE h == CHOOSE k : Adds(f, SUBSET S, k)
           P == {T \in SUBSET S : g[T] = h[T]}
<1>1. IsFiniteSet(S)
  BY FS_Subset
<1>2. Adds(f, SUBSET S, h)
  BY <1>1, FoldExists
<1> HIDE DEF h
<1>3. ASSUME NEW T \in SUBSET S, \A x \in T : T \ {x} \in P PROVE T \in P
  <2>1. T \in SUBSET D
    OBVIOUS
  <2>2. g[T] = IF T = {} THEN 0 ELSE f[Picked(T)] + g[T \ {Picked(T)}]
    BY <2>1 DEF Adds
  <2>3. h[T] = IF T = {} THEN 0 ELSE f[Picked(T)] + h[T \ {Picked(T)}]
    BY <1>2 DEF Adds
  <2>4. T # {} => g[T \ {Picked(T)}] = h[T \ {Picked(T)}]
    BY <1>3, PickedIsIn
  <2>5. QED
    BY <2>2, <2>3, <2>4
<1>4. S \in P
  <2> HIDE DEF P
  <2>1. QED
    BY <1>1, <1>3, SubsetInduction
<1>5. SumFunctionOnSet(f, S) = h[S]
  BY SumIsFold DEF h
<1>6. QED
  BY <1>4, <1>5

LEMMA SumEmpty == ASSUME NEW f PROVE SumFunctionOnSet(f, {}) = 0
<1>1. IsFiniteSet({})
  BY FS_EmptySet
<1>2. PICK g : Adds(f, SUBSET {}, g)
  BY <1>1, FoldExists
<1>3. g[{}] = 0 /\ {} \in SUBSET {}
  BY <1>2 DEF Adds
<1>4. g[{}] = SumFunctionOnSet(f, {})
  BY <1>1, <1>2, <1>3, FoldAgrees
<1>5. QED
  BY <1>3, <1>4

LEMMA SumPicked ==
  ASSUME NEW f, NEW S, IsFiniteSet(S), S # {}
  PROVE  SumFunctionOnSet(f, S) = f[Picked(S)] + SumFunctionOnSet(f, S \ {Picked(S)})
<1>1. PICK g : Adds(f, SUBSET S, g)
  BY FoldExists
<1>2. g[S] = f[Picked(S)] + g[S \ {Picked(S)}]
  BY <1>1 DEF Adds
<1>3. \A T \in SUBSET S : g[T] = SumFunctionOnSet(f, T)
  BY <1>1, FoldAgrees
<1>4. g[S] = SumFunctionOnSet(f, S) /\ g[S \ {Picked(S)}] = SumFunctionOnSet(f, S \ {Picked(S)})
  BY <1>3
<1>5. QED
  BY <1>2, <1>4

LEMMA SumIsInt ==
  ASSUME NEW S, IsFiniteSet(S), NEW f, \A i \in S : f[i] \in Int
  PROVE  SumFunctionOnSet(f, S) \in Int
<1> DEFINE P == {T \in SUBSET S : SumFunctionOnSet(f, T) \in Int}
<1>1. ASSUME NEW T \in SUBSET S, \A x \in T : T \ {x} \in P PROVE T \in P
  <2>1. CASE T = {}
    BY <2>1, SumEmpty
  <2>2. CASE T # {}
    <3>1. IsFiniteSet(T) /\ Picked(T) \in T
      BY <2>2, FS_Subset, PickedIsIn
    <3>2. SumFunctionOnSet(f, T) = f[Picked(T)] + SumFunctionOnSet(f, T \ {Picked(T)})
      BY <2>2, <3>1, SumPicked
    <3>3. SumFunctionOnSet(f, T \ {Picked(T)}) \in Int /\ f[Picked(T)] \in Int
      BY <1>1, <3>1
    <3>4. QED
      BY <3>2, <3>3
  <2>3. QED
    BY <2>1, <2>2
<1>2. S \in P
  <2> HIDE DEF P
  <2>1. QED
    BY <1>1, SubsetInduction
<1>3. QED
  BY <1>2

(* The order does not matter: any element may be the first.                   *)
LEMMA SumRemove ==
  ASSUME NEW S, IsFiniteSet(S), NEW f, \A i \in S : f[i] \in Int, NEW x \in S
  PROVE  SumFunctionOnSet(f, S) = f[x] + SumFunctionOnSet(f, S \ {x})
<1> DEFINE Sum(T) == SumFunctionOnSet(f, T)
           P == {T \in SUBSET S : \A y \in T : Sum(T) = f[y] + Sum(T \ {y})}
<1>1. ASSUME NEW T \in SUBSET S, \A y \in T : T \ {y} \in P PROVE T \in P
  <2>1. ASSUME NEW y \in T PROVE Sum(T) = f[y] + Sum(T \ {y})
    <3> DEFINE p == Picked(T)
    <3>1. IsFiniteSet(T) /\ p \in T
      BY <2>1, FS_Subset, PickedIsIn
    <3>2. Sum(T) = f[p] + Sum(T \ {p})
      BY <2>1, <3>1, SumPicked
    <3> HIDE DEF p
    <3>3. CASE y = p
      BY <3>2, <3>3
    <3>4. CASE y # p
      <4>1. y \in T \ {p} /\ p \in T \ {y} /\ (T \ {p}) \ {y} = (T \ {y}) \ {p}
        BY <2>1, <3>1, <3>4
      <4>2. T \ {p} \in P /\ T \ {y} \in P
        BY <1>1, <2>1, <3>1
      <4>3. Sum(T \ {p}) = f[y] + Sum((T \ {p}) \ {y})
        BY <4>1, <4>2
      <4>4. Sum(T \ {y}) = f[p] + Sum((T \ {y}) \ {p})
        BY <4>1, <4>2
      <4>5. Sum((T \ {y}) \ {p}) \in Int
        <5>1. IsFiniteSet((T \ {y}) \ {p})
          BY <3>1, FS_Subset
        <5>2. QED
          BY <5>1, SumIsInt
      <4>6. f[y] \in Int /\ f[p] \in Int
        BY <2>1, <3>1
      <4>7. Sum((T \ {p}) \ {y}) = Sum((T \ {y}) \ {p})
        BY <4>1
      <4> DEFINE a == Sum(T)
                 b == Sum(T \ {p})
                 c == Sum(T \ {y})
                 d == Sum((T \ {y}) \ {p})
      <4>8. /\ a = f[p] + b /\ b = f[y] + d /\ c = f[p] + d
            /\ d \in Int /\ f[y] \in Int /\ f[p] \in Int
        BY <3>2, <4>3, <4>4, <4>5, <4>6, <4>7
      <4> HIDE DEF a, b, c, d
      <4>9. a = f[y] + c
        BY <4>8
      <4>10. QED
        BY <4>9 DEF a, c
    <3>5. QED
      BY <3>3, <3>4
  <2>2. QED
    BY <2>1
<1>2. S \in P
  <2> HIDE DEF P
  <2>1. QED
    BY <1>1, SubsetInduction
<1>3. QED
  BY <1>2

-----------------------------------------------------------------------------
(* Sums that are compared element by element.                                 *)
LEMMA SumSame ==
  ASSUME NEW S, IsFiniteSet(S), NEW f, NEW g, \A i \in S : f[i] = g[i] /\ f[i] \in Int
  PROVE  SumFunctionOnSet(f, S) = SumFunctionOnSet(g, S)
<1> DEFINE P == {T \in SUBSET S : SumFunctionOnSet(f, T) = SumFunctionOnSet(g, T)}
<1>1. ASSUME NEW T \in SUBSET S, \A x \in T : T \ {x} \in P PROVE T \in P
  <2>1. CASE T = {}
    BY <2>1, SumEmpty
  <2>2. CASE T # {}
    <3> DEFINE p == Picked(T)
    <3>1. IsFiniteSet(T) /\ p \in T
      BY <2>2, FS_Subset, PickedIsIn
    <3>2. /\ SumFunctionOnSet(f, T) = f[p] + SumFunctionOnSet(f, T \ {p})
          /\ SumFunctionOnSet(g, T) = g[p] + SumFunctionOnSet(g, T \ {p})
      BY <2>2, <3>1, SumPicked
    <3> HIDE DEF p
    <3>3. SumFunctionOnSet(f, T \ {p}) = SumFunctionOnSet(g, T \ {p}) /\ f[p] = g[p]
      BY <1>1, <3>1
    <3>4. QED
      BY <3>2, <3>3
  <2>3. QED
    BY <2>1, <2>2
<1>2. S \in P
  <2> HIDE DEF P
  <2>1. QED
    BY <1>1, SubsetInduction
<1>3. QED
  BY <1>2

LEMMA SumMonotone ==
  ASSUME NEW S, IsFiniteSet(S), NEW f, NEW g,
         \A i \in S : f[i] \in Int /\ g[i] \in Int /\ f[i] <= g[i]
  PROVE  SumFunctionOnSet(f, S) <= SumFunctionOnSet(g, S)
<1> DEFINE P == {T \in SUBSET S : SumFunctionOnSet(f, T) <= SumFunctionOnSet(g, T)}
<1>1. ASSUME NEW T \in SUBSET S, \A x \in T : T \ {x} \in P PROVE T \in P
  <2>1. CASE T = {}
    BY <2>1, SumEmpty
  <2>2. CASE T # {}
    <3> DEFINE p == Picked(T)
               a == SumFunctionOnSet(f, T \ {p})
               b == SumFunctionOnSet(g, T \ {p})
    <3>1. IsFiniteSet(T) /\ p \in T
      BY <2>2, FS_Subset, PickedIsIn
    <3>2. SumFunctionOnSet(f, T) = f[p] + a /\ SumFunctionOnSet(g, T) = g[p] + b
      BY <2>2, <3>1, SumPicked
    <3> HIDE DEF p
    <3>3. a <= b /\ f[p] <= g[p]
      BY <1>1, <3>1
    <3>4. IsFiniteSet(T \ {p})
      BY <3>1, FS_Subset
    <3>5. a \in Int /\ b \in Int /\ f[p] \in Int /\ g[p] \in Int
      BY <3>1, <3>4, SumIsInt
    <3> HIDE DEF a, b
    <3>6. QED
      BY <3>2, <3>3, <3>5
  <2>3. QED
    BY <2>1, <2>2
<1>2. S \in P
  <2> HIDE DEF P
  <2>1. QED
    BY <1>1, SubsetInduction
<1>3. QED
  BY <1>2

LEMMA SumOfTwo ==
  ASSUME NEW S, IsFiniteSet(S), NEW f, NEW g, NEW h,
         \A i \in S : f[i] \in Int /\ g[i] \in Int /\ h[i] = f[i] + g[i]
  PROVE  SumFunctionOnSet(h, S) = SumFunctionOnSet(f, S) + SumFunctionOnSet(g, S)
<1> DEFINE P == {T \in SUBSET S :
                   SumFunctionOnSet(h, T) = SumFunctionOnSet(f, T) + SumFunctionOnSet(g, T)}
<1>1. ASSUME NEW T \in SUBSET S, \A x \in T : T \ {x} \in P PROVE T \in P
  <2>1. CASE T = {}
    BY <2>1, SumEmpty
  <2>2. CASE T # {}
    <3> DEFINE p == Picked(T)
               a == SumFunctionOnSet(f, T \ {p})
               b == SumFunctionOnSet(g, T \ {p})
               c == SumFunctionOnSet(h, T \ {p})
    <3>1. IsFiniteSet(T) /\ p \in T
      BY <2>2, FS_Subset, PickedIsIn
    <3>2. /\ SumFunctionOnSet(f, T) = f[p] + a /\ SumFunctionOnSet(g, T) = g[p] + b
          /\ SumFunctionOnSet(h, T) = h[p] + c
      BY <2>2, <3>1, SumPicked
    <3> HIDE DEF p
    <3>3. c = a + b /\ h[p] = f[p] + g[p]
      BY <1>1, <3>1
    <3>4. IsFiniteSet(T \ {p})
      BY <3>1, FS_Subset
    <3>5. a \in Int /\ b \in Int /\ f[p] \in Int /\ g[p] \in Int
      BY <3>1, <3>4, SumIsInt
    <3> HIDE DEF a, b, c
    <3>6. QED
      BY <3>2, <3>3, <3>5
  <2>3. QED
    BY <2>1, <2>2
<1>2. S \in P
  <2> HIDE DEF P
  <2>1. QED
    BY <1>1, SubsetInduction
<1>3. QED
  BY <1>2

LEMMA SumScaled ==
  ASSUME NEW S, IsFiniteSet(S), NEW f, NEW g, NEW k \in Int,
         \A i \in S : f[i] \in Int /\ g[i] = k * f[i]
  PROVE  SumFunctionOnSet(g, S) = k * SumFunctionOnSet(f, S)
<1> DEFINE P == {T \in SUBSET S : SumFunctionOnSet(g, T) = k * SumFunctionOnSet(f, T)}
<1>1. ASSUME NEW T \in SUBSET S, \A x \in T : T \ {x} \in P PROVE T \in P
  <2>1. CASE T = {}
    BY <2>1, SumEmpty
  <2>2. CASE T # {}
    <3> DEFINE p == Picked(T)
               a == SumFunctionOnSet(f, T \ {p})
               b == SumFunctionOnSet(g, T \ {p})
    <3>1. IsFiniteSet(T) /\ p \in T
      BY <2>2, FS_Subset, PickedIsIn
    <3>2. SumFunctionOnSet(f, T) = f[p] + a /\ SumFunctionOnSet(g, T) = g[p] + b
      BY <2>2, <3>1, SumPicked
    <3> HIDE DEF p
    <3>3. b = k * a /\ g[p] = k * f[p]
      BY <1>1, <3>1
    <3>4. IsFiniteSet(T \ {p})
      BY <3>1, FS_Subset
    <3>5. a \in Int /\ f[p] \in Int
      BY <3>1, <3>4, SumIsInt
    <3> HIDE DEF a, b
    <3>6. k * (f[p] + a) = k * f[p] + k * a
      BY <3>5
    <3>7. QED
      BY <3>2, <3>3, <3>6
  <2>3. QED
    BY <2>1, <2>2
<1>2. S \in P
  <2> HIDE DEF P
  <2>1. QED
    BY <1>1, SubsetInduction
<1>3. QED
  BY <1>2

(* What adds nothing may be left out.                                         *)
LEMMA SumWithoutZeros ==
  ASSUME NEW S, IsFiniteSet(S), NEW f, NEW K \in SUBSET S,
         \A i \in S : f[i] \in Int, \A i \in S \ K : f[i] = 0
  PROVE  SumFunctionOnSet(f, S) = SumFunctionOnSet(f, K)
<1> DEFINE P == {T \in SUBSET S : SumFunctionOnSet(f, T) = SumFunctionOnSet(f, T \cap K)}
<1>1. ASSUME NEW T \in SUBSET S, \A x \in T : T \ {x} \in P PROVE T \in P
  <2>1. CASE T = {}
    <3>1. T \cap K = T
      BY <2>1
    <3>2. QED
      BY <3>1
  <2>2. CASE T # {}
    <3> DEFINE p == Picked(T)
               a == SumFunctionOnSet(f, T \ {p})
               b == SumFunctionOnSet(f, (T \ {p}) \cap K)
    <3>1. IsFiniteSet(T) /\ p \in T /\ IsFiniteSet(T \cap K)
      BY <2>2, FS_Subset, PickedIsIn
    <3>2. SumFunctionOnSet(f, T) = f[p] + a
      BY <2>2, <3>1, SumPicked
    <3> HIDE DEF p
    <3>3. a = b /\ f[p] \in Int
      BY <1>1, <3>1
    <3>4. IsFiniteSet(T \ {p})
      BY <3>1, FS_Subset
    <3>5. a \in Int
      BY <3>1, <3>4, SumIsInt
    <3>6. CASE p \in K
      <4>1. p \in T \cap K /\ (T \cap K) \ {p} = (T \ {p}) \cap K
        BY <3>1, <3>6
      <4>2. SumFunctionOnSet(f, T \cap K) = f[p] + SumFunctionOnSet(f, (T \cap K) \ {p})
        BY <3>1, <4>1, SumRemove
      <4>3. QED
        BY <3>2, <3>3, <4>1, <4>2
    <3>7. CASE p \notin K
      <4>1. (T \ {p}) \cap K = T \cap K /\ f[p] = 0
        BY <3>1, <3>7
      <4>2. f[p] + a = a
        <5> HIDE DEF a
        <5>1. QED
          BY <3>5, <4>1
      <4>3. QED
        BY <3>2, <3>3, <4>1, <4>2
    <3>8. QED
      BY <3>6, <3>7
  <2>3. QED
    BY <2>1, <2>2
<1>2. S \in P
  <2> HIDE DEF P
  <2>1. QED
    BY <1>1, SubsetInduction
<1>3. S \cap K = K
  OBVIOUS
<1>4. QED
  BY <1>2, <1>3

LEMMA SumIsNat ==
  ASSUME NEW S, IsFiniteSet(S), NEW f, \A i \in S : f[i] \in Nat
  PROVE  SumFunctionOnSet(f, S) \in Nat
<1> DEFINE zero == [i \in S |-> 0]
<1>1. SumFunctionOnSet(zero, S) = SumFunctionOnSet(zero, {})
  BY SumWithoutZeros
<1>2. SumFunctionOnSet(zero, S) <= SumFunctionOnSet(f, S)
  BY SumMonotone
<1>3. SumFunctionOnSet(f, S) \in Int /\ SumFunctionOnSet(zero, {}) = 0
  BY SumIsInt, SumEmpty
<1>4. QED
  BY <1>1, <1>2, <1>3

(* A sum over a larger set, of amounts that are no smaller.                   *)
LEMMA SumGrows ==
  ASSUME NEW S, IsFiniteSet(S), NEW K \in SUBSET S, NEW f, NEW g,
         \A i \in S : g[i] \in Nat, \A i \in K : f[i] \in Nat /\ f[i] <= g[i]
  PROVE  SumFunctionOnSet(f, K) <= SumFunctionOnSet(g, S)
<1> DEFINE h == [i \in S |-> IF i \in K THEN f[i] ELSE 0]
<1>1. IsFiniteSet(K)
  BY FS_Subset
<1>2. SumFunctionOnSet(h, S) = SumFunctionOnSet(h, K)
  BY SumWithoutZeros
<1>3. SumFunctionOnSet(h, K) = SumFunctionOnSet(f, K)
  BY <1>1, SumSame
<1>4. SumFunctionOnSet(h, S) <= SumFunctionOnSet(g, S)
  BY SumMonotone
<1>5. QED
  BY <1>2, <1>3, <1>4

(* Counting is adding ones.                                                   *)
LEMMA SumOfOnes ==
  ASSUME NEW S, IsFiniteSet(S), NEW f, \A i \in S : f[i] = 1
  PROVE  SumFunctionOnSet(f, S) = Cardinality(S)
<1> DEFINE P == {T \in SUBSET S : SumFunctionOnSet(f, T) = Cardinality(T)}
<1>1. ASSUME NEW T \in SUBSET S, \A x \in T : T \ {x} \in P PROVE T \in P
  <2>1. CASE T = {}
    BY <2>1, SumEmpty, FS_EmptySet
  <2>2. CASE T # {}
    <3> DEFINE p == Picked(T)
    <3>1. IsFiniteSet(T) /\ p \in T
      BY <2>2, FS_Subset, PickedIsIn
    <3>2. SumFunctionOnSet(f, T) = f[p] + SumFunctionOnSet(f, T \ {p})
      BY <2>2, <3>1, SumPicked
    <3> HIDE DEF p
    <3>3. SumFunctionOnSet(f, T \ {p}) = Cardinality(T \ {p}) /\ f[p] = 1
      BY <1>1, <3>1
    <3>4. Cardinality(T \ {p}) = Cardinality(T) - 1 /\ Cardinality(T) \in Nat
      BY <3>1, FS_RemoveElement, FS_CardinalityType
    <3>5. QED
      BY <3>2, <3>3, <3>4
  <2>3. QED
    BY <2>1, <2>2
<1>2. S \in P
  <2> HIDE DEF P
  <2>1. QED
    BY <1>1, SubsetInduction
<1>3. QED
  BY <1>2

-----------------------------------------------------------------------------
(* Ranking.  In a strict total order of a finite set, as many elements have   *)
(* fewer than n before them as n says: no two have the same place.  B[i] is   *)
(* what comes before i.                                                       *)
StrictOrder(D, B) ==
  /\ \A i \in D : B[i] \subseteq D
  /\ \A i \in D : i \notin B[i]
  /\ \A i, j, k \in D : i \in B[j] /\ j \in B[k] => i \in B[k]
  /\ \A i, j \in D : i = j \/ i \in B[j] \/ j \in B[i]

LEMMA PlacesDiffer ==
  ASSUME NEW D, IsFiniteSet(D), NEW B, StrictOrder(D, B), NEW i \in D
  PROVE  /\ Cardinality(B[i]) \in 0..(Cardinality(D) - 1)
         /\ \A j \in D : i \in B[j] =>
              Cardinality(B[i]) < Cardinality(B[j])
<1>1. IsFiniteSet(D \ {i}) /\ Cardinality(D \ {i}) = Cardinality(D) - 1
  BY FS_RemoveElement
<1>2. B[i] \in SUBSET (D \ {i})
  BY DEF StrictOrder
<1>3. IsFiniteSet(B[i]) /\ Cardinality(B[i]) <= Cardinality(D) - 1
  BY <1>1, <1>2, FS_Subset
<1>4. Cardinality(B[i]) \in Nat /\ Cardinality(D) \in Nat
  BY <1>3, FS_CardinalityType
<1>5. ASSUME NEW j \in D, i \in B[j]
      PROVE  Cardinality(B[i]) < Cardinality(B[j])
  <2>1. IsFiniteSet(B[j])
    BY FS_Subset DEF StrictOrder
  <2>2. i \in B[j] /\ i \notin B[i]
    BY <1>5 DEF StrictOrder
  <2>3. B[i] \in SUBSET (B[j] \ {i})
    BY <1>5, <2>2 DEF StrictOrder
  <2>4. /\ IsFiniteSet(B[j] \ {i})
        /\ Cardinality(B[j] \ {i}) = Cardinality(B[j]) - 1
    BY <2>1, <2>2, FS_RemoveElement
  <2>5. Cardinality(B[i]) <= Cardinality(B[j]) - 1
    BY <2>3, <2>4, FS_Subset
  <2>6. Cardinality(B[j]) \in Nat
    BY <2>1, FS_CardinalityType
  <2>7. QED
    BY <1>4, <2>5, <2>6
<1>6. QED
  BY <1>3, <1>4, <1>5

LEMMA AsManyAsPlaces ==
  ASSUME NEW D, IsFiniteSet(D), NEW B, StrictOrder(D, B), NEW n \in Nat, n <= Cardinality(D)
  PROVE  Cardinality({i \in D : Cardinality(B[i]) < n}) = n
<1> DEFINE N == Cardinality(D)
           place == [i \in D |-> Cardinality(B[i])]
           K == {i \in D : place[i] < n}
           first == [i \in K |-> place[i]]
<1>1. N \in Nat /\ Cardinality(0..(N - 1)) = N /\ IsFiniteSet(0..(N - 1))
  <2>1. N \in Nat
    BY FS_CardinalityType
  <2> HIDE DEF N
  <2>2. /\ IsFiniteSet(0..(N - 1))
        /\ Cardinality(0..(N - 1)) = IF 0 > N - 1 THEN 0 ELSE (N - 1) - 0 + 1
    BY <2>1, FS_Interval
  <2>3. QED
    BY <2>1, <2>2
<1>2. place \in [D -> 0..(N - 1)]
  BY PlacesDiffer
<1>3. \A i, j \in D : place[i] = place[j] => i = j
  <2>1. SUFFICES ASSUME NEW i \in D, NEW j \in D, place[i] = place[j], i # j PROVE FALSE
    OBVIOUS
  <2>2. i \in B[j] \/ j \in B[i]
    BY <2>1 DEF StrictOrder
  <2>3. place[i] < place[j] \/ place[j] < place[i]
    BY <2>2, PlacesDiffer
  <2>4. place[i] \in 0..(N - 1) /\ place[j] \in 0..(N - 1)
    BY <1>2
  <2> HIDE DEF place
  <2>5. QED
    BY <2>1, <2>3, <2>4
<1> HIDE DEF place, N
<1>4. place \in Injection(D, 0..(N - 1))
  BY <1>2, <1>3 DEF Injection, IsInjective
<1>5. place \in Surjection(D, 0..(N - 1))
  BY <1>1, <1>4, FS_Injection DEF N
<1>6. \A m \in 0..(N - 1) : \E i \in D : place[i] = m
  BY <1>5 DEF Surjection
<1>7. first \in Bijection(K, 0..(n - 1))
  <2>1. first \in [K -> 0..(n - 1)]
    <3>1. ASSUME NEW i \in K PROVE place[i] \in 0..(n - 1)
      <4>1. place[i] \in 0..(N - 1) /\ place[i] < n
        BY <1>2
      <4>2. QED
        BY <1>1, <4>1
    <3>2. QED
      BY <3>1
  <2>2. \A i, j \in K : first[i] = first[j] => i = j
    BY <1>3
  <2>3. ASSUME NEW m \in 0..(n - 1) PROVE \E i \in K : first[i] = m
    <3>1. m \in 0..(N - 1) /\ m < n
      BY <1>1 DEF N
    <3>2. PICK i \in D : place[i] = m
      BY <1>6, <3>1
    <3>3. QED
      BY <3>1, <3>2
  <2> HIDE DEF first, K
  <2>4. QED
    BY <2>1, <2>2, <2>3 DEF Bijection, Injection, Surjection, IsInjective
<1>8. IsFiniteSet(K) /\ ExistsBijection(K, 0..(n - 1))
  BY <1>7, FS_Subset DEF ExistsBijection
<1>9. Cardinality(0..(n - 1)) = Cardinality(K)
  <2> HIDE DEF K
  <2>1. QED
    BY <1>8, FS_Bijection
<1>10. Cardinality(0..(n - 1)) = n
  BY FS_Interval
<1>11. K = {i \in D : Cardinality(B[i]) < n}
  BY DEF place
<1>12. QED
  BY <1>9, <1>10, <1>11

-----------------------------------------------------------------------------
(* Discounts.  The floor of a share and what is left of it.                   *)
LEMMA DivisionParts ==
  ASSUME NEW a \in Nat, NEW b \in Nat \ {0}
  PROVE  a \div b \in Nat /\ a % b \in 0..(b - 1) /\ a = b * (a \div b) + (a % b)
OBVIOUS

LEMMA FloorsAndRemainders ==
  ASSUME NEW sub, \A i \in DOMAIN sub : sub[i] \in Nat, NEW total \in Nat \ {0},
         SumFunction(sub) = total, NEW d \in Nat, NEW i \in DOMAIN sub
  PROVE  /\ FloorShare(sub, d, i) \in Nat
         /\ Remainder(sub, d, i) \in 0..(total - 1)
         /\ sub[i] * d = total * FloorShare(sub, d, i) + Remainder(sub, d, i)
<1>1. sub[i] * d \in Nat
  OBVIOUS
<1>2. QED
  BY <1>1, DivisionParts DEF FloorShare, Remainder

(* The units that the floors leave are those of the remainders.               *)
LEMMA UnitsLeft ==
  ASSUME NEW sub, IsFiniteSet(DOMAIN sub), \A i \in DOMAIN sub : sub[i] \in Nat,
         NEW total \in Nat \ {0}, SumFunction(sub) = total, NEW d \in Nat
  PROVE  LET floors == [i \in DOMAIN sub |-> FloorShare(sub, d, i)]
             rests  == [i \in DOMAIN sub |-> Remainder(sub, d, i)]
             left   == d - SumFunction(floors)
         IN  /\ SumFunction(floors) \in Nat /\ left \in Nat
             /\ total * left = SumFunctionOnSet(rests, DOMAIN sub)
             /\ left <= Cardinality({i \in DOMAIN sub : rests[i] > 0})
             /\ left <= Cardinality(DOMAIN sub)
<1> DEFINE D == DOMAIN sub
           floors == [i \in D |-> FloorShare(sub, d, i)]
           rests  == [i \in D |-> Remainder(sub, d, i)]
           some   == {i \in D : rests[i] > 0}
           left   == d - SumFunction(floors)
           given  == [i \in D |-> total * floors[i]]
           dues   == [i \in D |-> d * sub[i]]
           most   == [i \in D |-> total]
           ones   == [i \in D |-> 1]
           F      == SumFunctionOnSet(floors, D)
           R      == SumFunctionOnSet(rests, D)
<1>1. \A i \in D : /\ floors[i] \in Nat /\ rests[i] \in 0..(total - 1)
                   /\ sub[i] * d = total * floors[i] + rests[i]
  BY FloorsAndRemainders
<1>2. F \in Nat /\ R \in Nat
  BY <1>1, SumIsNat
<1>3. SumFunctionOnSet(dues, D) = d * total
  <2>1. SumFunctionOnSet(sub, D) = total
    BY DEF SumFunction
  <2>2. IsFiniteSet(D) /\ d \in Int /\ \A i \in D : sub[i] \in Int /\ dues[i] = d * sub[i]
    OBVIOUS
  <2> HIDE DEF dues, D
  <2>3. SumFunctionOnSet(dues, D) = d * SumFunctionOnSet(sub, D)
    BY <2>2, SumScaled
  <2>4. QED
    BY <2>1, <2>3
<1>4. SumFunctionOnSet(given, D) = total * F
  <2>1. \A i \in D : floors[i] \in Int /\ given[i] = total * floors[i]
    BY <1>1
  <2> HIDE DEF floors, given
  <2>2. QED
    BY <2>1, SumScaled
<1>5. SumFunctionOnSet(dues, D) = SumFunctionOnSet(given, D) + R
  <2>1. \A i \in D : given[i] \in Int /\ rests[i] \in Int /\ dues[i] = given[i] + rests[i]
    <3>1. TAKE i \in D
    <3>2. floors[i] \in Nat /\ rests[i] \in Nat /\ sub[i] * d = total * floors[i] + rests[i]
      BY <1>1
    <3>3. sub[i] \in Nat /\ d * sub[i] = sub[i] * d
      OBVIOUS
    <3>4. given[i] = total * floors[i] /\ dues[i] = d * sub[i]
      OBVIOUS
    <3>5. given[i] \in Int
      BY <3>2, <3>4
    <3> HIDE DEF floors, rests, given, dues
    <3>6. QED
      BY <3>2, <3>3, <3>4, <3>5
  <2> HIDE DEF given, rests, dues
  <2>2. QED
    BY <2>1, SumOfTwo
<1>6. SumFunction(floors) = F
  BY DEF SumFunction
<1>7. total * left = R
  <2>1. d * total = total * F + R
    BY <1>3, <1>4, <1>5
  <2>2. left = d - F
    BY <1>6
  <2> HIDE DEF F, R, left
  <2>3. total * left = total * d - total * F
    BY <1>2, <2>2
  <2>4. QED
    BY <1>2, <2>1, <2>3
<1>8. left \in Int /\ left >= 0
  <2>1. left \in Int
    BY <1>2, <1>6
  <2> HIDE DEF left, R
  <2>2. CASE left <= -1
    <3>1. total * left <= total * (-1)
      BY <2>1, <2>2, TimesMonotone
    <3>2. total * (-1) < 0
      OBVIOUS
    <3>3. QED
      BY <1>2, <1>7, <2>1, <3>1, <3>2
  <2>3. QED
    BY <2>1, <2>2
<1>9. IsFiniteSet(some) /\ Cardinality(some) \in Nat /\ Cardinality(some) <= Cardinality(D)
  BY FS_Subset, FS_CardinalityType
<1>10. left <= Cardinality(some)
  <2>1. R = SumFunctionOnSet(rests, some)
    <3>1. \A i \in D : rests[i] \in Int
      BY <1>1
    <3>2. \A i \in D \ some : rests[i] = 0
      BY <1>1
    <3>3. some \in SUBSET D
      OBVIOUS
    <3> HIDE DEF rests, some
    <3>4. QED
      BY <3>1, <3>2, <3>3, SumWithoutZeros
  <2>2. SumFunctionOnSet(rests, some) <= SumFunctionOnSet(most, some)
    <3>1. \A i \in some : rests[i] \in Int /\ most[i] \in Int /\ rests[i] <= most[i]
      BY <1>1
    <3> HIDE DEF rests, some, most
    <3>2. QED
      BY <1>9, <3>1, SumMonotone
  <2>3. SumFunctionOnSet(most, some) = total * Cardinality(some)
    <3>1. \A i \in some : ones[i] = 1 /\ ones[i] \in Int /\ most[i] = total * ones[i]
      OBVIOUS
    <3> HIDE DEF ones, most, some
    <3>2. SumFunctionOnSet(ones, some) = Cardinality(some)
      BY <1>9, <3>1, SumOfOnes
    <3>3. QED
      BY <1>9, <3>1, <3>2, SumScaled
  <2>4. total * left <= total * Cardinality(some)
    BY <1>7, <2>1, <2>2, <2>3
  <2> DEFINE n == Cardinality(some)
  <2> HIDE DEF left, n
  <2>5. n \in Nat
    BY <1>9 DEF n
  <2>6. CASE n + 1 <= left
    <3>1. total * (n + 1) <= total * left
      BY <1>8, <2>5, <2>6, TimesMonotone
    <3>2. total * (n + 1) = total * n + total /\ total * n \in Nat
      BY <2>5
    <3>3. total * left <= total * n
      BY <2>4 DEF n
    <3>4. total * left \in Int
      BY <1>8
    <3>5. QED
      BY <3>1, <3>2, <3>3, <3>4
  <2>7. left <= n
    BY <1>8, <2>5, <2>6 DEF n
  <2>8. QED
    BY <2>7 DEF n
<1>11. left <= Cardinality(D)
  <2>1. Cardinality(D) \in Nat
    BY FS_CardinalityType
  <2> HIDE DEF left, D, some
  <2>2. QED
    BY <1>8, <1>9, <1>10, <2>1
<1>12. QED
  BY <1>2, <1>6, <1>7, <1>8, <1>10, <1>11

(* Who goes first is decided for any two lines: they have numbers.            *)
Firsts(sub, d) == [i \in DOMAIN sub |-> {j \in DOMAIN sub : GoesFirst(sub, d, j, i)}]

LEMMA LinesAreOrdered ==
  ASSUME NEW sub, DOMAIN sub \subseteq Nat, \A i \in DOMAIN sub : sub[i] \in Nat, NEW d,
         \A i \in DOMAIN sub : Remainder(sub, d, i) \in Nat
  PROVE  StrictOrder(DOMAIN sub, Firsts(sub, d))
<1> DEFINE B == Firsts(sub, d)
           D == DOMAIN sub
           r == [i \in D |-> Remainder(sub, d, i)]
<1>1. \A i \in D : B[i] = {j \in D : GoesFirst(sub, d, j, i)}
  BY DEF Firsts
<1>2. \A i, j \in D :
         i \in B[j] <=> (\/ r[i] > r[j]
                         \/ r[i] = r[j] /\ (sub[i] > sub[j] \/ (sub[i] = sub[j] /\ i < j)))
  BY <1>1 DEF GoesFirst
<1>3. \A i \in D : r[i] \in Nat /\ sub[i] \in Nat /\ i \in Nat
  OBVIOUS
<1>4. \A i \in D : B[i] \subseteq D
  BY <1>1
<1> HIDE DEF B, D, r
<1>5. \A i \in D : i \notin B[i]
  BY <1>2, <1>3
<1>6. \A i, j, k \in D : i \in B[j] /\ j \in B[k] => i \in B[k]
  BY <1>2, <1>3
<1>7. \A i, j \in D : i = j \/ i \in B[j] \/ j \in B[i]
  <2>1. TAKE i \in D, j \in D
  <2>2. /\ r[i] \in Nat /\ r[j] \in Nat /\ sub[i] \in Nat /\ sub[j] \in Nat
        /\ i \in Nat /\ j \in Nat
    BY <1>3
  <2>3. i \in B[j] <=> (\/ r[i] > r[j]
                        \/ r[i] = r[j] /\ (sub[i] > sub[j] \/ (sub[i] = sub[j] /\ i < j)))
    BY <1>2
  <2>4. j \in B[i] <=> (\/ r[j] > r[i]
                        \/ r[j] = r[i] /\ (sub[j] > sub[i] \/ (sub[j] = sub[i] /\ j < i)))
    BY <1>2
  <2>5. QED
    BY <2>2, <2>3, <2>4
<1>8. QED
  BY <1>4, <1>5, <1>6, <1>7 DEF StrictOrder, B, D

(* allocateDiscountProportionally is exact, for every list of lines and every *)
(* discount no larger than what they cost: the shares add up to the discount, *)
(* none is larger than its line, and none is a whole unit off its proportion. *)
THEOREM SharesAreExact ==
  ASSUME NEW sub, IsFiniteSet(DOMAIN sub), DOMAIN sub \subseteq Nat,
         \A i \in DOMAIN sub : sub[i] \in Nat,
         NEW d \in 1..SumFunction(sub)
  PROVE  LET share == Shares(sub, d)
             total == SumFunction(sub)
         IN  /\ SumFunction(share) = d
             /\ \A i \in DOMAIN sub :
                  /\ share[i] \in Nat /\ share[i] <= sub[i]
                  /\ share[i] * total < sub[i] * d + total
                  /\ sub[i] * d < share[i] * total + total
<1> DEFINE D      == DOMAIN sub
           total  == SumFunction(sub)
           floors == [i \in D |-> FloorShare(sub, d, i)]
           rests  == [i \in D |-> Remainder(sub, d, i)]
           some   == {i \in D : rests[i] > 0}
           left   == d - SumFunction(floors)
           B      == Firsts(sub, d)
           place(i) == Cardinality(B[i])
           extra  == [i \in D |-> IF place(i) < left THEN 1 ELSE 0]
           more   == {i \in D : place(i) < left}
           share  == Shares(sub, d)
<1>1. total \in Nat \ {0} /\ d \in Nat \ {0} /\ d <= total
  <2>1. SumFunction(sub) \in Nat
    BY SumIsNat DEF SumFunction
  <2>2. QED
    BY <2>1
<1>2. \A i \in D : /\ floors[i] \in Nat /\ rests[i] \in 0..(total - 1)
                   /\ sub[i] * d = total * floors[i] + rests[i]
  BY <1>1, FloorsAndRemainders
<1>3. /\ SumFunction(floors) \in Nat /\ left \in Nat
      /\ left <= Cardinality(some) /\ left <= Cardinality(D)
  BY <1>1, UnitsLeft
<1>4. StrictOrder(D, B) /\ \A i \in D : B[i] = {j \in D : GoesFirst(sub, d, j, i)}
  <2>1. \A i \in D : Remainder(sub, d, i) \in Nat
    BY <1>2
  <2>2. QED
    BY <2>1, LinesAreOrdered DEF Firsts
<1>5. share = [i \in D |-> floors[i] + extra[i]]
  <2>1. d # 0
    BY <1>1
  <2>2. QED
    BY <1>4, <2>1 DEF Shares
<1>6. Cardinality(more) = left
  BY <1>3, <1>4, AsManyAsPlaces
<1>7. SumFunctionOnSet(extra, D) = left
  <2>1. more \in SUBSET D /\ IsFiniteSet(more)
    BY FS_Subset
  <2>2. (\A i \in more : extra[i] = 1) /\ (\A i \in D \ more : extra[i] = 0)
        /\ \A i \in D : extra[i] \in Int
    OBVIOUS
  <2> HIDE DEF extra, more
  <2>3. SumFunctionOnSet(extra, D) = SumFunctionOnSet(extra, more)
    BY <2>1, <2>2, SumWithoutZeros
  <2>4. SumFunctionOnSet(extra, more) = Cardinality(more)
    BY <2>1, <2>2, SumOfOnes
  <2>5. QED
    BY <1>6, <2>3, <2>4
<1>8. SumFunction(share) = d
  <2>1. SumFunction(share) = SumFunctionOnSet(share, D)
    BY <1>5 DEF SumFunction
  <2>2. SumFunctionOnSet(share, D) = SumFunctionOnSet(floors, D) + SumFunctionOnSet(extra, D)
    <3>1. \A i \in D : floors[i] \in Int /\ extra[i] \in Int /\ share[i] = floors[i] + extra[i]
      BY <1>2, <1>5
    <3> HIDE DEF floors, extra, share, D
    <3>2. QED
      BY <3>1, SumOfTwo DEF D
  <2>3. SumFunctionOnSet(floors, D) = SumFunction(floors)
    BY DEF SumFunction
  <2> DEFINE F == SumFunction(floors)
  <2>4. F \in Nat /\ left = d - F
    BY <1>3
  <2> HIDE DEF share, floors, left, F
  <2>5. F + left = d
    BY <1>1, <2>4
  <2>6. QED
    BY <1>7, <2>1, <2>2, <2>3, <2>5 DEF F
<1>9. ASSUME NEW i \in D, place(i) < left PROVE rests[i] > 0
  <2>1. SUFFICES ASSUME ~(rests[i] > 0) PROVE FALSE
    OBVIOUS
  <2>2. rests[i] = 0
    BY <1>2, <1>9, <2>1
  <2>3. some \in SUBSET B[i]
    <3>1. ASSUME NEW j \in some PROVE GoesFirst(sub, d, j, i)
      <4>1. Remainder(sub, d, j) > Remainder(sub, d, i)
        BY <1>9, <2>2, <3>1
      <4>2. QED
        BY <4>1 DEF GoesFirst
    <3>2. QED
      BY <1>4, <1>9, <3>1
  <2>4. IsFiniteSet(B[i])
    BY <1>4, FS_Subset
  <2>5. Cardinality(some) <= place(i) /\ place(i) \in Nat /\ Cardinality(some) \in Nat
    <3>1. Cardinality(some) <= place(i) /\ IsFiniteSet(some)
      BY <2>3, <2>4, FS_Subset
    <3>2. QED
      BY <2>4, <3>1, FS_CardinalityType
  <2> DEFINE n == Cardinality(some)
             m == place(i)
  <2>6. n \in Nat /\ m \in Nat /\ n <= m /\ m < left /\ left <= n /\ left \in Nat
    BY <1>3, <1>9, <2>5
  <2> HIDE DEF n, m, left
  <2>7. QED
    BY <2>6
<1>10. ASSUME NEW i \in D
       PROVE  /\ share[i] \in Nat /\ share[i] <= sub[i]
              /\ share[i] * total < sub[i] * d + total
              /\ sub[i] * d < share[i] * total + total
  <2> DEFINE f == floors[i]
             r == rests[i]
             e == extra[i]
             s == share[i]
             T == total
             b == sub[i]
  <2>1. /\ s = f + e /\ f \in Nat /\ r \in Nat /\ r < T /\ b * d = T * f + r
        /\ e \in {0, 1} /\ (e = 1 => r > 0)
        /\ T \in Nat \ {0} /\ b \in Nat /\ d \in Nat /\ d <= T
    BY <1>1, <1>2, <1>5, <1>9, <1>10
  <2> HIDE DEF f, r, e, s, T, b
  <2>2. s * T = T * f + T * e /\ T * e \in {0, T}
    BY <2>1
  <2>3. b * d <= T * b
    <3>1. b * d <= b * T
      BY <2>1, TimesMonotone
    <3>2. QED
      BY <2>1, <3>1
  <2>4. s * T < b * d + T /\ b * d < s * T + T
    <3>1. CASE e = 0
      BY <2>1, <2>2, <3>1
    <3>2. CASE e = 1
      <4>1. T * e = T
        BY <2>1, <3>2
      <4>2. T * f \in Nat /\ b * d \in Nat /\ s * T \in Nat
        BY <2>1
      <4>3. QED
        BY <2>1, <2>2, <3>2, <4>1, <4>2
    <3>3. QED
      BY <2>1, <3>1, <3>2
  <2>5. s <= b
    <3>1. SUFFICES ASSUME b + 1 <= s PROVE FALSE
      BY <2>1
    <3>2. T * (b + 1) <= T * s
      BY <2>1, <3>1, TimesMonotone
    <3>3. T * (b + 1) = T * b + T /\ T * s = s * T /\ T * b \in Nat /\ s * T \in Nat
          /\ b * d \in Nat
      BY <2>1
    <3>4. QED
      BY <2>1, <2>3, <2>4, <3>2, <3>3
  <2>6. s \in Nat
    BY <2>1
  <2>7. QED
    BY <2>4, <2>5, <2>6 DEF s, T, b
<1>11. QED
  BY <1>8, <1>10

(* So what is checked behind it never fails: only the discount that exceeds   *)
(* the bill is refused (allocateDiscountProportionally, its last errors).     *)
THEOREM AllowedSharesFit ==
  ASSUME NEW sub, IsFiniteSet(DOMAIN sub), DOMAIN sub \subseteq Nat,
         \A i \in DOMAIN sub : sub[i] \in Nat,
         NEW d \in 0..SumFunction(sub)
  PROVE  SharesFit(sub, d) /\ SumFunction(Shares(sub, d)) = d
<1>1. CASE d = 0
  <2>1. Shares(sub, d) = [i \in DOMAIN sub |-> 0]
    BY <1>1 DEF Shares
  <2>2. SumFunction(Shares(sub, d)) = SumFunctionOnSet([i \in DOMAIN sub |-> 0], DOMAIN sub)
    BY <2>1 DEF SumFunction
  <2>3. SumFunctionOnSet([i \in DOMAIN sub |-> 0], DOMAIN sub)
          = SumFunctionOnSet([i \in DOMAIN sub |-> 0], {})
    BY SumWithoutZeros
  <2>4. QED
    BY <1>1, <2>1, <2>2, <2>3, SumEmpty DEF SharesFit
<1>2. CASE d # 0
  <2>1. SumFunction(sub) \in Nat
    BY SumIsNat DEF SumFunction
  <2>2. d \in 1..SumFunction(sub)
    BY <1>2, <2>1
  <2>3. QED
    BY <2>2, SharesAreExact DEF SharesFit
<1>3. QED
  BY <1>1, <1>2

-----------------------------------------------------------------------------
(* The two parts of a tax are amounts that make up the whole ("cgstMinor +    *)
(* sgstMinor + igstMinor === totalTaxMinor", taxService) and differ by a unit *)
(* at most.                                                                   *)
THEOREM TaxPartsMakeTax ==
  ASSUME NEW tax \in Nat
  PROVE  /\ Cgst(tax) \in Nat /\ Sgst(tax) \in Nat
         /\ Cgst(tax) + Sgst(tax) = tax
         /\ Cgst(tax) - Sgst(tax) \in {0, 1}
BY DEF Cgst, Sgst, HalfUp

(* A tax is an amount; one found inside a price is no larger than it.         *)
LEMMA TaxIsAmount ==
  ASSUME NEW net \in Nat, NEW rate \in 0..100, NEW inclusive \in BOOLEAN
  PROVE  /\ TaxOf(net, rate, inclusive) \in Nat
         /\ inclusive => TaxOf(net, rate, inclusive) <= net
<1>1. CASE inclusive
  <2>1. net * 100 \in Nat /\ 100 + rate \in Nat \ {0} /\ net * 100 <= (100 + rate) * net
    OBVIOUS
  <2>2. HalfUp(net * 100, 100 + rate) \in Nat /\ HalfUp(net * 100, 100 + rate) <= net
    BY <2>1, HalfUpIsNearest, HalfUpAtMost
  <2>3. QED
    BY <1>1, <2>2 DEF TaxOf
<1>2. CASE ~inclusive
  <2>1. net * rate \in Nat /\ 100 \in Nat \ {0}
    OBVIOUS
  <2>2. HalfUp(net * rate, 100) \in Nat
    BY <2>1, HalfUpIsNearest
  <2>3. QED
    BY <1>2, <2>2 DEF TaxOf
<1>3. QED
  BY <1>1, <1>2

-----------------------------------------------------------------------------
(* Lines.  One is priced when it is the price of its quantity with a discount *)
(* no larger than what it costs; an empty one is the price of nothing.        *)
IsPriced(i, l) ==
  \E qty \in Nat, price \in Nat : \E disc \in 0..(qty * price) :
     l = PricedLine(TaxedAs(i), qty, price, disc)

LEMMA RatesAreRates ==
  ASSUME NEW i \in Items
  PROVE  /\ TaxedAs(i).rate = ItemRate[i] /\ ItemRate[i] \in 0..100
         /\ TaxedAs(i).inclusive = (i \in TaxInside)
         /\ TaxedAs(i).inclusive \in BOOLEAN
BY MenuIsPriced DEF TaxedAs

(* What a line says: the fields of its price.                                 *)
LEMMA LineFields ==
  ASSUME NEW i \in Items, NEW qty \in Nat, NEW price \in Nat, NEW disc \in 0..(qty * price)
  PROVE  LET l   == PricedLine(TaxedAs(i), qty, price, disc)
             net == qty * price - disc
         IN  /\ l.qty = qty /\ l.price = price /\ l.disc = disc
             /\ l.sub = qty * price /\ l.sub \in Nat
             /\ net \in Nat
             /\ l.tax = TaxOf(net, ItemRate[i], i \in TaxInside) /\ l.tax \in Nat
             /\ l.total = IF i \in TaxInside THEN net ELSE net + l.tax
             /\ l.tax <= l.total /\ l.total \in Nat
<1> DEFINE l   == PricedLine(TaxedAs(i), qty, price, disc)
           net == qty * price - disc
<1>1. qty * price \in Nat /\ net \in Nat
  OBVIOUS
<1>2. /\ l.qty = qty /\ l.price = price /\ l.disc = disc /\ l.sub = qty * price
      /\ l.tax = TaxOf(net, TaxedAs(i).rate, TaxedAs(i).inclusive)
      /\ l.total = IF TaxedAs(i).inclusive THEN net ELSE net + l.tax
  BY DEF PricedLine
<1>3. l.tax = TaxOf(net, ItemRate[i], i \in TaxInside)
  BY <1>2, RatesAreRates
<1>4. l.total = IF i \in TaxInside THEN net ELSE net + l.tax
  BY <1>2, RatesAreRates
<1>5. /\ TaxOf(net, ItemRate[i], i \in TaxInside) \in Nat
      /\ i \in TaxInside => TaxOf(net, ItemRate[i], i \in TaxInside) <= net
  <2>1. (i \in TaxInside) \in BOOLEAN /\ ItemRate[i] \in 0..100
    BY RatesAreRates
  <2>2. QED
    BY <1>1, <2>1, TaxIsAmount
<1> HIDE DEF l, net
<1>6. l.tax <= l.total /\ l.total \in Nat
  BY <1>1, <1>3, <1>4, <1>5
<1>7. QED
  BY <1>1, <1>2, <1>3, <1>4, <1>5, <1>6 DEF l, net

LEMMA EmptyLineIsPriced ==
  ASSUME NEW i \in Items, NEW price \in Nat
  PROVE  EmptyLine(price) = PricedLine(TaxedAs(i), 0, price, 0)
<1>1. 0 * price = 0 /\ 0 - 0 = 0
  OBVIOUS
<1>2. \A d \in Nat \ {0} : HalfUp(0, d) = 0
  <2>1. TAKE d \in Nat \ {0}
  <2>2. HalfUp(0, d) \in Nat /\ HalfUp(0, d) <= 0
    BY HalfUpIsNearest, HalfUpAtMost
  <2>3. QED
    BY <2>2
<1>3. TaxOf(0, TaxedAs(i).rate, TaxedAs(i).inclusive) = 0
  <2>1. TaxedAs(i).rate \in 0..100
    BY RatesAreRates
  <2>2. 100 \in Nat \ {0} /\ 100 + TaxedAs(i).rate \in Nat \ {0}
    BY <2>1
  <2>3. 0 * TaxedAs(i).rate = 0 /\ 0 * 100 = 0
    BY <2>1
  <2>4. QED
    BY <1>2, <2>2, <2>3 DEF TaxOf
<1>4. QED
  BY <1>1, <1>3 DEF EmptyLine, PricedLine

(* What is true of every line that is priced; one of nothing is all zeros.    *)
LEMMA LineFacts ==
  ASSUME NEW i \in Items, NEW l, IsPriced(i, l)
  PROVE  /\ l.qty \in Nat /\ l.price \in Nat /\ l.disc \in Nat
         /\ l.sub \in Nat /\ l.tax \in Nat /\ l.total \in Nat
         /\ l.disc <= l.sub /\ l.sub = l.qty * l.price
         /\ l.total = l.sub - l.disc + (IF i \in TaxInside THEN 0 ELSE l.tax)
         /\ l.tax <= l.total
         /\ Cgst(l.tax) \in Nat /\ Sgst(l.tax) \in Nat /\ Cgst(l.tax) + Sgst(l.tax) = l.tax
         /\ l = PricedLine(TaxedAs(i), l.qty, l.price, l.disc)
         /\ l.qty = 0 => /\ l.sub = 0 /\ l.disc = 0 /\ l.tax = 0 /\ l.total = 0
                         /\ Cgst(l.tax) = 0 /\ Sgst(l.tax) = 0
<1>1. PICK qty \in Nat, price \in Nat : \E d \in 0..(qty * price) :
             l = PricedLine(TaxedAs(i), qty, price, d)
  BY DEF IsPriced
<1>2. PICK disc \in 0..(qty * price) : l = PricedLine(TaxedAs(i), qty, price, disc)
  BY <1>1
<1>3. /\ l.qty = qty /\ l.price = price /\ l.disc = disc /\ l.sub = qty * price
      /\ qty * price - disc \in Nat /\ l.sub \in Nat /\ l.tax \in Nat /\ l.total \in Nat
      /\ l.total = IF i \in TaxInside THEN qty * price - disc
                   ELSE qty * price - disc + l.tax
      /\ l.tax <= l.total
  BY <1>2, LineFields
<1>4. Cgst(l.tax) \in Nat /\ Sgst(l.tax) \in Nat /\ Cgst(l.tax) + Sgst(l.tax) = l.tax
  BY <1>3, TaxPartsMakeTax
<1>5. l = PricedLine(TaxedAs(i), l.qty, l.price, l.disc)
  BY <1>2, <1>3
<1>6. l.disc \in Nat /\ l.disc <= l.sub
  BY <1>3
<1>7. l.total = l.sub - l.disc + (IF i \in TaxInside THEN 0 ELSE l.tax)
  BY <1>3
<1>8. ASSUME l.qty = 0
      PROVE  /\ l.sub = 0 /\ l.disc = 0 /\ l.tax = 0 /\ l.total = 0
             /\ Cgst(l.tax) = 0 /\ Sgst(l.tax) = 0
  <2>1. l.sub = 0 /\ l.disc = 0
    BY <1>3, <1>8
  <2>2. l = EmptyLine(l.price)
    BY <1>3, <1>5, <1>8, <2>1, EmptyLineIsPriced
  <2>3. l.tax = 0 /\ l.total = 0
    BY <2>2 DEF EmptyLine
  <2>4. QED
    BY <1>4, <2>1, <2>3
<1>9. QED
  BY <1>3, <1>4, <1>5, <1>6, <1>7, <1>8

-----------------------------------------------------------------------------
(* The lines of a submission.                                                 *)
LEMMA NewLinesArePriced ==
  ASSUME NEW want, NEW spec, CanPrice(want, spec), DOMAIN want \subseteq Items,
         \A i \in DOMAIN want : want[i].qty \in Nat /\ want[i].price \in Nat
  PROVE  /\ DOMAIN PricedLines(want, spec) = DOMAIN want
         /\ \A i \in DOMAIN want :
              /\ IsPriced(i, PricedLines(want, spec)[i])
              /\ PricedLines(want, spec)[i].qty = want[i].qty
<1> DEFINE sub    == Subtotals(want)
           shares == Shares(sub, AmountOf(spec, SumFunction(sub)))
<1>1. DOMAIN PricedLines(want, spec) = DOMAIN want
  BY DEF PricedLines
<1>2. ASSUME NEW i \in DOMAIN want
      PROVE  /\ IsPriced(i, PricedLines(want, spec)[i])
             /\ PricedLines(want, spec)[i].qty = want[i].qty
  <2>1. /\ DOMAIN sub = DOMAIN want
        /\ sub[i] = want[i].qty * want[i].price
    BY <1>2 DEF Subtotals
  <2>2. shares[i] \in 0..(want[i].qty * want[i].price)
    BY <1>2, <2>1 DEF CanPrice, SharesFit
  <2>3. PricedLines(want, spec)[i]
          = PricedLine(TaxedAs(i), want[i].qty, want[i].price, shares[i])
    BY <1>2 DEF PricedLines
  <2> HIDE DEF shares, sub
  <2>4. IsPriced(i, PricedLines(want, spec)[i])
    BY <2>2, <2>3 DEF IsPriced
  <2>5. PricedLines(want, spec)[i].qty = want[i].qty
    BY <2>3 DEF PricedLine
  <2>6. QED
    BY <2>4, <2>5
<1>3. QED
  BY <1>1, <1>2

-----------------------------------------------------------------------------
(* Cancelling.  The discount a line keeps fits what is left of it: the price  *)
(* of the rest is one calculateDiscount does not refuse, which is why         *)
(* CancelItems has no such guard.                                             *)
THEOREM KeptDiscountFits ==
  ASSUME NEW l, l.qty \in Nat \ {0}, l.price \in Nat, l.disc \in 0..(l.qty * l.price),
         NEW left \in 1..l.qty
  PROVE  KeptDiscount(l, left) \in 0..(left * l.price)
<1>1. l.disc \in Nat /\ left \in Nat /\ l.disc <= l.qty * l.price
  OBVIOUS
<1>2. l.disc * left \in Nat /\ left * l.price \in Nat
  BY <1>1
<1>3. l.disc * left <= l.qty * (left * l.price)
  <2>1. left * l.disc <= left * (l.qty * l.price)
    BY <1>1, TimesMonotone
  <2>2. left * (l.qty * l.price) = l.qty * (left * l.price) /\ left * l.disc = l.disc * left
    BY <1>1
  <2>3. QED
    BY <2>1, <2>2
<1>4. /\ HalfUp(l.disc * left, l.qty) \in Nat
      /\ HalfUp(l.disc * left, l.qty) <= left * l.price
  BY <1>2, <1>3, HalfUpIsNearest, HalfUpAtMost
<1>5. QED
  BY <1>2, <1>4 DEF KeptDiscount

(* The net amount of what is left is no larger than that of the whole.        *)
LEMMA NetShrinks ==
  ASSUME NEW l, l.qty \in Nat \ {0}, l.price \in Nat, l.disc \in 0..(l.qty * l.price),
         NEW left \in 1..l.qty
  PROVE  left * l.price - KeptDiscount(l, left) <= l.qty * l.price - l.disc
<1> DEFINE gone == l.qty - left
           most == l.disc - gone * l.price
<1>1. l.disc \in Nat /\ left \in Nat /\ gone \in Nat /\ l.disc <= l.qty * l.price
  OBVIOUS
<1>2. l.disc * left \in Nat /\ most \in Int
  BY <1>1
<1>3. l.qty * most <= l.disc * left
  <2>1. gone * l.disc <= gone * (l.qty * l.price)
    BY <1>1, TimesMonotone
  <2>2. l.qty * most = l.qty * l.disc - l.qty * (gone * l.price)
    BY <1>1
  <2>3. l.qty * (gone * l.price) = gone * (l.qty * l.price)
    BY <1>1
  <2>4. l.qty * l.disc = gone * l.disc + l.disc * left
    BY <1>1
  <2>5. QED
    BY <1>1, <1>2, <2>1, <2>2, <2>3, <2>4
<1>4. most <= KeptDiscount(l, left) /\ KeptDiscount(l, left) \in Nat
  BY <1>2, <1>3, HalfUpAtLeast, HalfUpIsNearest DEF KeptDiscount
<1>5. l.qty * l.price = left * l.price + gone * l.price
  BY <1>1
<1>6. gone * l.price \in Nat /\ left * l.price \in Nat
  BY <1>1
<1>7. QED
  BY <1>1, <1>4, <1>5, <1>6

LEMMA TaxMonotone ==
  ASSUME NEW m \in Nat, NEW n \in Nat, m <= n, NEW rate \in 0..100
  PROVE  TaxOf(m, rate, FALSE) <= TaxOf(n, rate, FALSE)
<1>1. rate * m <= rate * n
  BY TimesMonotone
<1>2. m * rate \in Nat /\ n * rate \in Nat /\ m * rate <= n * rate
  BY <1>1
<1>3. HalfUp(m * rate, 100) <= HalfUp(n * rate, 100)
  BY <1>2, HalfUpMonotone
<1>4. QED
  BY <1>3 DEF TaxOf

LEMMA CutLineIsPriced ==
  ASSUME NEW i \in Items, NEW l, IsPriced(i, l), NEW n \in Nat, n <= l.qty
  PROVE  IsPriced(i, CutLine(i, l, n)) /\ CutLine(i, l, n).total <= l.total
<1>1. PICK qty \in Nat, price \in Nat : \E d \in 0..(qty * price) :
              l = PricedLine(TaxedAs(i), qty, price, d)
  BY DEF IsPriced
<1>2. PICK disc \in 0..(qty * price) : l = PricedLine(TaxedAs(i), qty, price, disc)
  BY <1>1
<1> DEFINE net  == qty * price - disc
           left == qty - n
<1>3. /\ l.qty = qty /\ l.price = price /\ l.disc = disc /\ net \in Nat
      /\ l.tax = TaxOf(net, ItemRate[i], i \in TaxInside) /\ l.tax \in Nat
      /\ l.total = (IF i \in TaxInside THEN net ELSE net + l.tax) /\ l.total \in Nat
  BY <1>2, LineFields
<1>4. left \in 0..qty
  BY <1>3
<1>5. CASE left = 0
  <2>1. CutLine(i, l, n) = EmptyLine(price)
    BY <1>3, <1>5 DEF CutLine
  <2>2. 0 \in 0..(0 * price) /\ 0 \in Nat
    OBVIOUS
  <2>3. IsPriced(i, EmptyLine(price))
    BY <2>2, EmptyLineIsPriced DEF IsPriced
  <2>4. EmptyLine(price).total = 0
    BY DEF EmptyLine
  <2>5. QED
    BY <1>3, <2>1, <2>3, <2>4
<1>6. CASE left # 0
  <2> DEFINE kept == KeptDiscount(l, left)
             rest == left * price - kept
             new  == PricedLine(TaxedAs(i), left, price, kept)
  <2>1. left \in 1..qty /\ qty \in Nat \ {0} /\ left \in Nat
    BY <1>4, <1>6
  <2>2. CutLine(i, l, n) = new
    BY <1>3, <1>6 DEF CutLine
  <2>3. kept \in 0..(left * price)
    BY <1>3, <2>1, KeptDiscountFits
  <2>4. IsPriced(i, new)
    BY <2>1, <2>3 DEF IsPriced
  <2>5. rest <= net
    BY <1>3, <2>1, NetShrinks
  <2> HIDE DEF kept
  <2>6. /\ rest \in Nat
        /\ new.tax = TaxOf(rest, ItemRate[i], i \in TaxInside) /\ new.tax \in Nat
        /\ new.total = IF i \in TaxInside THEN rest ELSE rest + new.tax
    BY <2>1, <2>3, LineFields
  <2>7. i \notin TaxInside => new.tax <= l.tax
    <3>1. SUFFICES ASSUME i \notin TaxInside PROVE new.tax <= l.tax
      OBVIOUS
    <3>2. (i \in TaxInside) = FALSE /\ ItemRate[i] \in 0..100
      BY <3>1, RatesAreRates
    <3>3. TaxOf(rest, ItemRate[i], FALSE) <= TaxOf(net, ItemRate[i], FALSE)
      BY <1>3, <2>5, <2>6, <3>2, TaxMonotone
    <3>4. QED
      BY <1>3, <2>6, <3>2, <3>3
  <2> HIDE DEF new, rest, net
  <2>8. new.total <= l.total
    BY <1>3, <2>5, <2>6, <2>7
  <2>9. QED
    BY <2>2, <2>4, <2>8
<1>7. QED
  BY <1>5, <1>6

-----------------------------------------------------------------------------
(* The inductive invariant: menu prices are amounts, and every line of every  *)
(* bill is priced.                                                            *)
MenuOK == menu \in [Items -> Nat]

LinesPriced ==
  /\ lines = [o \in Orders |-> lines[o]]
  /\ \A o \in Orders :
       DOMAIN lines[o] \subseteq Items /\ \A i \in DOMAIN lines[o] : IsPriced(i, lines[o][i])

BillsInv == MenuOK /\ LinesPriced

LEMMA InvInitially == BillsInit => BillsInv
<1> SUFFICES ASSUME BillsInit PROVE BillsInv
  OBVIOUS
<1>1. MenuOK
  BY MenuIsPriced DEF BillsInit, MenuOK
<1>2. lines = [o \in Orders |-> NoLines]
  BY DEF BillsInit
<1>3. DOMAIN NoLines = {}
  BY DEF NoLines
<1>4. LinesPriced
  BY <1>2, <1>3 DEF LinesPriced
<1>5. QED
  BY <1>1, <1>4 DEF BillsInv

LEMMA CartsAreCarts ==
  ASSUME NEW cart \in Carts
  PROVE  DOMAIN cart \subseteq Items /\ \A i \in DOMAIN cart : cart[i] \in Nat \ {0}
<1>1. PICK want \in SUBSET Items \ {{}} : cart \in [want -> 1..MaxQty]
  BY DEF Carts
<1>2. QED
  BY <1>1, MenuIsPriced

(* The order that is written gets priced lines; the others keep theirs.       *)
LEMMA WrittenLines ==
  ASSUME LinesPriced, NEW o \in Orders, NEW new, lines' = [lines EXCEPT ![o] = new],
         DOMAIN new \subseteq Items, \A i \in DOMAIN new : IsPriced(i, new[i])
  PROVE  LinesPriced'
<1>1. lines' = [q \in Orders |-> IF q = o THEN new ELSE lines[q]]
  BY DEF LinesPriced
<1>2. ASSUME NEW q \in Orders
      PROVE  /\ DOMAIN lines'[q] \subseteq Items
             /\ \A i \in DOMAIN lines'[q] : IsPriced(i, lines'[q][i])
  <2>1. CASE q = o
    BY <1>1, <2>1
  <2>2. CASE q # o
    BY <1>1, <1>2, <2>2 DEF LinesPriced
  <2>3. QED
    BY <2>1, <2>2
<1>3. QED
  BY <1>1, <1>2 DEF LinesPriced

-----------------------------------------------------------------------------
(* One lemma per operation.  Cheaper(o): no line of o that lost quantity got   *)
(* dearer.                                                                    *)
Cheaper(o) ==
  \A i \in DOMAIN lines[o] :
     lines'[o][i].qty < lines[o][i].qty => lines'[o][i].total <= lines[o][i].total

LEMMA LineIsNumbers ==
  ASSUME NEW i \in Items, NEW l, IsPriced(i, l)
  PROVE  l.qty \in Nat /\ l.price \in Nat /\ l.total \in Nat
BY LineFields DEF IsPriced

(* The lines of a bill to which items were added.                             *)
LEMMA MergedIsMore ==
  ASSUME BillsInv, NEW o \in Orders, NEW cart \in Carts
  PROVE  LET want == Merged(lines[o], cart) IN
         /\ DOMAIN lines[o] \subseteq DOMAIN want /\ DOMAIN want \subseteq Items
         /\ \A i \in DOMAIN want : want[i].qty \in Nat /\ want[i].price \in Nat
         /\ \A i \in DOMAIN lines[o] :
              lines[o][i].qty <= want[i].qty /\ want[i].price = lines[o][i].price
<1> DEFINE old  == lines[o]
           want == Merged(old, cart)
<1>1. /\ DOMAIN old \subseteq Items
      /\ \A i \in DOMAIN old : old[i].qty \in Nat /\ old[i].price \in Nat
  BY LineIsNumbers DEF BillsInv, LinesPriced
<1>2. DOMAIN cart \subseteq Items /\ \A i \in DOMAIN cart : cart[i] \in Nat /\ menu[i] \in Nat
  BY CartsAreCarts DEF BillsInv, MenuOK
<1> HIDE DEF old
<1>3. DOMAIN want = DOMAIN old \union DOMAIN cart
  BY DEF Merged
<1>4. ASSUME NEW i \in DOMAIN want
      PROVE  /\ want[i].qty \in Nat /\ want[i].price \in Nat
             /\ i \in DOMAIN old => old[i].qty <= want[i].qty /\ want[i].price = old[i].price
  <2>1. CASE i \in DOMAIN old
    <3>1. /\ want[i].qty = old[i].qty + (IF i \in DOMAIN cart THEN cart[i] ELSE 0)
          /\ want[i].price = old[i].price
      BY <1>3, <1>4, <2>1 DEF Merged
    <3>2. QED
      BY <1>1, <1>2, <2>1, <3>1
  <2>2. CASE i \notin DOMAIN old
    <3>1. want[i].qty = cart[i] /\ want[i].price = menu[i] /\ i \in DOMAIN cart
      BY <1>3, <1>4, <2>2 DEF Merged
    <3>2. QED
      BY <1>2, <2>2, <3>1
  <2>3. QED
    BY <2>1, <2>2
<1> HIDE DEF want
<1>5. /\ DOMAIN old \subseteq DOMAIN want /\ DOMAIN want \subseteq Items
      /\ \A i \in DOMAIN want : want[i].qty \in Nat /\ want[i].price \in Nat
      /\ \A i \in DOMAIN old : old[i].qty <= want[i].qty /\ want[i].price = old[i].price
  BY <1>1, <1>2, <1>3, <1>4
<1>6. QED
  BY <1>5 DEF old, want

(* The lines of a bill some of which was cancelled.                           *)
LEMMA CutLinesArePriced ==
  ASSUME LinesPriced, NEW o \in Orders, NEW cut \in Cuts(o)
  PROVE  LET new == CutLines(lines[o], cut) IN
         /\ DOMAIN new = DOMAIN lines[o]
         /\ \A i \in DOMAIN lines[o] :
              IsPriced(i, new[i]) /\ new[i].total <= lines[o][i].total
<1> DEFINE old == lines[o]
           new == CutLines(old, cut)
<1>1. DOMAIN old \subseteq Items /\ \A i \in DOMAIN old : IsPriced(i, old[i])
  BY DEF LinesPriced
<1>2. cut \in Carts /\ \A i \in DOMAIN cut : cut[i] <= old[i].qty
  BY DEF Cuts
<1>3. DOMAIN new = DOMAIN old
  BY DEF CutLines
<1>4. ASSUME NEW i \in DOMAIN old
      PROVE  IsPriced(i, new[i]) /\ new[i].total <= old[i].total
  <2>1. i \in Items /\ IsPriced(i, old[i]) /\ old[i].total \in Nat
    BY <1>1, <1>4, LineIsNumbers
  <2>2. CASE i \in DOMAIN cut
    <3>1. new[i] = CutLine(i, old[i], cut[i])
      BY <1>4, <2>2 DEF CutLines
    <3>2. cut[i] \in Nat /\ cut[i] <= old[i].qty
      BY <1>2, <2>2, CartsAreCarts
    <3> HIDE DEF old, new
    <3>3. QED
      BY <2>1, <3>1, <3>2, CutLineIsPriced
  <2>3. CASE i \notin DOMAIN cut
    <3>1. new[i] = old[i]
      BY <1>4, <2>3 DEF CutLines
    <3>2. QED
      BY <2>1, <3>1
  <2>4. QED
    BY <2>2, <2>3
<1>5. QED
  BY <1>3, <1>4

LEMMA PlacingKeepsPrices ==
  ASSUME BillsInv, NEW o \in Orders, NEW cart \in Carts, NEW spec, NEW st,
         PlaceBill(o, cart, spec, st)
  PROVE  BillsInv' /\ \A q \in Orders : Placed(q) => Cheaper(q)
<1> DEFINE want == OnMenu(cart)
           new  == PricedLines(want, spec)
<1>1. /\ CanPrice(want, spec) /\ ~Placed(o)
      /\ lines' = [lines EXCEPT ![o] = new] /\ menu' = menu
  BY DEF PlaceBill, PlaceOrder
<1>2. DOMAIN want \subseteq Items
  BY CartsAreCarts DEF OnMenu
<1>3. \A i \in DOMAIN want : want[i].qty \in Nat /\ want[i].price \in Nat
  BY <1>2, CartsAreCarts DEF OnMenu, BillsInv, MenuOK
<1>4. DOMAIN new \subseteq Items /\ \A i \in DOMAIN new : IsPriced(i, new[i])
  BY <1>1, <1>2, <1>3, NewLinesArePriced
<1> HIDE DEF new, want
<1>5. LinesPriced'
  BY <1>1, <1>4, WrittenLines DEF BillsInv
<1>6. MenuOK'
  BY <1>1 DEF BillsInv, MenuOK
<1>7. ASSUME NEW q \in Orders, Placed(q) PROVE Cheaper(q)
  <2>1. q # o
    BY <1>1, <1>7
  <2>2. lines'[q] = lines[q]
    BY <1>1, <1>7, <2>1 DEF BillsInv, LinesPriced
  <2>3. \A i \in DOMAIN lines[q] : lines[q][i].total \in Nat
    BY <1>7, LineIsNumbers DEF BillsInv, LinesPriced
  <2>4. QED
    BY <2>2, <2>3 DEF Cheaper
<1>8. QED
  BY <1>5, <1>6, <1>7 DEF BillsInv

LEMMA ExtendingKeepsPrices ==
  ASSUME BillsInv, NEW o \in Orders, NEW cart \in Carts, NEW spec, ExtendBill(o, cart, spec)
  PROVE  BillsInv' /\ \A q \in Orders : Placed(q) => Cheaper(q)
<1> DEFINE old  == lines[o]
           want == Merged(old, cart)
           new  == PricedLines(want, spec)
<1>1. /\ CanPrice(want, spec)
      /\ lines' = [lines EXCEPT ![o] = new] /\ menu' = menu
  BY DEF ExtendBill
<1>2. /\ DOMAIN want \subseteq Items
      /\ \A i \in DOMAIN want : want[i].qty \in Nat /\ want[i].price \in Nat
      /\ \A i \in DOMAIN old : i \in DOMAIN want /\ old[i].qty <= want[i].qty
  BY MergedIsMore
<1>3. \A i \in DOMAIN old : old[i].qty \in Nat
  BY LineIsNumbers DEF BillsInv, LinesPriced
<1> HIDE DEF want
<1>4. /\ DOMAIN new = DOMAIN want
      /\ \A i \in DOMAIN want : IsPriced(i, new[i]) /\ new[i].qty = want[i].qty
  BY <1>1, <1>2, NewLinesArePriced
<1> HIDE DEF new, old
<1>5. LinesPriced'
  BY <1>1, <1>2, <1>4, WrittenLines DEF BillsInv
<1>6. MenuOK'
  BY <1>1 DEF BillsInv, MenuOK
<1>7. ASSUME NEW q \in Orders PROVE Cheaper(q)
  <2>1. CASE q = o
    <3>1. lines'[q] = new /\ lines[q] = old
      BY <1>1, <2>1 DEF BillsInv, LinesPriced, old
    <3>2. \A i \in DOMAIN old : ~(new[i].qty < old[i].qty)
      BY <1>2, <1>3, <1>4
    <3>3. QED
      BY <3>1, <3>2 DEF Cheaper
  <2>2. CASE q # o
    <3>1. lines'[q] = lines[q]
      BY <1>1, <1>7, <2>2 DEF BillsInv, LinesPriced
    <3>2. \A i \in DOMAIN lines[q] : lines[q][i].total \in Nat
      BY <1>7, LineIsNumbers DEF BillsInv, LinesPriced
    <3>3. QED
      BY <3>1, <3>2 DEF Cheaper
  <2>3. QED
    BY <2>1, <2>2
<1>8. QED
  BY <1>5, <1>6, <1>7 DEF BillsInv

LEMMA CancellingKeepsPrices ==
  ASSUME BillsInv, NEW o \in Orders, NEW cut \in Cuts(o), CancelItems(o, cut)
  PROVE  BillsInv' /\ \A q \in Orders : Placed(q) => Cheaper(q)
<1> DEFINE old == lines[o]
           new == CutLines(old, cut)
<1>1. lines' = [lines EXCEPT ![o] = new] /\ menu' = menu
  BY DEF CancelItems
<1>2. /\ DOMAIN old \subseteq Items /\ DOMAIN new = DOMAIN old
      /\ \A i \in DOMAIN old : IsPriced(i, new[i]) /\ new[i].total <= old[i].total
  BY CutLinesArePriced DEF BillsInv, LinesPriced
<1> HIDE DEF new
<1>3. LinesPriced'
  BY <1>1, <1>2, WrittenLines DEF BillsInv
<1>4. MenuOK'
  BY <1>1 DEF BillsInv, MenuOK
<1>5. ASSUME NEW q \in Orders PROVE Cheaper(q)
  <2>1. CASE q = o
    <3>1. lines'[q] = new
      BY <1>1, <2>1 DEF BillsInv, LinesPriced
    <3>2. QED
      BY <1>2, <2>1, <3>1 DEF Cheaper
  <2>2. CASE q # o
    <3>1. lines'[q] = lines[q]
      BY <1>1, <1>5, <2>2 DEF BillsInv, LinesPriced
    <3>2. \A i \in DOMAIN lines[q] : lines[q][i].total \in Nat
      BY <1>5, LineIsNumbers DEF BillsInv, LinesPriced
    <3>3. QED
      BY <3>1, <3>2 DEF Cheaper
  <2>3. QED
    BY <2>1, <2>2
<1>6. QED
  BY <1>3, <1>4, <1>5 DEF BillsInv

LEMMA OthersKeepPrices ==
  ASSUME BillsInv, lines' = lines, MenuOK'
  PROVE  BillsInv' /\ \A q \in Orders : Placed(q) => Cheaper(q)
<1>1. \A q \in Orders : \A i \in DOMAIN lines[q] : lines[q][i].total \in Nat
  BY LineIsNumbers DEF BillsInv, LinesPriced
<1>2. QED
  BY <1>1 DEF BillsInv, LinesPriced, Cheaper

LEMMA InvStep ==
  ASSUME BillsInv, [BillsNext]_<<settleVars, billVars>>
  PROVE  BillsInv' /\ \A q \in Orders : Placed(q) => Cheaper(q)
<1>1. CASE \E o \in Orders, cart \in Carts, spec \in Discounts :
             PlaceBill(o, cart, spec, "sentToKitchen") \/ ExtendBill(o, cart, spec)
  BY <1>1, PlacingKeepsPrices, ExtendingKeepsPrices
<1>2. CASE \E o \in Orders : \E cut \in Cuts(o) : CancelItems(o, cut)
  BY <1>2, CancellingKeepsPrices
<1>3. CASE \E i \in Items, p \in Prices : EditPrice(i, p)
  <2>1. lines' = lines /\ MenuOK'
    BY <1>3, MenuIsPriced DEF EditPrice, BillsInv, MenuOK
  <2>2. QED
    BY <2>1, OthersKeepPrices
<1>4. CASE UNCHANGED billVars
  <2>1. lines' = lines /\ MenuOK'
    BY <1>4 DEF billVars, BillsInv, MenuOK
  <2>2. QED
    BY <2>1, OthersKeepPrices
<1>5. CASE UNCHANGED <<settleVars, billVars>>
  BY <1>4, <1>5
<1>6. QED
  BY <1>1, <1>2, <1>3, <1>4, <1>5 DEF BillsNext

(* Every line of every bill is priced: it has the discount, the tax and the   *)
(* total that calculateOrderItemLine gives its quantity and price, whatever   *)
(* sequence of submissions, edits of the menu and cancellations wrote it.     *)
THEOREM LinesStayPriced == BillsSpec => []BillsInv
<1>1. BillsInv /\ [BillsNext]_<<settleVars, billVars>> => BillsInv'
  BY InvStep
<1>2. QED
  BY <1>1, InvInitially, PTL DEF BillsSpec

(* Each line adds up (BillAddsUp, line by line).                              *)
LinesAddUp ==
  \A o \in Orders : \A i \in DOMAIN lines[o] :
     LET l == lines[o][i] IN
     /\ l.disc <= l.sub /\ l.sub = l.qty * l.price
     /\ l.total = l.sub - l.disc + (IF i \in TaxInside THEN 0 ELSE l.tax)
     /\ Cgst(l.tax) + Sgst(l.tax) = l.tax
     /\ l.tax <= l.total

(* The price of a line less its discount, plus a tax that is not inside it,   *)
(* is its total, and the parts of the tax make up the tax.                    *)
THEOREM LinesAlwaysAddUp == BillsSpec => []LinesAddUp
<1>1. BillsInv => LinesAddUp
  <2> SUFFICES ASSUME BillsInv, NEW o \in Orders, NEW i \in DOMAIN lines[o]
               PROVE  LET l == lines[o][i] IN
                      /\ l.disc <= l.sub /\ l.sub = l.qty * l.price
                      /\ l.total = l.sub - l.disc + (IF i \in TaxInside THEN 0 ELSE l.tax)
                      /\ Cgst(l.tax) + Sgst(l.tax) = l.tax
                      /\ l.tax <= l.total
    BY DEF LinesAddUp
  <2> DEFINE l == lines[o][i]
  <2>1. i \in Items /\ IsPriced(i, l)
    BY DEF BillsInv, LinesPriced
  <2> HIDE DEF l
  <2>2. QED
    BY <2>1, LineFacts DEF l
<1>2. QED
  BY <1>1, LinesStayPriced, PTL

(* Cancelling some of a line never makes the line dearer (the lines' part of  *)
(* CancellingNeverRaises), though its discount and its tax are rounded anew.  *)
THEOREM CancelledLinesNeverDearer ==
  BillsSpec => [][\A o \in Orders : Placed(o) => Cheaper(o)]_<<settleVars, billVars>>
<1>1. BillsInv /\ [BillsNext]_<<settleVars, billVars>>
        => [\A o \in Orders : Placed(o) => Cheaper(o)]_<<settleVars, billVars>>
  BY InvStep
<1>2. QED
  BY <1>1, LinesStayPriced, PTL DEF BillsSpec

-----------------------------------------------------------------------------
(* Totals: the sums over the lines of a bill, field by field.                 *)
LEMMA TotalsAreSums ==
  ASSUME NEW l
  PROVE  Totals(l) =
           [sub     |-> SumFunctionOnSet([i \in DOMAIN l |-> l[i].sub], DOMAIN l),
            disc    |-> SumFunctionOnSet([i \in DOMAIN l |-> l[i].disc], DOMAIN l),
            taxable |-> SumFunctionOnSet([i \in DOMAIN l |-> l[i].total - l[i].tax], DOMAIN l),
            cgst    |-> SumFunctionOnSet([i \in DOMAIN l |-> Cgst(l[i].tax)], DOMAIN l),
            sgst    |-> SumFunctionOnSet([i \in DOMAIN l |-> Sgst(l[i].tax)], DOMAIN l),
            tax     |-> SumFunctionOnSet([i \in DOMAIN l |-> l[i].tax], DOMAIN l),
            grand   |-> SumFunctionOnSet([i \in DOMAIN l |-> l[i].total], DOMAIN l)]
BY DEF Totals, SumFunction

AllPriced(l) == DOMAIN l \subseteq Items /\ \A i \in DOMAIN l : IsPriced(i, l[i])

LEMMA MenuIsFinite ==
  ASSUME NEW l, AllPriced(l)
  PROVE  IsFiniteSet(DOMAIN l) /\ DOMAIN l \subseteq Nat
<1>1. DOMAIN l \in SUBSET Items /\ IsFiniteSet(Items) /\ Items \subseteq Nat
  BY MenuIsPriced DEF AllPriced
<1>2. QED
  BY <1>1, FS_Subset

(* The sums of priced lines agree with one another as the lines do.           *)
LEMMA TotalsAddUp ==
  ASSUME NEW l, AllPriced(l)
  PROVE  LET s     == Totals(l)
             onTop == SumFunction([i \in DOMAIN l |-> IF i \in TaxInside THEN 0 ELSE l[i].tax])
         IN  /\ s.grand = SumFunction([i \in DOMAIN l |-> l[i].total])
             /\ s.grand = s.sub - s.disc + onTop
             /\ s.taxable + s.cgst + s.sgst = s.grand
             /\ s.grand \in Nat
<1> DEFINE D       == DOMAIN l
           sub     == [i \in D |-> l[i].sub]
           disc    == [i \in D |-> l[i].disc]
           net     == [i \in D |-> l[i].sub - l[i].disc]
           onTop   == [i \in D |-> IF i \in TaxInside THEN 0 ELSE l[i].tax]
           tax     == [i \in D |-> l[i].tax]
           cgst    == [i \in D |-> Cgst(l[i].tax)]
           sgst    == [i \in D |-> Sgst(l[i].tax)]
           taxable == [i \in D |-> l[i].total - l[i].tax]
           total   == [i \in D |-> l[i].total]
           of(f)   == SumFunctionOnSet(f, D)
<1>1. IsFiniteSet(D)
  BY MenuIsFinite
<1>2. \A i \in D :
        /\ sub[i] \in Int /\ disc[i] \in Int /\ net[i] \in Int /\ sub[i] = net[i] + disc[i]
        /\ onTop[i] \in Int /\ total[i] = net[i] + onTop[i]
        /\ tax[i] \in Int /\ cgst[i] \in Int /\ sgst[i] \in Int /\ tax[i] = cgst[i] + sgst[i]
        /\ taxable[i] \in Int /\ total[i] = taxable[i] + tax[i]
        /\ total[i] \in Nat
  <2>1. TAKE i \in D
  <2>2. i \in Items /\ IsPriced(i, l[i])
    BY DEF AllPriced
  <2> DEFINE k == l[i]
  <2>3. /\ k.disc \in Nat /\ k.sub \in Nat /\ k.tax \in Nat /\ k.total \in Nat
        /\ k.total = k.sub - k.disc + (IF i \in TaxInside THEN 0 ELSE k.tax)
        /\ Cgst(k.tax) \in Nat /\ Sgst(k.tax) \in Nat /\ Cgst(k.tax) + Sgst(k.tax) = k.tax
    BY <2>2, LineFacts
  <2>4. /\ sub[i] = k.sub /\ disc[i] = k.disc /\ net[i] = k.sub - k.disc
        /\ onTop[i] = (IF i \in TaxInside THEN 0 ELSE k.tax) /\ total[i] = k.total
        /\ tax[i] = k.tax /\ cgst[i] = Cgst(k.tax) /\ sgst[i] = Sgst(k.tax)
        /\ taxable[i] = k.total - k.tax
    OBVIOUS
  <2> HIDE DEF k, sub, disc, net, onTop, tax, cgst, sgst, taxable, total
  <2>5. QED
    BY <2>3, <2>4
<1> HIDE DEF sub, disc, net, onTop, tax, cgst, sgst, taxable, total, D
<1>3. of(sub) = of(net) + of(disc) /\ of(total) = of(net) + of(onTop)
  BY <1>1, <1>2, SumOfTwo
<1>4. of(tax) = of(cgst) + of(sgst) /\ of(total) = of(taxable) + of(tax)
  BY <1>1, <1>2, SumOfTwo
<1>5. /\ of(net) \in Int /\ of(disc) \in Int /\ of(onTop) \in Int
      /\ of(cgst) \in Int /\ of(sgst) \in Int /\ of(taxable) \in Int
  BY <1>1, <1>2, SumIsInt
<1>6. of(total) \in Nat
  BY <1>1, <1>2, SumIsNat
<1> HIDE DEF of
<1>7. /\ of(total) = of(sub) - of(disc) + of(onTop)
      /\ of(taxable) + of(cgst) + of(sgst) = of(total)
  BY <1>3, <1>4, <1>5
<1>8. /\ Totals(l).sub = of(sub) /\ Totals(l).disc = of(disc) /\ Totals(l).taxable = of(taxable)
      /\ Totals(l).cgst = of(cgst) /\ Totals(l).sgst = of(sgst) /\ Totals(l).grand = of(total)
  BY TotalsAreSums DEF of, sub, disc, taxable, cgst, sgst, total, D
<1>9. /\ SumFunction([i \in DOMAIN l |-> l[i].total]) = of(total)
      /\ SumFunction([i \in DOMAIN l |-> IF i \in TaxInside THEN 0 ELSE l[i].tax]) = of(onTop)
  BY DEF SumFunction, of, total, onTop, D
<1>10. QED
  BY <1>6, <1>7, <1>8, <1>9

(* Lines nothing is left of add nothing: the bill priced again, without them, *)
(* has the sums of the bill that keeps them.                                  *)
LEMMA DroppedZeros ==
  ASSUME NEW S, IsFiniteSet(S), NEW K \in SUBSET S, NEW f, NEW g,
         \A i \in S : f[i] \in Int /\ (i \notin K => f[i] = 0) /\ (i \in K => g[i] = f[i])
  PROVE  SumFunctionOnSet(g, K) = SumFunctionOnSet(f, S)
<1>1. SumFunctionOnSet(f, S) = SumFunctionOnSet(f, K)
  BY SumWithoutZeros
<1>2. IsFiniteSet(K)
  BY FS_Subset
<1>3. SumFunctionOnSet(f, K) = SumFunctionOnSet(g, K)
  BY <1>2, SumSame
<1>4. QED
  BY <1>1, <1>3

LEMMA PricedAgainIsSame ==
  ASSUME NEW l, AllPriced(l)
  PROVE  /\ Totals(PricedAgain(l)) = Totals(l)
         /\ DOMAIN PricedAgain(l) = {} => Totals(l).grand = 0
<1> DEFINE D == DOMAIN l
           K == {i \in D : l[i].qty > 0}
           m == PricedAgain(l)
<1>1. IsFiniteSet(D) /\ K \in SUBSET D
  BY MenuIsFinite
<1>2. \A i \in D : i \in Items /\ IsPriced(i, l[i])
  BY DEF AllPriced
<1>3. DOMAIN m = K
  BY DEF PricedAgain
<1>4. \A i \in K : m[i] = l[i]
  <2>1. TAKE i \in K
  <2>2. m[i] = PricedLine(TaxedAs(i), l[i].qty, l[i].price, l[i].disc)
    BY DEF PricedAgain
  <2>3. l[i] = PricedLine(TaxedAs(i), l[i].qty, l[i].price, l[i].disc)
    BY <1>2, LineFacts
  <2>4. QED
    BY <2>2, <2>3
<1>5. \A i \in D \ K : /\ l[i].sub = 0 /\ l[i].disc = 0 /\ l[i].tax = 0 /\ l[i].total = 0
                       /\ Cgst(l[i].tax) = 0 /\ Sgst(l[i].tax) = 0
  <2>1. TAKE i \in D \ K
  <2>2. l[i].qty \in Nat
    BY <1>2, LineFacts
  <2>3. l[i].qty = 0
    BY <2>2
  <2>4. QED
    BY <1>2, <2>3, LineFacts
<1>6. \A i \in D : /\ l[i].sub \in Int /\ l[i].disc \in Int /\ l[i].tax \in Int
                   /\ l[i].total \in Int /\ l[i].total - l[i].tax \in Int
                   /\ Cgst(l[i].tax) \in Int /\ Sgst(l[i].tax) \in Int
  <2>1. TAKE i \in D
  <2>2. /\ l[i].sub \in Nat /\ l[i].disc \in Nat /\ l[i].tax \in Nat /\ l[i].total \in Nat
        /\ Cgst(l[i].tax) \in Nat /\ Sgst(l[i].tax) \in Nat
    BY <1>2, LineFacts
  <2>3. QED
    BY <2>2
<1> HIDE DEF m, K, D
<1>7. SumFunctionOnSet([i \in K |-> m[i].sub], K) = SumFunctionOnSet([i \in D |-> l[i].sub], D)
  BY <1>1, <1>4, <1>5, <1>6, DroppedZeros
<1>8. SumFunctionOnSet([i \in K |-> m[i].disc], K) = SumFunctionOnSet([i \in D |-> l[i].disc], D)
  BY <1>1, <1>4, <1>5, <1>6, DroppedZeros
<1>9. SumFunctionOnSet([i \in K |-> m[i].total - m[i].tax], K)
         = SumFunctionOnSet([i \in D |-> l[i].total - l[i].tax], D)
  BY <1>1, <1>4, <1>5, <1>6, DroppedZeros
<1>10. SumFunctionOnSet([i \in K |-> Cgst(m[i].tax)], K)
         = SumFunctionOnSet([i \in D |-> Cgst(l[i].tax)], D)
  BY <1>1, <1>4, <1>5, <1>6, DroppedZeros
<1>11. SumFunctionOnSet([i \in K |-> Sgst(m[i].tax)], K)
         = SumFunctionOnSet([i \in D |-> Sgst(l[i].tax)], D)
  BY <1>1, <1>4, <1>5, <1>6, DroppedZeros
<1>12. SumFunctionOnSet([i \in K |-> m[i].tax], K) = SumFunctionOnSet([i \in D |-> l[i].tax], D)
  BY <1>1, <1>4, <1>5, <1>6, DroppedZeros
<1>13. SumFunctionOnSet([i \in K |-> m[i].total], K)
         = SumFunctionOnSet([i \in D |-> l[i].total], D)
  BY <1>1, <1>4, <1>5, <1>6, DroppedZeros
<1>14. Totals(m) = Totals(l)
  BY <1>3, <1>7, <1>8, <1>9, <1>10, <1>11, <1>12, <1>13, TotalsAreSums DEF D
<1>15. K = {} => Totals(m).grand = 0
  BY <1>3, TotalsAreSums, SumEmpty
<1>16. QED
  BY <1>3, <1>14, <1>15 DEF m

-----------------------------------------------------------------------------
(* Dearer lines, and more of them, make no cheaper bill.                      *)
LEMMA DearerLines ==
  ASSUME NEW l, AllPriced(l), NEW m, AllPriced(m), DOMAIN l \subseteq DOMAIN m,
         \A i \in DOMAIN l : l[i].total <= m[i].total
  PROVE  Totals(l).grand <= Totals(m).grand
<1> DEFINE f == [i \in DOMAIN l |-> l[i].total]
           g == [i \in DOMAIN m |-> m[i].total]
<1>1. /\ Totals(l).grand = SumFunctionOnSet(f, DOMAIN l)
      /\ Totals(m).grand = SumFunctionOnSet(g, DOMAIN m)
  BY TotalsAreSums
<1>2. /\ \A i \in DOMAIN l : f[i] \in Nat /\ f[i] = l[i].total
      /\ \A i \in DOMAIN m : g[i] \in Nat /\ g[i] = m[i].total
  BY LineFacts DEF AllPriced
<1>3. IsFiniteSet(DOMAIN m) /\ DOMAIN l \in SUBSET DOMAIN m
  BY MenuIsFinite
<1> HIDE DEF f, g
<1>4. SumFunctionOnSet(f, DOMAIN l) <= SumFunctionOnSet(g, DOMAIN m)
  BY <1>2, <1>3, SumGrows
<1>5. QED
  BY <1>1, <1>4

(* More of an item at its price and without its discount is dearer.           *)
LEMMA MoreIsDearer ==
  ASSUME NEW i \in Items, NEW qty \in Nat, NEW price \in Nat, NEW disc \in 0..(qty * price),
         NEW more \in Nat, qty <= more
  PROVE  PricedLine(TaxedAs(i), qty, price, disc).total
           <= PricedLine(TaxedAs(i), more, price, 0).total
<1> DEFINE l   == PricedLine(TaxedAs(i), qty, price, disc)
           m   == PricedLine(TaxedAs(i), more, price, 0)
           low == qty * price - disc
           all == more * price - 0
<1>1. 0 \in 0..(more * price)
  OBVIOUS
<1>2. /\ low \in Nat /\ l.tax \in Nat /\ l.tax = TaxOf(low, ItemRate[i], i \in TaxInside)
      /\ l.total = IF i \in TaxInside THEN low ELSE low + l.tax
  BY LineFields
<1>3. /\ all \in Nat /\ m.tax \in Nat /\ m.tax = TaxOf(all, ItemRate[i], i \in TaxInside)
      /\ m.total = IF i \in TaxInside THEN all ELSE all + m.tax
  BY <1>1, LineFields
<1>4. low <= all
  <2>1. price * qty <= price * more
    BY TimesMonotone
  <2>2. qty * price = price * qty /\ all = price * more /\ disc \in Nat /\ price * qty \in Nat
    OBVIOUS
  <2>3. low <= qty * price
    BY <2>2
  <2>4. QED
    BY <1>2, <1>3, <2>1, <2>2, <2>3
<1>5. ASSUME i \notin TaxInside PROVE l.tax <= m.tax
  <2>1. (i \in TaxInside) = FALSE /\ ItemRate[i] \in 0..100
    BY <1>5, RatesAreRates
  <2>2. TaxOf(low, ItemRate[i], FALSE) <= TaxOf(all, ItemRate[i], FALSE)
    BY <1>2, <1>3, <1>4, <2>1, TaxMonotone
  <2>3. QED
    BY <1>2, <1>3, <2>1, <2>2
<1> HIDE DEF l, m, low, all
<1>6. l.total <= m.total
  BY <1>2, <1>3, <1>4, <1>5
<1>7. QED
  BY <1>6 DEF l, m

-----------------------------------------------------------------------------
(* The invariant of whole bills: the totals an order keeps are the sums of    *)
(* its lines, with its grand total in the ledger, and what is due of a bill   *)
(* is no more than the bill.                                                  *)
SumsKept ==
  /\ sums = [o \in Orders |-> Totals(lines[o])]
  /\ \A o \in Orders : /\ Placed(o) => order[o].grand = Totals(lines[o]).grand
                       /\ ~Placed(o) => lines[o] = NoLines

DueInBill == \A o \in Orders : order[o].due <= order[o].grand

WholeInv == BillsInv /\ MoneyTypes /\ DueInBill /\ SumsKept

LEMMA WholeInitially == BillsInit => WholeInv
<1> SUFFICES ASSUME BillsInit PROVE WholeInv
  OBVIOUS
<1>1. BillsInv /\ MoneyTypes
  BY InvInitially, InitMoneyTypes DEF BillsInit
<1>2. DueInBill
  BY DEF BillsInit, SettleInit, DueInBill
<1>3. SumsKept
  <2>1. \A o \in Orders : lines[o] = NoLines /\ ~Placed(o)
    BY DEF BillsInit, SettleInit, Placed
  <2>2. sums = [o \in Orders |-> Totals(NoLines)]
    BY DEF BillsInit
  <2>3. QED
    BY <2>1, <2>2 DEF SumsKept
<1>4. QED
  BY <1>1, <1>2, <1>3 DEF WholeInv

(* What is due after a write is part of the bill.                             *)
LEMMA DueIsPart == ASSUME NEW grand \in Nat, NEW paid \in Nat
                   PROVE  Due(grand, paid) \in Nat /\ Due(grand, paid) <= grand
BY DEF Due

(* An operation writes the lines of one order, their sums, and the total of   *)
(* these in the order's document.                                             *)
LEMMA WholeWrite ==
  ASSUME WholeInv, NEW o \in Orders, NEW new, NEW doc,
         lines' = [lines EXCEPT ![o] = new], sums' = [sums EXCEPT ![o] = Totals(new)],
         order' = [order EXCEPT ![o] = doc],
         doc.status # "none", doc.grand = Totals(new).grand, doc.due <= doc.grand
  PROVE  SumsKept' /\ DueInBill'
<1>1. order \in [Orders -> OrderDoc]
  BY DEF WholeInv, MoneyTypes, SettleTypeOK
<1>2. /\ order'[o] = doc /\ lines'[o] = new
      /\ \A q \in Orders \ {o} : order'[q] = order[q] /\ lines'[q] = lines[q]
  BY <1>1 DEF WholeInv, BillsInv, LinesPriced
<1>3. sums' = [q \in Orders |-> IF q = o THEN Totals(new) ELSE Totals(lines[q])]
  BY DEF WholeInv, SumsKept
<1>4. sums' = [q \in Orders |-> Totals(lines'[q])]
  BY <1>2, <1>3
<1>5. DueInBill'
  BY <1>2 DEF WholeInv, DueInBill
<1>6. \A q \in Orders : /\ order'[q].status # "none" => order'[q].grand = Totals(lines'[q]).grand
                        /\ order'[q].status = "none" => lines'[q] = NoLines
  BY <1>2 DEF WholeInv, SumsKept, Placed
<1>7. QED
  BY <1>4, <1>5, <1>6 DEF SumsKept, Placed

(* The orders that are not written keep their lines and sums.                 *)
LEMMA OthersKeepBills ==
  ASSUME WholeInv, NEW o \in Orders, NEW new, NEW t,
         lines' = [lines EXCEPT ![o] = new], sums' = [sums EXCEPT ![o] = t],
         NEW q \in Orders, q # o
  PROVE  lines'[q] = lines[q] /\ sums'[q] = sums[q]
BY DEF WholeInv, BillsInv, LinesPriced, SumsKept

LEMMA TotalsAreMoney ==
  ASSUME NEW l, AllPriced(l), Totals(l).grand <= MaxTotal
  PROVE  Totals(l).grand \in Money
<1>1. Totals(l).grand \in Nat
  BY TotalsAddUp
<1>2. QED
  BY <1>1, MaxTotalIsNatural DEF Money

(* None of what fell is dearer: what CancellingNeverRaises says of one order. *)
NoneDearer(o) ==
  \A i \in DOMAIN lines[o] :
     lines'[o][i].qty < lines[o][i].qty =>
       lines'[o][i].total <= lines[o][i].total /\ sums'[o].grand <= sums[o].grand

(* A bill is placed: a step of the ledger that places an order.               *)
LEMMA PlacingIsWhole ==
  ASSUME WholeInv, NEW o \in Orders, NEW cart \in Carts, NEW spec,
         PlaceBill(o, cart, spec, "sentToKitchen")
  PROVE  /\ \E g \in Money : PlaceOrder(o, g, "sentToKitchen")
         /\ SumsKept' /\ DueInBill'
         /\ \A q \in Orders : NoneDearer(q)
<1> DEFINE want == OnMenu(cart)
           new  == PricedLines(want, spec)
           g    == Totals(new).grand
           doc  == [status |-> "sentToKitchen", grand |-> g, paid |-> 0, due |-> g,
                    payStatus |-> PayStatusOf(g, 0)]
<1>1. /\ CanPrice(want, spec) /\ g <= MaxTotal /\ PlaceOrder(o, g, "sentToKitchen")
      /\ lines' = [lines EXCEPT ![o] = new] /\ sums' = [sums EXCEPT ![o] = Totals(new)]
  BY DEF PlaceBill
<1>2. /\ DOMAIN want \subseteq Items
      /\ \A i \in DOMAIN want : want[i].qty \in Nat /\ want[i].price \in Nat
  BY CartsAreCarts DEF OnMenu, WholeInv, BillsInv, MenuOK
<1>3. AllPriced(new)
  BY <1>1, <1>2, NewLinesArePriced DEF AllPriced
<1> HIDE DEF new, want
<1>4. g \in Nat /\ g \in Money
  BY <1>1, <1>3, TotalsAddUp, TotalsAreMoney
<1>5. order' = [order EXCEPT ![o] = doc] /\ ~Placed(o)
  BY <1>1 DEF PlaceOrder
<1>6. doc.status # "none" /\ doc.grand = Totals(new).grand /\ doc.due <= doc.grand
  BY <1>4
<1> HIDE DEF doc, g
<1>7. SumsKept' /\ DueInBill'
  BY <1>1, <1>5, <1>6, WholeWrite
<1>8. ASSUME NEW q \in Orders PROVE NoneDearer(q)
  <2>1. CASE q = o
    <3>1. DOMAIN lines[q] = {}
      BY <1>5, <2>1 DEF WholeInv, SumsKept, NoLines
    <3>2. QED
      BY <3>1 DEF NoneDearer
  <2>2. CASE q # o
    <3>1. lines'[q] = lines[q]
      BY <1>1, <1>8, <2>2, OthersKeepBills
    <3>2. \A i \in DOMAIN lines[q] : lines[q][i].qty \in Nat
      BY <1>8, LineIsNumbers DEF WholeInv, BillsInv, LinesPriced
    <3>3. QED
      BY <3>1, <3>2 DEF NoneDearer
  <2>3. QED
    BY <2>1, <2>2
<1>9. QED
  BY <1>1, <1>4, <1>7, <1>8

(* A bill is extended: its total falls only if a discount comes with it.      *)
LEMMA UndiscountedIsDearer ==
  ASSUME WholeInv, NEW o \in Orders, NEW cart \in Carts, NEW spec, spec.kind = "none",
         CanPrice(Merged(lines[o], cart), spec)
  PROVE  Totals(lines[o]).grand <= Totals(PricedLines(Merged(lines[o], cart), spec)).grand
<1> DEFINE old  == lines[o]
           want == Merged(old, cart)
           new  == PricedLines(want, spec)
           sub  == Subtotals(want)
<1>1. BillsInv /\ AllPriced(old)
  BY DEF WholeInv, BillsInv, LinesPriced, AllPriced
<1>2. /\ DOMAIN old \subseteq DOMAIN want /\ DOMAIN want \subseteq Items
      /\ \A i \in DOMAIN want : want[i].qty \in Nat /\ want[i].price \in Nat
      /\ \A i \in DOMAIN old : old[i].qty <= want[i].qty /\ want[i].price = old[i].price
  BY <1>1, MergedIsMore
<1> HIDE DEF want
<1>3. DOMAIN new = DOMAIN want /\ AllPriced(new)
  BY <1>2, NewLinesArePriced DEF AllPriced, want
<1>4. AmountOf(spec, SumFunction(sub)) = 0
  BY DEF AmountOf
<1>5. Shares(sub, AmountOf(spec, SumFunction(sub))) = [i \in DOMAIN want |-> 0]
  BY <1>4 DEF Shares, Subtotals
<1>6. \A i \in DOMAIN want : new[i] = PricedLine(TaxedAs(i), want[i].qty, want[i].price, 0)
  BY <1>5 DEF PricedLines
<1> HIDE DEF new, sub, old
<1>7. ASSUME NEW i \in DOMAIN old PROVE old[i].total <= new[i].total
  <2>1. i \in Items /\ IsPriced(i, old[i])
    BY <1>1, <1>7 DEF AllPriced
  <2> DEFINE k == old[i]
  <2>2. /\ k.qty \in Nat /\ k.price \in Nat /\ k.disc \in Nat
        /\ k.disc <= k.sub /\ k.sub = k.qty * k.price
        /\ k = PricedLine(TaxedAs(i), k.qty, k.price, k.disc)
    BY <2>1, LineFacts
  <2>3. /\ new[i] = PricedLine(TaxedAs(i), want[i].qty, k.price, 0)
        /\ want[i].qty \in Nat /\ k.qty <= want[i].qty
    BY <1>2, <1>6, <1>7
  <2> HIDE DEF k
  <2>4. k.disc \in 0..(k.qty * k.price)
    BY <2>2
  <2>5. PricedLine(TaxedAs(i), k.qty, k.price, k.disc).total <= new[i].total
    BY <2>1, <2>2, <2>3, <2>4, MoreIsDearer
  <2>6. k.total <= new[i].total
    BY <2>2, <2>5
  <2>7. QED
    BY <2>6 DEF k
<1>8. Totals(old).grand <= Totals(new).grand
  BY <1>1, <1>2, <1>3, <1>7, DearerLines
<1>9. QED
  BY <1>8 DEF old, new, want

LEMMA ExtendingIsWhole ==
  ASSUME WholeInv, NEW o \in Orders, NEW cart \in Carts, NEW spec, ExtendBill(o, cart, spec)
  PROVE  /\ \E g \in Money : ExtendOrder(o, g)
         /\ SumsKept' /\ DueInBill'
         /\ \A q \in Orders : NoneDearer(q)
<1> DEFINE want == Merged(lines[o], cart)
           new  == PricedLines(want, spec)
           g    == Totals(new).grand
           doc  == Extended(order[o], g)
<1>1. /\ Placed(o) /\ order[o].status \notin TerminalOrder
      /\ spec.kind # "none" => LaterDiscounts
      /\ CanPrice(want, spec) /\ g <= MaxTotal
      /\ order' = [order EXCEPT ![o] = doc] /\ UNCHANGED <<payment, payKey, writtenOff>>
      /\ lines' = [lines EXCEPT ![o] = new] /\ sums' = [sums EXCEPT ![o] = Totals(new)]
  BY DEF ExtendBill
<1>2. BillsInv /\ order \in [Orders -> OrderDoc] /\ order[o].grand = Totals(lines[o]).grand
  BY <1>1 DEF WholeInv, MoneyTypes, SettleTypeOK, SumsKept
<1>3. /\ DOMAIN lines[o] \subseteq DOMAIN want /\ DOMAIN want \subseteq Items
      /\ \A i \in DOMAIN want : want[i].qty \in Nat /\ want[i].price \in Nat
      /\ \A i \in DOMAIN lines[o] : lines[o][i].qty <= want[i].qty
  BY <1>2, MergedIsMore
<1>4. spec.kind = "none" => order[o].grand <= g
  BY <1>1, <1>2, UndiscountedIsDearer
<1> HIDE DEF want
<1>5. /\ DOMAIN new = DOMAIN want /\ AllPriced(new)
      /\ \A i \in DOMAIN want : new[i].qty = want[i].qty
  BY <1>1, <1>3, NewLinesArePriced DEF AllPriced
<1> HIDE DEF new
<1>6. g \in Nat /\ g \in Money
  BY <1>1, <1>5, TotalsAddUp, TotalsAreMoney
<1> HIDE DEF g
<1>7. ExtendOrder(o, g)
  <2>1. order[o].grand \in Nat
    BY <1>2 DEF OrderDoc
  <2>2. LaterDiscounts \/ g >= order[o].grand
    BY <1>1, <1>4, <1>6, <2>1
  <2>3. order' = [order EXCEPT ![o] = Extended(@, g)]
    BY <1>1
  <2>4. QED
    BY <1>1, <2>2, <2>3 DEF ExtendOrder
<1>8. doc.status # "none" /\ doc.grand = g /\ doc.due <= doc.grand
  <2> DEFINE ord == [order[o] EXCEPT !.grand = g]
  <2>1. ord \in OrderDoc /\ ord.grand = g /\ ord.status = order[o].status /\ order[o].paid \in Nat
    BY <1>2, <1>6 DEF OrderDoc
  <2>2. doc = Settled(ord, order[o].paid)
    BY DEF Extended
  <2> HIDE DEF ord, doc
  <2>3. doc.status = order[o].status /\ doc.grand = g /\ doc.due = Due(g, order[o].paid)
    BY <2>1, <2>2, SettledDoc
  <2>4. Due(g, order[o].paid) <= g
    BY <1>6, <2>1, DueIsPart
  <2>5. QED
    BY <1>1, <2>3, <2>4 DEF Placed
<1> HIDE DEF doc
<1>9. SumsKept' /\ DueInBill'
  BY <1>1, <1>8, WholeWrite DEF g
<1>10. ASSUME NEW q \in Orders PROVE NoneDearer(q)
  <2>1. \A i \in DOMAIN lines[q] : lines[q][i].qty \in Nat
    BY <1>10, LineIsNumbers DEF WholeInv, BillsInv, LinesPriced
  <2>2. CASE q = o
    <3>1. lines'[q] = new
      BY <1>1, <2>2 DEF WholeInv, BillsInv, LinesPriced
    <3>2. \A i \in DOMAIN lines[q] : lines[q][i].qty <= new[i].qty /\ new[i].qty \in Nat
      BY <1>3, <1>5, <2>2
    <3>3. QED
      BY <2>1, <3>1, <3>2 DEF NoneDearer
  <2>3. CASE q # o
    <3>1. lines'[q] = lines[q]
      BY <1>1, <1>10, <2>3, OthersKeepBills
    <3>2. QED
      BY <2>1, <3>1 DEF NoneDearer
  <2>4. QED
    BY <2>2, <2>3
<1>11. QED
  BY <1>6, <1>7, <1>9, <1>10

(* Items are cancelled: no larger a bill, and none at all when nothing is     *)
(* left of it.                                                                *)
LEMMA CancellingIsWhole ==
  ASSUME WholeInv, NEW o \in Orders, NEW cut \in Cuts(o), CancelItems(o, cut)
  PROVE  /\ \E g \in Money, st \in OrderStatus : RepriceOrder(o, g, st)
         /\ SumsKept' /\ DueInBill'
         /\ \A q \in Orders : NoneDearer(q)
<1> DEFINE old  == lines[o]
           left == CutLines(old, cut)
           new  == Totals(PricedAgain(left))
           g    == new.grand
           st   == IF DOMAIN PricedAgain(left) = {} THEN "cancelled" ELSE order[o].status
           doc  == Repriced(order[o], g, st)
<1>1. /\ Placed(o) /\ order[o].status \notin TerminalOrder
      /\ CoversPaid(order[o], g)
      /\ order' = [order EXCEPT ![o] = doc] /\ UNCHANGED <<payment, payKey, writtenOff>>
      /\ lines' = [lines EXCEPT ![o] = left] /\ sums' = [sums EXCEPT ![o] = new]
  BY DEF CancelItems
<1>2. /\ LinesPriced /\ AllPriced(old) /\ order \in [Orders -> OrderDoc]
      /\ order[o].grand = Totals(old).grand /\ order[o].grand \in Money
  BY <1>1 DEF WholeInv, BillsInv, LinesPriced, AllPriced, MoneyTypes, SettleTypeOK, SumsKept,
              TotalsBounded
<1>3. /\ DOMAIN left = DOMAIN old
      /\ \A i \in DOMAIN old : IsPriced(i, left[i]) /\ left[i].total <= old[i].total
  BY <1>2, CutLinesArePriced
<1> HIDE DEF old, left
<1>4. AllPriced(left)
  BY <1>2, <1>3 DEF AllPriced
<1>5. /\ new = Totals(left) /\ g = Totals(left).grand
      /\ DOMAIN PricedAgain(left) = {} => g = 0
  BY <1>4, PricedAgainIsSame
<1>6. g \in Nat /\ g <= order[o].grand
  BY <1>2, <1>3, <1>4, <1>5, TotalsAddUp, DearerLines
<1> HIDE DEF new
<1>7. g \in Money
  BY <1>2, <1>6, MaxTotalIsNatural DEF Money
<1>8. st \in OrderStatus /\ (st \in TerminalOrder => st = "cancelled" /\ g = 0) /\ st # "none"
  BY <1>1, <1>2, <1>5 DEF Placed, OrderDoc, OrderStatus
<1> HIDE DEF g, st
<1>9. RepriceOrder(o, g, st)
  BY <1>1, <1>6, <1>8 DEF RepriceOrder
<1>10. doc.status # "none" /\ doc.grand = g /\ doc.due <= doc.grand
  <2>1. order[o] \in OrderDoc /\ order[o].paid \in Nat
    BY <1>2 DEF OrderDoc
  <2>2. doc.status = st /\ doc.grand = g /\ doc.due = Due(g, order[o].paid)
    BY <2>1 DEF Repriced, OrderDoc
  <2>3. Due(g, order[o].paid) <= g
    BY <1>6, <2>1, DueIsPart
  <2>4. QED
    BY <1>8, <2>2, <2>3
<1> HIDE DEF doc
<1>11. SumsKept' /\ DueInBill'
  <2>1. sums' = [sums EXCEPT ![o] = Totals(left)] /\ doc.grand = Totals(left).grand
    BY <1>1, <1>5, <1>10
  <2>2. QED
    BY <1>1, <1>10, <2>1, WholeWrite
<1>12. ASSUME NEW q \in Orders PROVE NoneDearer(q)
  <2>1. CASE q = o
    <3>1. lines'[q] = left /\ sums'[q] = new /\ sums[q] = Totals(old) /\ lines[q] = old
      BY <1>1, <2>1 DEF WholeInv, BillsInv, LinesPriced, SumsKept, old
    <3>2. new.grand = g
      BY DEF g
    <3>3. sums'[q].grand <= sums[q].grand
      BY <1>2, <1>6, <3>1, <3>2
    <3>4. \A i \in DOMAIN lines[q] : lines'[q][i].total <= lines[q][i].total
      BY <1>3, <3>1
    <3>5. QED
      BY <3>3, <3>4 DEF NoneDearer
  <2>2. CASE q # o
    <3>1. \A i \in DOMAIN lines[q] : lines[q][i].qty \in Nat
      BY <1>12, LineIsNumbers DEF WholeInv, BillsInv, LinesPriced
    <3>2. lines'[q] = lines[q]
      BY <1>1, <1>12, <2>2, OthersKeepBills
    <3>3. QED
      BY <3>1, <3>2 DEF NoneDearer
  <2>3. QED
    BY <2>1, <2>2
<1>13. QED
  BY <1>7, <1>8, <1>9, <1>11, <1>12

(* What leaves lines and sums alone, and the totals of the orders, leaves     *)
(* every bill as it was.                                                      *)
LEMMA BillsUntouched ==
  ASSUME WholeInv, lines' = lines, sums' = sums,
         \A q \in Orders : /\ order'[q].grand = order[q].grand
                           /\ Placed(q)' <=> Placed(q)
                           /\ order'[q].due <= order[q].grand
  PROVE  SumsKept' /\ DueInBill' /\ \A q \in Orders : NoneDearer(q)
<1>1. SumsKept' /\ DueInBill'
  BY DEF WholeInv, SumsKept, DueInBill
<1>2. \A q \in Orders : \A i \in DOMAIN lines[q] : lines[q][i].qty \in Nat
  BY LineIsNumbers DEF WholeInv, BillsInv, LinesPriced
<1>3. QED
  BY <1>1, <1>2 DEF NoneDearer

(* Payments, refunds, cancellations and completions are steps of the ledger   *)
(* by definition; the amounts a bill may be paid in are amounts of it.        *)
LEMMA PayingIsSettling ==
  ASSUME MaxTotal > 0, WholeInv, PayBill \/ EndBill
  PROVE  SettleNext
<1>1. ASSUME NEW o \in Orders, NEW st \in PaymentStatus \ {"refunded"},
             NEW k \in PayKeys \union {NoPayKey}, NEW p \in Payments,
             NEW a \in {1, order[o].due} \ {0}, RecordPayment(o, a, st, k, p)
      PROVE  SettleNext
  <2>1. order[o].due \in Nat /\ order[o].due <= order[o].grand /\ order[o].grand \in Money
    BY DEF WholeInv, DueInBill, MoneyTypes, SettleTypeOK, TotalsBounded, OrderDoc
  <2>2. a \in Money \ {0}
    BY <2>1, MaxTotalIsNatural DEF Money
  <2>3. QED
    BY <1>1, <2>2 DEF SettleNext
<1>2. ASSUME NEW p \in Payments, NEW st \in PaymentStatus, UpdatePaymentStatus(p, st)
      PROVE  SettleNext
  BY <1>2 DEF SettleNext
<1>3. ASSUME NEW p \in Payments, RefundPayment(p) PROVE SettleNext
  BY <1>3 DEF SettleNext
<1>4. ASSUME NEW o \in Orders, CancelOrderWrite(o) \/ CompleteOrderWrite(o) PROVE SettleNext
  BY <1>4 DEF SettleNext
<1>5. QED
  BY <1>1, <1>2, <1>3, <1>4 DEF PayBill, EndBill

(* They change what is paid and due, and no total.                            *)
LEMMA SettlingKeepsTotal ==
  ASSUME WholeInv, NEW o \in Orders, NEW paid \in Nat, SettledTo(o, paid)
  PROVE  \A q \in Orders : /\ order'[q].grand = order[q].grand
                           /\ Placed(q)' <=> Placed(q)
                           /\ order'[q].due <= order[q].grand
<1>1. /\ order \in [Orders -> OrderDoc] /\ order[o] \in OrderDoc /\ order[o].grand \in Nat
      /\ \A q \in Orders : order[q].due <= order[q].grand
  BY DEF WholeInv, MoneyTypes, SettleTypeOK, DueInBill, OrderDoc
<1> DEFINE doc == Settled(order[o], paid)
<1>2. /\ doc.status = order[o].status /\ doc.grand = order[o].grand
      /\ doc.due = Due(order[o].grand, paid)
  BY <1>1, SettledDoc
<1>3. Due(order[o].grand, paid) <= order[o].grand
  BY <1>1, DueIsPart
<1> HIDE DEF doc
<1>4. order'[o] = doc /\ \A q \in Orders \ {o} : order'[q] = order[q]
  BY <1>1 DEF SettledTo, doc
<1>5. QED
  BY <1>1, <1>2, <1>3, <1>4 DEF Placed

LEMMA PayingKeepsTotals ==
  ASSUME WholeInv, PayBill \/ EndBill
  PROVE  \A q \in Orders : /\ order'[q].grand = order[q].grand
                           /\ Placed(q)' <=> Placed(q)
                           /\ order'[q].due <= order[q].grand
<1> DEFINE Goal == \A q \in Orders : /\ order'[q].grand = order[q].grand
                                     /\ Placed(q)' <=> Placed(q)
                                     /\ order'[q].due <= order[q].grand
<1>t. /\ order \in [Orders -> OrderDoc] /\ payment \in [Payments -> PaymentDoc]
      /\ \A p \in Payments : payment[p].status # "none" => payment[p].order \in Orders
      /\ \A q \in Orders : order[q].due <= order[q].grand
      /\ \A q \in Orders : order[q].paid \in Nat /\ order[q].grand \in Nat /\ order[q].due \in Nat
      /\ \A p \in Payments : payment[p].amount \in Nat
  BY DEF WholeInv, MoneyTypes, SettleTypeOK, PaymentsNamed, DueInBill, OrderDoc, PaymentDoc
<1>1. ASSUME NEW o \in Orders, NEW st, NEW k, NEW p \in Payments,
             NEW a \in {1, order[o].due} \ {0}, RecordPayment(o, a, st, k, p)
      PROVE  Goal
  <2> DEFINE paid == order[o].paid + (IF st = "completed" THEN a ELSE 0)
  <2>1. SettledTo(o, paid)
    BY <1>1 DEF RecordPayment, SettledTo
  <2>2. paid \in Nat
    BY <1>t
  <2> HIDE DEF paid
  <2>3. QED
    BY <2>1, <2>2, SettlingKeepsTotal
<1>2. ASSUME NEW p \in Payments, NEW st, UpdatePaymentStatus(p, st) PROVE Goal
  <2> DEFINE o    == payment[p].order
             left == order[o].paid + Delta(p, st)
             paid == IF left < 0 THEN 0 ELSE left
  <2>1. o \in Orders /\ SettledTo(o, paid)
    BY <1>2, <1>t DEF UpdatePaymentStatus, SettledTo, Delta
  <2>2. left \in Int
    BY <1>t, <2>1 DEF Delta
  <2> HIDE DEF left, o
  <2>3. paid \in Nat
    BY <2>2
  <2> HIDE DEF paid
  <2>4. QED
    BY <2>1, <2>3, SettlingKeepsTotal
<1>3. ASSUME NEW p \in Payments, RefundPayment(p) PROVE Goal
  <2> DEFINE o    == payment[p].order
             left == order[o].paid - payment[p].amount
             paid == IF left < 0 THEN 0 ELSE left
  <2>1. o \in Orders /\ SettledTo(o, paid)
    BY <1>3, <1>t DEF RefundPayment, SettledTo
  <2>2. left \in Int
    BY <1>t, <2>1
  <2> HIDE DEF left, o
  <2>3. paid \in Nat
    BY <2>2
  <2> HIDE DEF paid
  <2>4. QED
    BY <2>1, <2>3, SettlingKeepsTotal
<1>4. ASSUME NEW o \in Orders, CancelOrderWrite(o) PROVE Goal
  <2> DEFINE doc == Cancelled(order[o])
  <2>1. doc.grand = order[o].grand /\ doc.due = 0 /\ doc.status # "none"
    BY <1>t DEF Cancelled, OrderDoc
  <2>2. Placed(o) /\ order' = [order EXCEPT ![o] = doc]
    BY <1>4 DEF CancelOrderWrite
  <2> HIDE DEF doc
  <2>3. order'[o] = doc /\ \A q \in Orders \ {o} : order'[q] = order[q]
    BY <1>t, <2>2
  <2>4. QED
    BY <1>t, <2>1, <2>2, <2>3 DEF Placed
<1>5. ASSUME NEW o \in Orders, CompleteOrderWrite(o) PROVE Goal
  <2> DEFINE doc == Completed(order[o])
  <2>1. doc.grand = order[o].grand /\ doc.due = order[o].due /\ doc.status # "none"
    BY <1>t DEF Completed, OrderDoc
  <2>2. Placed(o) /\ order' = [order EXCEPT ![o] = doc]
    BY <1>5 DEF CompleteOrderWrite
  <2> HIDE DEF doc
  <2>3. order'[o] = doc /\ \A q \in Orders \ {o} : order'[q] = order[q]
    BY <1>t, <2>2
  <2>4. QED
    BY <1>t, <2>1, <2>2, <2>3 DEF Placed
<1> HIDE DEF Goal
<1>6. Goal
  BY <1>1, <1>2, <1>3, <1>4, <1>5 DEF PayBill, EndBill
<1>7. QED
  BY <1>6 DEF Goal

(* Each operation keeps the whole invariant, and is a step of the ledger or   *)
(* leaves it alone; none of the lines it takes from gets dearer.              *)
LEMMA WholeStep ==
  ASSUME MaxTotal > 0, WholeInv, [BillsNext]_<<settleVars, billVars>>
  PROVE  /\ WholeInv' /\ [SettleNext]_settleVars
         /\ \A q \in Orders : NoneDearer(q)
<1>1. BillsInv'
  BY InvStep DEF WholeInv
<1>2. ASSUME NEW o \in Orders, NEW cart \in Carts, NEW spec \in Discounts,
             PlaceBill(o, cart, spec, "sentToKitchen") \/ ExtendBill(o, cart, spec)
      PROVE  SumsKept' /\ DueInBill' /\ SettleNext /\ \A q \in Orders : NoneDearer(q)
  <2>1. CASE PlaceBill(o, cart, spec, "sentToKitchen")
    <3>1. /\ \E g \in Money : PlaceOrder(o, g, "sentToKitchen")
          /\ SumsKept' /\ DueInBill' /\ \A q \in Orders : NoneDearer(q)
      BY <2>1, PlacingIsWhole
    <3>2. "sentToKitchen" \in OrderStatus
      BY DEF OrderStatus
    <3>3. SettleNext
      BY <3>1, <3>2 DEF SettleNext
    <3>4. QED
      BY <3>1, <3>3
  <2>2. CASE ExtendBill(o, cart, spec)
    <3>1. /\ \E g \in Money : ExtendOrder(o, g)
          /\ SumsKept' /\ DueInBill' /\ \A q \in Orders : NoneDearer(q)
      BY <2>2, ExtendingIsWhole
    <3>2. SettleNext
      BY <3>1 DEF SettleNext
    <3>3. QED
      BY <3>1, <3>2
  <2>3. QED
    BY <1>2, <2>1, <2>2
<1>3. ASSUME NEW o \in Orders, NEW cut \in Cuts(o), CancelItems(o, cut)
      PROVE  SumsKept' /\ DueInBill' /\ SettleNext /\ \A q \in Orders : NoneDearer(q)
  <2>1. /\ \E g \in Money, st \in OrderStatus : RepriceOrder(o, g, st)
        /\ SumsKept' /\ DueInBill' /\ \A q \in Orders : NoneDearer(q)
    BY <1>3, CancellingIsWhole
  <2>2. SettleNext
    BY <2>1 DEF SettleNext
  <2>3. QED
    BY <2>1, <2>2
<1>4. ASSUME UNCHANGED <<settleVars, lines, sums>>
      PROVE  SumsKept' /\ DueInBill' /\ UNCHANGED settleVars /\ \A q \in Orders : NoneDearer(q)
  <2>1. lines' = lines /\ sums' = sums /\ order' = order /\ UNCHANGED settleVars
    BY <1>4 DEF settleVars
  <2>2. \A q \in Orders : /\ order'[q].grand = order[q].grand
                          /\ Placed(q)' <=> Placed(q)
                          /\ order'[q].due <= order[q].grand
    BY <2>1 DEF Placed, WholeInv, DueInBill
  <2>3. QED
    BY <2>1, <2>2, BillsUntouched
<1>5. ASSUME PayBill \/ EndBill, UNCHANGED billVars
      PROVE  SumsKept' /\ DueInBill' /\ SettleNext /\ \A q \in Orders : NoneDearer(q)
  <2>1. lines' = lines /\ sums' = sums
    BY <1>5 DEF billVars
  <2>2. QED
    BY <1>5, <2>1, PayingIsSettling, PayingKeepsTotals, BillsUntouched
<1>6. SumsKept' /\ DueInBill' /\ [SettleNext]_settleVars /\ \A q \in Orders : NoneDearer(q)
  <2>1. CASE \E i \in Items, p \in Prices : EditPrice(i, p)
    BY <2>1, <1>4 DEF EditPrice
  <2>2. CASE UNCHANGED <<settleVars, billVars>>
    BY <2>2, <1>4 DEF billVars
  <2>3. QED
    BY <1>2, <1>3, <1>5, <2>1, <2>2 DEF BillsNext
<1>7. MoneyTypes'
  BY <1>6, MoneyTypesStep DEF WholeInv
<1>8. QED
  BY <1>1, <1>6, <1>7 DEF WholeInv

LEMMA WholeAlways == ASSUME MaxTotal > 0 PROVE BillsSpec => []WholeInv
<1>1. WholeInv /\ [BillsNext]_<<settleVars, billVars>> => WholeInv'
  BY WholeStep
<1>2. QED
  BY <1>1, WholeInitially, PTL DEF BillsSpec

(* A bill adds up (BillAddsUp), for every menu and after every sequence of    *)
(* submissions, discounts and cancellations: its total is the sum of the      *)
(* totals of its lines, what was ordered less the discounts and the tax on    *)
(* top, the taxable amount and the two parts of the tax, and the total of the *)
(* order the payments are held against.                                       *)
THEOREM BillsAlwaysAddUp == ASSUME MaxTotal > 0 PROVE BillsSpec => []BillAddsUp
<1>1. WholeInv => BillAddsUp
  <2> SUFFICES ASSUME WholeInv, NEW o \in Orders
               PROVE  LET s     == sums[o]
                          onTop == SumFunction([i \in DOMAIN lines[o] |->
                                      IF i \in TaxInside THEN 0 ELSE lines[o][i].tax])
                      IN  /\ s.grand = SumFunction([i \in DOMAIN lines[o] |-> lines[o][i].total])
                          /\ s.grand = s.sub - s.disc + onTop
                          /\ s.taxable + s.cgst + s.sgst = s.grand
                          /\ Placed(o) => s.grand = order[o].grand
    BY DEF BillAddsUp
  <2>1. AllPriced(lines[o])
    BY DEF WholeInv, BillsInv, LinesPriced, AllPriced
  <2>2. sums[o] = Totals(lines[o]) /\ (Placed(o) => sums[o].grand = order[o].grand)
    BY DEF WholeInv, SumsKept
  <2>3. QED
    BY <2>1, <2>2, TotalsAddUp
<1>2. QED
  BY <1>1, WholeAlways, PTL

(* Every discount of every bill is allocated exactly (AllocationExact).       *)
THEOREM AllocationIsExact == BillsSpec => []AllocationExact
<1>1. BillsInv => AllocationExact
  <2> SUFFICES ASSUME BillsInv, NEW o \in Orders,
                      NEW d \in 1..SumFunction([i \in DOMAIN lines[o] |-> lines[o][i].sub])
               PROVE  LET sub   == [i \in DOMAIN lines[o] |-> lines[o][i].sub]
                          total == SumFunction(sub)
                      IN  \E share \in {Shares(sub, d)} :
                            /\ SumFunction(share) = d
                            /\ \A i \in DOMAIN sub :
                                 /\ share[i] <= sub[i]
                                 /\ share[i] * total < sub[i] * d + total
                                 /\ sub[i] * d < share[i] * total + total
    BY DEF AllocationExact
  <2> DEFINE sub == [i \in DOMAIN lines[o] |-> lines[o][i].sub]
  <2>1. AllPriced(lines[o])
    BY DEF BillsInv, LinesPriced, AllPriced
  <2>2. IsFiniteSet(DOMAIN sub) /\ DOMAIN sub \subseteq Nat
    BY <2>1, MenuIsFinite
  <2>3. \A i \in DOMAIN sub : sub[i] \in Nat
    <3>1. TAKE i \in DOMAIN sub
    <3>2. i \in Items /\ IsPriced(i, lines[o][i])
      BY <2>1 DEF AllPriced
    <3>3. QED
      BY <3>2, LineFacts
  <2>4. d \in 1..SumFunction(sub)
    OBVIOUS
  <2> HIDE DEF sub
  <2>5. LET share == Shares(sub, d)
            total == SumFunction(sub)
        IN  /\ SumFunction(share) = d
            /\ \A i \in DOMAIN sub :
                 /\ share[i] \in Nat /\ share[i] <= sub[i]
                 /\ share[i] * total < sub[i] * d + total
                 /\ sub[i] * d < share[i] * total + total
    BY <2>2, <2>3, <2>4, SharesAreExact
  <2>6. QED
    BY <2>5 DEF sub
<1>2. QED
  BY <1>1, LinesStayPriced, PTL

(* Cancelling items makes no bill dearer, and no line of it                   *)
(* (CancellingNeverRaises): the discount a line keeps is rounded, so is its   *)
(* tax, and neither takes back what the items cost.                           *)
THEOREM CancellingNeverMakesDearer ==
  ASSUME MaxTotal > 0 PROVE BillsSpec => CancellingNeverRaises
<1>1. WholeInv /\ [BillsNext]_<<settleVars, billVars>>
        => [\A o \in Orders : \A i \in DOMAIN lines[o] :
              lines'[o][i].qty < lines[o][i].qty =>
                lines'[o][i].total <= lines[o][i].total /\ sums'[o].grand <= sums[o].grand
           ]_<<settleVars, billVars>>
  BY WholeStep DEF NoneDearer
<1>2. QED
  BY <1>1, WholeAlways, PTL DEF BillsSpec, CancellingNeverRaises

(* The priced bill implements the ledger (PricedBillsKeepLedger): each step   *)
(* is one of Settlement's, and what the ledger takes for granted of the       *)
(* totals it is given, the prices give it: a submission without a discount    *)
(* makes a total no smaller, a cancellation makes it no larger, and it is     *)
(* zero when nothing is left.                                                 *)
THEOREM PricedBillsAreLedger == ASSUME MaxTotal > 0 PROVE BillsSpec => PricedBillsKeepLedger
<1>1. BillsInit => SettleInit
  BY DEF BillsInit
<1>2. WholeInv /\ [BillsNext]_<<settleVars, billVars>>
        => [UNCHANGED settleVars \/ SettleNext]_settleVars
  BY WholeStep
<1>3. QED
  BY <1>1, <1>2, WholeAlways, PTL DEF BillsSpec, PricedBillsKeepLedger

(* What holds of the ledger holds of the priced bill: while a payment is      *)
(* refunded once, what an order says was paid is the sum of its payments.     *)
COROLLARY BillsAreBalanced ==
  ASSUME MaxTotal > 0, ~RepeatRefunds PROVE BillsSpec => []LedgerBalanced
<1>1. WholeInv /\ [BillsNext]_<<settleVars, billVars>> => [SettleNext]_settleVars
  BY WholeStep
<1>2. BillsInit => SettleInit
  BY DEF BillsInit
<1>3. SettleSpec => []LedgerBalanced
  BY LedgerIsBalanced
<1>4. QED
  BY <1>1, <1>2, <1>3, WholeAlways, PTL DEF BillsSpec, SettleSpec
=============================================================================
