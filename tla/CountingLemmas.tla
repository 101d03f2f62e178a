--------------------------- MODULE CountingLemmas ---------------------------
(* What the proofs about schedules need of numbers, sums and finite sets. The provers *)
(* cannot instantiate the induction theorems of the library; an induction is a proof   *)
(* that no number is the least for which a statement fails.                            *)
EXTENDS Integers, FiniteSets, SequencesExt, FiniteSetTheorems, WellFoundedInduction, TLAPS

\* Every set of natural numbers has a least element.
LEMMA Least ==
    ASSUME NEW T \in SUBSET Nat, T # {}
    PROVE  \E n \in T : \A m \in T : n <= m
<1> DEFINE R == OpToRel(<, Nat)
<1>1. IsWellFoundedOn(R, Nat)  BY NatLessThanWellFounded
<1>2. \A m, n \in Nat : m < n => <<m, n>> \in R  BY DEF OpToRel
<1> HIDE DEF R
<1>3. PICK n \in T : \A m \in T : <<m, n>> \notin R
  BY ONLY <1>1, T \subseteq Nat, T # {}, WFMin
<1>4. \A m \in T : ~(m < n)  BY <1>2, <1>3
<1> QED  BY <1>4

\* Induction, on sets: one that holds 0, and with a number the next, holds them all.
LEMMA Induction ==
    ASSUME NEW P \in SUBSET Nat, 0 \in P, \A n \in P : n + 1 \in P
    PROVE  P = Nat
<1> SUFFICES ASSUME Nat \ P # {}  PROVE FALSE
  OBVIOUS
<1>1. PICK n \in Nat \ P : \A m \in Nat \ P : n <= m  BY Least
<1>2. n # 0 /\ n - 1 \in Nat  BY <1>1
<1>3. n - 1 \in P  BY <1>1, <1>2
<1>4. (n - 1) + 1 \in P  BY <1>3
<1> QED  BY <1>1, <1>4

\* Max of a set of numbers with a bound is its greatest element.
LEMMA Greatest ==
    ASSUME NEW n \in Nat, NEW S \in SUBSET (0..n), S # {}
    PROVE  Max(S) \in S /\ \A x \in S : x <= Max(S)
<1> DEFINE T == {d \in Nat : n - d \in S}
<1>1. T # {}
  <2>1. PICK x \in S : TRUE  OBVIOUS
  <2>2. n - x \in Nat /\ n - (n - x) = x  OBVIOUS
  <2> QED  BY <2>1, <2>2
<1>2. PICK d \in T : \A e \in T : d <= e  BY <1>1, Least
<1>3. n - d \in S  BY <1>2
<1>4. ASSUME NEW x \in S
      PROVE  x <= n - d
  <2>1. n - x \in Nat /\ n - (n - x) = x /\ d \in Nat /\ x \in Nat  OBVIOUS
  <2>2. n - x \in T  BY <2>1
  <2>3. d <= n - x  BY <1>2, <2>2
  <2> QED  BY <2>1, <2>3
<1>5. \E x \in S : \A y \in S : x >= y
  <2>1. \A y \in S : n - d >= y  BY <1>3, <1>4
  <2> QED  BY <1>3, <2>1
<1>6. Max(S) \in S /\ \A y \in S : Max(S) >= y
  BY <1>5 DEF Max
<1>7. \A x \in S : x <= Max(S)
  <2> HIDE DEF T
  <2> QED  BY <1>6
<1> QED  BY <1>6, <1>7

----------------------------------------------------------------------------
\* Products and quotients.
LEMMA ProductOrder ==
    ASSUME NEW a \in Int, NEW b \in Int, NEW d \in Nat \ {0}
    PROVE  a * d < b * d <=> a < b
<1> QED  OBVIOUS

LEMMA ProductSame ==
    ASSUME NEW a \in Int, NEW b \in Int, NEW d \in Nat \ {0}, a * d = b * d
    PROVE  a = b
<1> QED  OBVIOUS

LEMMA Quotient ==
    ASSUME NEW a \in Nat, NEW d \in Nat \ {0}
    PROVE  /\ a \div d \in Nat
           /\ (a \div d) * d <= a /\ a < (a \div d) * d + d
<1> QED  OBVIOUS

LEMMA QuotientExact ==
    ASSUME NEW a \in Nat, NEW d \in Nat \ {0}
    PROVE  a * d \in Nat /\ (a * d) \div d = a
<1>1. a * d \in Nat  OBVIOUS
<1>2. PICK q \in Nat : q = (a * d) \div d /\ q * d <= a * d /\ a * d < q * d + d
  BY <1>1, Quotient
<1>3. q * d + d = (q + 1) * d  OBVIOUS
<1>4. ~(a < q) /\ a < q + 1
  <2>1. ~(a * d < q * d)  BY <1>1, <1>2
  <2>2. a * d < (q + 1) * d  BY <1>2, <1>3
  <2> QED  BY <2>1, <2>2, ProductOrder
<1> QED  BY <1>1, <1>2, <1>4

\* A remainder of 0 is a multiple.
LEMMA Multiple ==
    ASSUME NEW a \in Nat, NEW d \in Nat \ {0}
    PROVE  a % d = 0 <=> a = (a \div d) * d
<1> QED  OBVIOUS

\* The same of a number that may be negative.
LEMMA MultipleOf ==
    ASSUME NEW a \in Int, NEW d \in Nat \ {0}, a % d = 0
    PROVE  \E m \in Int : a = m * d
<1>1. a \div d \in Int /\ a = d * (a \div d) + (a % d)  OBVIOUS
<1>2. PICK m \in Int, r \in Int : a = d * m + r /\ r = a % d
  BY ONLY <1>1, a % d = 0
<1>3. a = m * d  BY <1>2
<1> QED  BY <1>3

\* Numbering the pairs of 1..m and 1..n line by line gives each a number of its own.
LEMMA LineNumbers ==
    ASSUME NEW n \in Nat, NEW r \in Nat \ {0}, NEW q \in Nat \ {0}, NEW s \in 1..n, NEW t \in 1..n,
           (r - 1) * n + s = (q - 1) * n + t
    PROVE  r = q /\ s = t
<1>1. ASSUME NEW x \in Nat \ {0}, NEW y \in Nat \ {0}, x < y
      PROVE  (x - 1) * n + n <= (y - 1) * n
  <2>1. (x - 1) * n + n = x * n  OBVIOUS
  <2>2. ~((y - 1) * n < x * n)  BY <1>1, ProductOrder
  <2>3. x * n \in Nat /\ (y - 1) * n \in Nat  OBVIOUS
  <2> QED  BY <2>1, <2>2, <2>3
<1>2. (r - 1) * n \in Nat /\ (q - 1) * n \in Nat  OBVIOUS
<1>3. CASE r < q
  <2>1. (r - 1) * n + n <= (q - 1) * n  BY <1>1, <1>3
  <2> QED  BY <1>2, <2>1
<1>4. CASE q < r
  <2>1. (q - 1) * n + n <= (r - 1) * n  BY <1>1, <1>4
  <2> QED  BY <1>2, <2>1
<1>5. CASE r = q  BY <1>2, <1>5
<1> QED  BY <1>3, <1>4, <1>5

----------------------------------------------------------------------------
\* The subsets of a finite set, and what removing an element does to their size.
LEMMA Smaller ==
    ASSUME NEW S, IsFiniteSet(S), NEW T \in SUBSET S
    PROVE  /\ IsFiniteSet(T) /\ Cardinality(T) \in Nat
           /\ Cardinality(T) = 0 <=> T = {}
           /\ \A x \in T : Cardinality(T \ {x}) = Cardinality(T) - 1
<1>1. IsFiniteSet(T)  BY FS_Subset
<1>2. Cardinality(T) \in Nat  BY <1>1, FS_CardinalityType
<1>3. Cardinality(T) = 0 <=> T = {}  BY <1>1, FS_EmptySet
<1>4. ASSUME NEW x \in T
      PROVE  Cardinality(T \ {x}) = Cardinality(T) - 1
  BY <1>1, FS_RemoveElement
<1> QED  BY <1>1, <1>2, <1>3, <1>4

\* A function on the subsets of S may be defined by recursion: a set c chooses from has
\* the value E gives to that element and to the value of the rest.
Recurses(h, S, V, base, E, c) ==
    /\ h \in [SUBSET S -> V]
    /\ \A T \in SUBSET S : h[T] = IF T = {} THEN base ELSE E[c[T]][h[T \ {c[T]}]]

LEMMA Recursion ==
    ASSUME NEW S, IsFiniteSet(S), NEW V, NEW base \in V,
           NEW E, \A x \in S : \A v \in V : E[x][v] \in V,
           NEW c, \A T \in SUBSET S : T # {} => c[T] \in T
    PROVE  \E h : Recurses(h, S, V, base, E, c)
<1> DEFINE Solves(h, T) == h[T] = IF T = {} THEN base ELSE E[c[T]][h[T \ {c[T]}]]
           P == {n \in Nat : \E h \in [SUBSET S -> V] :
                                \A T \in SUBSET S : Cardinality(T) <= n => Solves(h, T)}
<1>1. 0 \in P
  <2> DEFINE h == [T \in SUBSET S |-> base]
  <2>1. h \in [SUBSET S -> V]  OBVIOUS
  <2>2. ASSUME NEW T \in SUBSET S, Cardinality(T) <= 0
        PROVE  Solves(h, T)
    <3>1. T = {}  BY <2>2, Smaller
    <3> QED  BY <3>1
  <2> QED  BY <2>1, <2>2
<1>2. ASSUME NEW n \in P
      PROVE  n + 1 \in P
  <2>1. PICK g \in [SUBSET S -> V] :
            \A T \in SUBSET S : Cardinality(T) <= n => Solves(g, T)
    OBVIOUS
  <2> DEFINE h == [T \in SUBSET S |-> IF Cardinality(T) <= n THEN g[T]
                                     ELSE E[c[T]][g[T \ {c[T]}]]]
  <2>2. h \in [SUBSET S -> V]
    <3>1. ASSUME NEW T \in SUBSET S, ~(Cardinality(T) <= n)
          PROVE  E[c[T]][g[T \ {c[T]}]] \in V
      <4>1. n \in Nat /\ Cardinality(T) \in Nat  BY Smaller
      <4>2. T # {}  BY <3>1, <4>1, Smaller
      <4>3. c[T] \in S /\ T \ {c[T]} \in SUBSET S  BY <4>2
      <4>4. g[T \ {c[T]}] \in V  BY <2>1, <4>3
      <4> QED  BY <4>3, <4>4
    <3>2. \A T \in SUBSET S : g[T] \in V  BY <2>1
    <3> QED  BY <3>1, <3>2
  <2>3. ASSUME NEW T \in SUBSET S, Cardinality(T) <= n + 1
        PROVE  Solves(h, T)
    <3>1. n \in Nat /\ Cardinality(T) \in Nat  BY Smaller
    <3>2. CASE T = {}
      <4>1. Cardinality(T) <= n  BY <3>1, <3>2, Smaller
      <4>2. Solves(g, T)  BY <2>1, <4>1
      <4> QED  BY <3>2, <4>1, <4>2
    <3>3. CASE T # {}
      <4> DEFINE U == T \ {c[T]}
      <4>1. c[T] \in T /\ U \in SUBSET S /\ Cardinality(U) = Cardinality(T) - 1
        BY <3>3, Smaller
      <4>2. Cardinality(U) <= n  BY <2>3, <3>1, <4>1
      <4>3. h[U] = g[U]  BY <4>1, <4>2
      <4>4. h[T] = E[c[T]][g[U]]
        <5>1. CASE Cardinality(T) <= n
          <6>1. Solves(g, T)  BY <2>1, <5>1
          <6> QED  BY <3>3, <5>1, <6>1
        <5>2. CASE ~(Cardinality(T) <= n)  BY <5>2
        <5> QED  BY <5>1, <5>2
      <4> QED  BY <3>3, <4>3, <4>4
    <3> QED  BY <3>2, <3>3
  <2>4. n + 1 \in Nat  OBVIOUS
  <2> HIDE DEF h, Solves
  <2> QED  BY <2>2, <2>3, <2>4
<1>3. P = Nat
  <2>1. P \in SUBSET Nat  OBVIOUS
  <2> HIDE DEF P
  <2> QED  BY <1>1, <1>2, <2>1, Induction
<1>4. Cardinality(S) \in P  BY <1>3, FS_CardinalityType
<1>5. PICK h \in [SUBSET S -> V] :
          \A T \in SUBSET S : Cardinality(T) <= Cardinality(S) => Solves(h, T)
  BY <1>4
<1>6. \A T \in SUBSET S : Cardinality(T) <= Cardinality(S)  BY FS_Subset
<1>7. \A T \in SUBSET S : Solves(h, T)  BY <1>5, <1>6
<1> QED  BY <1>7 DEF Recurses
----------------------------------------------------------------------------
\* Sums: h gives each subset of S the sum of f over it, added up in the order of CHOOSE.
AddsUp(h, f, S) ==
    \A T \in SUBSET S :
        h[T] = IF T = {} THEN 0
               ELSE f[CHOOSE x \in T : TRUE] + h[T \ {CHOOSE x \in T : TRUE}]

Total(f, S) == FoldFunctionOnSet(+, 0, f, S)

\* The fold of the library is well-defined.
LEMMA TotalDef ==
    ASSUME NEW S, IsFiniteSet(S), NEW f, \A x \in S : f[x] \in Nat
    PROVE  \E h : AddsUp(h, f, S) /\ Total(f, S) = h[S]
<1> DEFINE Eq(h) == h = [T \in SUBSET S |->
                          IF T = {} THEN 0
                          ELSE f[CHOOSE x \in T : TRUE] + h[T \ {CHOOSE x \in T : TRUE}]]
<1>1. \E h : Eq(h)
  <2> DEFINE E == [x \in S |-> [v \in Nat |-> f[x] + v]]
             c == [T \in SUBSET S |-> CHOOSE x \in T : TRUE]
  <2>1. \A x \in S : \A v \in Nat : E[x][v] = f[x] + v /\ E[x][v] \in Nat  OBVIOUS
  <2>2. \A T \in SUBSET S : c[T] = CHOOSE x \in T : TRUE  OBVIOUS
  <2>3. \A T \in SUBSET S : T # {} => c[T] \in T  OBVIOUS
  <2> HIDE DEF E, c
  <2>4. PICK h \in [SUBSET S -> Nat] : \A T \in SUBSET S :
            h[T] = IF T = {} THEN 0 ELSE E[c[T]][h[T \ {c[T]}]]
    <3>1. \A x \in S : \A v \in Nat : E[x][v] \in Nat  BY <2>1
    <3>2. 0 \in Nat /\ IsFiniteSet(S)  OBVIOUS
    <3>3. \E h : Recurses(h, S, Nat, 0, E, c)  BY ONLY <2>3, <3>1, <3>2, Recursion
    <3> QED  BY <3>3 DEF Recurses
  <2>5. ASSUME NEW T \in SUBSET S, T # {}
        PROVE  E[c[T]][h[T \ {c[T]}]] = f[c[T]] + h[T \ {c[T]}]
    <3>1. c[T] \in S /\ h[T \ {c[T]}] \in Nat  BY <2>3, <2>4, <2>5
    <3> QED  BY <2>1, <3>1
  <2>6. \A T \in SUBSET S : h[T] = IF T = {} THEN 0 ELSE f[c[T]] + h[T \ {c[T]}]
    BY <2>4, <2>5
  <2>7. ASSUME NEW T \in SUBSET S
        PROVE  h[T] = IF T = {} THEN 0
                      ELSE f[CHOOSE x \in T : TRUE] + h[T \ {CHOOSE x \in T : TRUE}]
    <3>1. c[T] = CHOOSE x \in T : TRUE  BY <2>2
    <3>2. h[T] = IF T = {} THEN 0 ELSE f[c[T]] + h[T \ {c[T]}]  BY <2>6
    <3> QED  BY <3>1, <3>2
  <2>8. Eq(h)  BY <2>4, <2>7
  <2> HIDE DEF Eq
  <2> QED  BY <2>8
<1>2. Total(f, S) = (CHOOSE h : Eq(h))[S]
  BY DEF Total, FoldFunctionOnSet, MapThenFoldSet
<1>3. PICK h : Eq(h) /\ h = CHOOSE g : Eq(g)  BY <1>1
<1>4. AddsUp(h, f, S)  BY <1>3 DEF AddsUp
<1> QED  BY <1>2, <1>3, <1>4

\* The sum does not depend on the order: any element may be taken out first.
LEMMA AddsUpAnyOrder ==
    ASSUME NEW S, IsFiniteSet(S), NEW f, \A x \in S : f[x] \in Nat, NEW h, AddsUp(h, f, S)
    PROVE  \A T \in SUBSET S : h[T] \in Nat /\ \A x \in T : h[T] = f[x] + h[T \ {x}]
<1> DEFINE Holds(T) == h[T] \in Nat /\ \A x \in T : h[T] = f[x] + h[T \ {x}]
           P == {n \in Nat : \A T \in SUBSET S : Cardinality(T) <= n => Holds(T)}
<1>0. ASSUME NEW T \in SUBSET S, T = {}
      PROVE  Holds(T)
  BY <1>0 DEF AddsUp
<1>1. 0 \in P
  <2>1. ASSUME NEW T \in SUBSET S, Cardinality(T) <= 0
        PROVE  T = {}
    BY <2>1, Smaller
  <2> HIDE DEF Holds
  <2> QED  BY <1>0, <2>1
<1>2. ASSUME NEW n \in P
      PROVE  n + 1 \in P
  <2>1. ASSUME NEW T \in SUBSET S, Cardinality(T) <= n + 1, T # {}
        PROVE  Holds(T)
    <3> DEFINE c == CHOOSE x \in T : TRUE
    <3>1. c \in T /\ h[T] = f[c] + h[T \ {c}]  BY <2>1 DEF AddsUp
    <3> HIDE DEF c
    <3>2. n \in Nat /\ Cardinality(T) \in Nat  BY Smaller
    <3>3. ASSUME NEW x \in T
          PROVE  Holds(T \ {x})
      <4>1. T \ {x} \in SUBSET S /\ Cardinality(T \ {x}) = Cardinality(T) - 1  BY Smaller
      <4>2. Cardinality(T \ {x}) <= n  BY <2>1, <3>2, <4>1
      <4> QED  BY <4>1, <4>2
    <3>4. h[T] \in Nat
      <4>1. f[c] \in Nat /\ h[T \ {c}] \in Nat  BY <3>1, <3>3
      <4> QED  BY <3>1, <4>1
    <3>5. ASSUME NEW x \in T, x # c
          PROVE  h[T] = f[x] + h[T \ {x}]
      <4>1. h[T \ {c}] = f[x] + h[(T \ {c}) \ {x}]  BY <3>1, <3>3, <3>5
      <4>2. h[T \ {x}] = f[c] + h[(T \ {x}) \ {c}]  BY <3>1, <3>3, <3>5
      <4>3. (T \ {c}) \ {x} = (T \ {x}) \ {c}  OBVIOUS
      <4>4. h[(T \ {c}) \ {x}] \in Nat
        <5>1. h[T \ {x}] \in Nat /\ f[c] \in Nat  BY <3>1, <3>3
        <5>2. T \ {x} \in SUBSET S /\ c \in T \ {x}  BY <3>1, <3>5
        <5>3. Cardinality((T \ {x}) \ {c}) <= n
          <6>1. /\ Cardinality(T \ {x}) = Cardinality(T) - 1
                /\ Cardinality((T \ {x}) \ {c}) = Cardinality(T \ {x}) - 1
            BY <5>2, Smaller
          <6> QED  BY <2>1, <3>2, <6>1
        <5>4. Holds((T \ {x}) \ {c})  BY <5>3
        <5> QED  BY <4>3, <5>4
      <4>5. f[x] \in Nat /\ f[c] \in Nat  BY <3>1
      <4>6. PICK r \in Nat : r = h[(T \ {c}) \ {x}]  BY <4>4
      <4>7. h[T] = f[c] + (f[x] + r) /\ h[T \ {x}] = f[c] + r
        BY <3>1, <4>1, <4>2, <4>3, <4>6
      <4>8. f[c] + (f[x] + r) = f[x] + (f[c] + r)  BY <4>5
      <4> QED  BY <4>7, <4>8
    <3> QED  BY <3>1, <3>4, <3>5
  <2>2. n + 1 \in Nat  OBVIOUS
  <2> HIDE DEF Holds
  <2> QED  BY <1>0, <2>1, <2>2
<1>3. P = Nat
  <2>1. P \in SUBSET Nat  OBVIOUS
  <2> HIDE DEF P
  <2> QED  BY <1>1, <1>2, <2>1, Induction
<1>4. ASSUME NEW T \in SUBSET S
      PROVE  Holds(T)
  <2>1. Cardinality(T) \in Nat  BY Smaller
  <2>2. Cardinality(T) \in P  BY <1>3, <2>1
  <2>3. Cardinality(T) <= Cardinality(T)  BY <2>1
  <2> HIDE DEF Holds
  <2> QED  BY <2>2, <2>3
<1> QED  BY <1>4
\* The functions that add up agree where both do.
LEMMA AddsUpUnique ==
    ASSUME NEW S, IsFiniteSet(S), NEW T \in SUBSET S, NEW f,
           NEW h, AddsUp(h, f, S), NEW g, AddsUp(g, f, T)
    PROVE  h[T] = g[T]
<1> DEFINE P == {n \in Nat : \A U \in SUBSET T : Cardinality(U) <= n => h[U] = g[U]}
<1>0. ASSUME NEW U \in SUBSET T, U = {}
      PROVE  h[U] = g[U]
  BY <1>0 DEF AddsUp
<1>1. 0 \in P
  <2>1. ASSUME NEW U \in SUBSET T, Cardinality(U) <= 0
        PROVE  U = {}
    BY <2>1, Smaller
  <2> QED  BY <1>0, <2>1
<1>2. ASSUME NEW n \in P
      PROVE  n + 1 \in P
  <2>1. ASSUME NEW U \in SUBSET T, Cardinality(U) <= n + 1, U # {}
        PROVE  h[U] = g[U]
    <3> DEFINE c == CHOOSE x \in U : TRUE
    <3>1. c \in U /\ h[U] = f[c] + h[U \ {c}] /\ g[U] = f[c] + g[U \ {c}]
      BY <2>1 DEF AddsUp
    <3> HIDE DEF c
    <3>2. n \in Nat /\ Cardinality(U) \in Nat /\ Cardinality(U \ {c}) = Cardinality(U) - 1
      BY <3>1, Smaller
    <3>3. U \ {c} \in SUBSET T /\ Cardinality(U \ {c}) <= n  BY <2>1, <3>2
    <3>4. h[U \ {c}] = g[U \ {c}]  BY <3>3
    <3> QED  BY <3>1, <3>4
  <2>2. n + 1 \in Nat  OBVIOUS
  <2> QED  BY <1>0, <2>1, <2>2
<1>3. P = Nat
  <2>1. P \in SUBSET Nat  OBVIOUS
  <2> HIDE DEF P
  <2> QED  BY <1>1, <1>2, <2>1, Induction
<1>4. Cardinality(T) \in Nat  BY Smaller
<1>5. Cardinality(T) \in P /\ Cardinality(T) <= Cardinality(T)  BY <1>3, <1>4
<1> QED  BY <1>5

\* The sum over a set: 0 for the empty one, otherwise any element and the sum of the rest.
LEMMA TotalFacts ==
    ASSUME NEW S, IsFiniteSet(S), NEW f, \A x \in S : f[x] \in Nat
    PROVE  /\ Total(f, S) \in Nat
           /\ S = {} => Total(f, S) = 0
           /\ \A x \in S : Total(f, S) = f[x] + Total(f, S \ {x})
<1>1. PICK h : AddsUp(h, f, S) /\ Total(f, S) = h[S]  BY TotalDef
<1>2. Total(f, S) \in Nat  BY <1>1, AddsUpAnyOrder
<1>3. S = {} => Total(f, S) = 0  BY <1>1 DEF AddsUp
<1>4. ASSUME NEW x \in S
      PROVE  Total(f, S) = f[x] + Total(f, S \ {x})
  <2>1. h[S] = f[x] + h[S \ {x}]  BY <1>1, AddsUpAnyOrder
  <2>2. IsFiniteSet(S \ {x}) /\ \A y \in S \ {x} : f[y] \in Nat  BY FS_RemoveElement
  <2>3. PICK g : AddsUp(g, f, S \ {x}) /\ Total(f, S \ {x}) = g[S \ {x}]
    BY <2>2, TotalDef
  <2>4. h[S \ {x}] = g[S \ {x}]  BY <1>1, <2>3, AddsUpUnique
  <2> QED  BY <1>1, <2>1, <2>3, <2>4
<1> QED  BY <1>2, <1>3, <1>4

\* The sums over the first elements of a sequence.
LEMMA PrefixTotal ==
    ASSUME NEW n \in Nat, NEW f, \A i \in 1..(n + 1) : f[i] \in Nat
    PROVE  /\ Total(f, 1..0) = 0 /\ Total(f, 1..n) \in Nat
           /\ Total(f, 1..(n + 1)) = Total(f, 1..n) + f[n + 1]
<1>1. /\ IsFiniteSet(1..0) /\ IsFiniteSet(1..n) /\ IsFiniteSet(1..(n + 1)) /\ 1..0 = {}
  BY FS_Interval
<1>2. \A x \in 1..0 : f[x] \in Nat  OBVIOUS
<1>3. \A x \in 1..n : f[x] \in Nat  OBVIOUS
<1>4. Total(f, 1..0) = 0  BY <1>1, <1>2, TotalFacts
<1>5. Total(f, 1..n) \in Nat  BY <1>1, <1>3, TotalFacts
<1>6. n + 1 \in 1..(n + 1) /\ (1..(n + 1)) \ {n + 1} = 1..n  OBVIOUS
<1>7. Total(f, 1..(n + 1)) = f[n + 1] + Total(f, (1..(n + 1)) \ {n + 1})
  BY <1>1, <1>6, TotalFacts
<1>8. f[n + 1] \in Nat  OBVIOUS
<1>9. Total(f, 1..(n + 1)) = f[n + 1] + Total(f, 1..n)  BY <1>6, <1>7
<1>10. f[n + 1] + Total(f, 1..n) = Total(f, 1..n) + f[n + 1]  BY <1>5, <1>8
<1> QED  BY <1>4, <1>5, <1>9, <1>10

\* The sum depends on the values in the set only.
LEMMA TotalSame ==
    ASSUME NEW S, IsFiniteSet(S), NEW f, NEW g, \A x \in S : f[x] \in Nat /\ g[x] = f[x]
    PROVE  Total(g, S) = Total(f, S)
<1>1. PICK h : AddsUp(h, f, S) /\ Total(f, S) = h[S]  BY TotalDef
<1>2. PICK e : AddsUp(e, g, S) /\ Total(g, S) = e[S]  BY TotalDef
<1>3. AddsUp(e, f, S)
  <2> SUFFICES ASSUME NEW T \in SUBSET S
               PROVE  e[T] = IF T = {} THEN 0
                             ELSE f[CHOOSE x \in T : TRUE] + e[T \ {CHOOSE x \in T : TRUE}]
    BY DEF AddsUp
  <2> DEFINE c == CHOOSE x \in T : TRUE
  <2>1. e[T] = IF T = {} THEN 0 ELSE g[c] + e[T \ {c}]  BY <1>2 DEF AddsUp
  <2>2. T # {} => g[c] = f[c]  OBVIOUS
  <2> QED  BY <2>1, <2>2
<1>4. S \in SUBSET S  OBVIOUS
<1>5. h[S] = e[S]  BY <1>1, <1>3, <1>4, AddsUpUnique
<1> QED  BY <1>1, <1>2, <1>5

\* The sum over two sets with no element in common.
LEMMA TotalOfBoth ==
    ASSUME NEW S, IsFiniteSet(S), NEW R, IsFiniteSet(R), \A x \in R : x \notin S,
           NEW f, \A x \in S \cup R : f[x] \in Nat
    PROVE  Total(f, S \cup R) = Total(f, S) + Total(f, R)
<1> DEFINE Sums(T) == Total(f, S \cup T) = Total(f, S) + Total(f, T)
           P == {n \in Nat : \A T \in SUBSET R : Cardinality(T) <= n => Sums(T)}
<1>0. Total(f, S) \in Nat  BY TotalFacts
<1>1. ASSUME NEW T \in SUBSET R, T = {}
      PROVE  Sums(T)
  <2>1. IsFiniteSet(T) /\ \A x \in T : f[x] \in Nat  BY <1>1, FS_EmptySet
  <2>2. Total(f, T) = 0  BY <1>1, <2>1, TotalFacts
  <2>3. S \cup T = S  BY <1>1
  <2> QED  BY <1>0, <2>2, <2>3
<1>2. 0 \in P
  <2>1. ASSUME NEW T \in SUBSET R, Cardinality(T) <= 0
        PROVE  T = {}
    BY <2>1, Smaller
  <2> HIDE DEF Sums
  <2> QED  BY <1>1, <2>1
<1>3. ASSUME NEW n \in P
      PROVE  n + 1 \in P
  <2>1. ASSUME NEW T \in SUBSET R, Cardinality(T) <= n + 1, T # {}
        PROVE  Sums(T)
    <3>1. PICK x \in T : TRUE  BY <2>1
    <3>2. n \in Nat /\ Cardinality(T) \in Nat /\ Cardinality(T \ {x}) = Cardinality(T) - 1
      BY Smaller
    <3>3. T \ {x} \in SUBSET R /\ Cardinality(T \ {x}) <= n  BY <2>1, <3>2
    <3>4. Sums(T \ {x})  BY <3>3
    <3>5. IsFiniteSet(T) /\ IsFiniteSet(S \cup T) /\ IsFiniteSet(T \ {x})
      <4>1. IsFiniteSet(T) /\ IsFiniteSet(T \ {x})  BY Smaller
      <4>2. IsFiniteSet(S \cup T)  BY <4>1, FS_Union
      <4> QED  BY <4>1, <4>2
    <3>6. (S \cup T) \ {x} = S \cup (T \ {x})  BY <3>1
    <3>7. \A y \in S \cup T : f[y] \in Nat  OBVIOUS
    <3>8. Total(f, S \cup T) = f[x] + Total(f, S \cup (T \ {x}))
      BY <3>1, <3>5, <3>6, <3>7, TotalFacts
    <3>9. Total(f, T) = f[x] + Total(f, T \ {x})  BY <3>1, <3>5, <3>7, TotalFacts
    <3>10. f[x] \in Nat /\ Total(f, T \ {x}) \in Nat  BY <3>1, <3>5, <3>7, TotalFacts
    <3>11. Total(f, S \cup (T \ {x})) = Total(f, S) + Total(f, T \ {x})  BY <3>4
    <3>12. PICK a \in Nat, b \in Nat, d \in Nat :
               a = f[x] /\ b = Total(f, S) /\ d = Total(f, T \ {x})
      BY <1>0, <3>10
    <3>13. Total(f, S \cup T) = a + (b + d) /\ Total(f, T) = a + d
      BY <3>8, <3>9, <3>11, <3>12
    <3>14. a + (b + d) = b + (a + d)  OBVIOUS
    <3> QED  BY <3>12, <3>13, <3>14
  <2>2. n + 1 \in Nat  OBVIOUS
  <2> HIDE DEF Sums
  <2> QED  BY <1>1, <2>1, <2>2
<1>4. P = Nat
  <2>1. P \in SUBSET Nat  OBVIOUS
  <2> HIDE DEF P
  <2> QED  BY <1>2, <1>3, <2>1, Induction
<1>5. Cardinality(R) \in Nat  BY FS_CardinalityType
<1>6. Cardinality(R) \in P /\ Cardinality(R) <= Cardinality(R)  BY <1>4, <1>5
<1>7. R \in SUBSET R  OBVIOUS
<1>8. Sums(R)
  <2> HIDE DEF Sums
  <2> QED  BY <1>6, <1>7
<1> QED  BY <1>8

\* n values of at most m each.
LEMMA TotalAtMost ==
    ASSUME NEW n \in Nat, NEW m \in Nat, NEW f, \A i \in 1..n : f[i] \in 0..m
    PROVE  Total(f, 1..n) \in Nat /\ Total(f, 1..n) <= m * n
<1> DEFINE P == {l \in Nat : l <= n => Total(f, 1..l) \in Nat /\ Total(f, 1..l) <= m * l}
<1>1. 0 \in P
  <2>1. \A x \in {} : f[x] \in Nat  OBVIOUS
  <2>2. Total(f, {}) = 0  BY <2>1, FS_EmptySet, TotalFacts
  <2>3. 1..0 = {} /\ m * 0 = 0  OBVIOUS
  <2> QED  BY <2>2, <2>3
<1>2. ASSUME NEW l \in P
      PROVE  l + 1 \in P
  <2> SUFFICES ASSUME l + 1 <= n
               PROVE  /\ Total(f, 1..(l + 1)) \in Nat
                      /\ Total(f, 1..(l + 1)) <= m * (l + 1)
    OBVIOUS
  <2>1. l \in Nat /\ Total(f, 1..l) \in Nat /\ Total(f, 1..l) <= m * l  OBVIOUS
  <2>2. l + 1 \in 1..n /\ f[l + 1] \in 0..m  BY <2>1
  <2>3. \A i \in 1..(l + 1) : f[i] \in Nat  BY <2>1
  <2>4. Total(f, 1..(l + 1)) = Total(f, 1..l) + f[l + 1]  BY <2>1, <2>3, PrefixTotal
  <2>5. PICK a \in Nat, b \in Nat : a = Total(f, 1..l) /\ b = f[l + 1] /\ b <= m
    BY <2>1, <2>2
  <2>6. PICK c \in Nat : c = m * l  BY <2>1
  <2>7. m * (l + 1) = c + m  BY <2>1, <2>6
  <2>8. Total(f, 1..(l + 1)) = a + b /\ a <= c  BY <2>1, <2>4, <2>5, <2>6
  <2> QED  BY <2>5, <2>7, <2>8
<1>3. P = Nat
  <2>1. P \in SUBSET Nat  OBVIOUS
  <2> HIDE DEF P
  <2> QED  BY <1>1, <1>2, <2>1, Induction
<1>4. n \in P
  <2> HIDE DEF P
  <2> QED  BY <1>3
<1>5. n <= n  OBVIOUS
<1> QED  BY <1>4, <1>5

\* k sets whose sums are at least m each, no two with an element in common.
LEMMA TotalOfSets ==
    ASSUME NEW k \in Nat, NEW m \in Nat, NEW B, NEW f,
           \A i \in 1..k : /\ IsFiniteSet(B[i]) /\ \A x \in B[i] : f[x] \in Nat
                           /\ m <= Total(f, B[i]),
           \A i, j \in 1..k : \A x : x \in B[i] /\ x \in B[j] => i = j,
           NEW S, \A x : x \in S <=> \E i \in 1..k : x \in B[i]
    PROVE  m * k <= Total(f, S)
<1> DEFINE U(n) == UNION {B[i] : i \in 1..n}
           P == {n \in Nat : n <= k =>
                    /\ IsFiniteSet(U(n)) /\ \A x \in U(n) : f[x] \in Nat
                    /\ m * n <= Total(f, U(n))}
<1>1. 0 \in P
  <2>1. U(0) = {}  OBVIOUS
  <2>2. IsFiniteSet(U(0))  BY <2>1, FS_EmptySet
  <2>3. \A x \in U(0) : f[x] \in Nat  BY <2>1
  <2>4. m * 0 = 0  OBVIOUS
  <2> HIDE DEF U
  <2>5. Total(f, U(0)) = 0  BY <2>1, <2>2, <2>3, TotalFacts
  <2> QED  BY <2>2, <2>3, <2>4, <2>5
<1>2. ASSUME NEW n \in P
      PROVE  n + 1 \in P
  <2> SUFFICES ASSUME n + 1 <= k
               PROVE  /\ IsFiniteSet(U(n + 1)) /\ \A x \in U(n + 1) : f[x] \in Nat
                      /\ m * (n + 1) <= Total(f, U(n + 1))
    OBVIOUS
  <2>1. n \in Nat /\ n + 1 \in 1..k /\ n <= k  OBVIOUS
  <2>2. /\ IsFiniteSet(U(n)) /\ \A x \in U(n) : f[x] \in Nat
        /\ m * n <= Total(f, U(n))
    BY <2>1
  <2>3. U(n + 1) = U(n) \cup B[n + 1]
    <3>1. 1..(n + 1) = (1..n) \cup {n + 1}  BY <2>1
    <3> QED  BY <3>1
  <2>4. \A x \in B[n + 1] : x \notin U(n)
    <3>1. ASSUME NEW x, x \in U(n), x \in B[n + 1]
          PROVE  FALSE
      <4>1. PICK i \in 1..n : x \in B[i]  BY <3>1
      <4>2. i \in 1..k /\ i # n + 1  BY <2>1
      <4> QED  BY <2>1, <3>1, <4>1, <4>2
    <3> HIDE DEF U
    <3> QED  BY <3>1
  <2>5. /\ IsFiniteSet(B[n + 1]) /\ \A x \in B[n + 1] : f[x] \in Nat
        /\ m <= Total(f, B[n + 1])
    BY <2>1
  <2> HIDE DEF U
  <2>6. IsFiniteSet(U(n + 1)) /\ \A x \in U(n + 1) : f[x] \in Nat
    <3>1. IsFiniteSet(U(n) \cup B[n + 1])  BY <2>2, <2>5, FS_Union
    <3> QED  BY <2>2, <2>3, <2>5, <3>1
  <2>7. Total(f, U(n + 1)) = Total(f, U(n)) + Total(f, B[n + 1])
    BY <2>2, <2>3, <2>4, <2>5, <2>6, TotalOfBoth
  <2>8. Total(f, U(n)) \in Nat /\ Total(f, B[n + 1]) \in Nat  BY <2>2, <2>5, TotalFacts
  <2>9. PICK c \in Nat : c = m * n  BY <2>1
  <2>10. m * (n + 1) = c + m  BY <2>1, <2>9
  <2>11. m * (n + 1) <= Total(f, U(n + 1))
    BY <2>2, <2>5, <2>7, <2>8, <2>9, <2>10
  <2> QED  BY <2>6, <2>11
<1>3. P = Nat
  <2>1. P \in SUBSET Nat  OBVIOUS
  <2> HIDE DEF P
  <2> QED  BY <1>1, <1>2, <2>1, Induction
<1>4. k \in P
  <2> HIDE DEF P
  <2> QED  BY <1>3
<1>5. k <= k  OBVIOUS
<1>6. S = U(k)  OBVIOUS
<1> QED  BY <1>4, <1>5, <1>6

----------------------------------------------------------------------------
\* k sets of m elements each, no two with an element in common, have k * m elements.
LEMMA EqualSets ==
    ASSUME NEW k \in Nat, NEW m \in Nat, NEW B,
           \A i \in 1..k : IsFiniteSet(B[i]) /\ Cardinality(B[i]) = m,
           \A i, j \in 1..k : \A x : x \in B[i] /\ x \in B[j] => i = j
    PROVE  Cardinality(UNION {B[i] : i \in 1..k}) = k * m
<1> DEFINE U(n) == UNION {B[i] : i \in 1..n}
           P == {n \in Nat : n <= k => IsFiniteSet(U(n)) /\ Cardinality(U(n)) = n * m}
<1>1. 0 \in P
  <2>1. U(0) = {}  OBVIOUS
  <2>2. IsFiniteSet(U(0)) /\ Cardinality(U(0)) = 0  BY <2>1, FS_EmptySet
  <2>3. 0 * m = 0  OBVIOUS
  <2> HIDE DEF U
  <2> QED  BY <2>2, <2>3
<1>2. ASSUME NEW n \in P
      PROVE  n + 1 \in P
  <2> SUFFICES ASSUME n + 1 <= k
               PROVE  IsFiniteSet(U(n + 1)) /\ Cardinality(U(n + 1)) = (n + 1) * m
    OBVIOUS
  <2>1. n \in Nat /\ n + 1 \in 1..k /\ n <= k  OBVIOUS
  <2>2. IsFiniteSet(U(n)) /\ Cardinality(U(n)) = n * m  BY <2>1
  <2>3. U(n + 1) = U(n) \cup B[n + 1]
    <3>1. 1..(n + 1) = (1..n) \cup {n + 1}  BY <2>1
    <3> QED  BY <3>1
  <2>4. U(n) \cap B[n + 1] = {}
    <3>1. ASSUME NEW x, x \in U(n), x \in B[n + 1]
          PROVE  FALSE
      <4>1. PICK i \in 1..n : x \in B[i]  BY <3>1
      <4>2. i \in 1..k /\ i # n + 1  BY <2>1
      <4> QED  BY <2>1, <3>1, <4>1, <4>2
    <3> HIDE DEF U
    <3> QED  BY <3>1
  <2>5. IsFiniteSet(B[n + 1]) /\ Cardinality(B[n + 1]) = m  BY <2>1
  <2> HIDE DEF U
  <2>6. /\ IsFiniteSet(U(n + 1))
        /\ Cardinality(U(n + 1)) = n * m + m - Cardinality({})
    BY <2>2, <2>3, <2>4, <2>5, FS_Union
  <2>7. Cardinality({}) = 0  BY FS_EmptySet
  <2>8. n * m \in Nat /\ (n + 1) * m = n * m + m  BY <2>1
  <2> QED  BY <2>6, <2>7, <2>8
<1>3. P = Nat
  <2>1. P \in SUBSET Nat  OBVIOUS
  <2> HIDE DEF P
  <2> QED  BY <1>1, <1>2, <2>1, Induction
<1>4. k \in P
  <2> HIDE DEF P
  <2> QED  BY <1>3
<1>5. k <= k  OBVIOUS
<1> QED  BY <1>4, <1>5

\* Counting what does not come after it gives each element of an ordered set its position.
LEMMA Ranking ==
    ASSUME NEW S, IsFiniteSet(S), NEW L,
           \A s \in S : L[s] \in SUBSET S /\ s \in L[s],
           \A s, t \in S : s # t => \/ L[s] \subseteq L[t] /\ t \notin L[s]
                                    \/ L[t] \subseteq L[s] /\ s \notin L[t]
    PROVE  /\ \A s \in S : Cardinality(L[s]) \in 1..Cardinality(S)
           /\ \A s, t \in S : Cardinality(L[s]) = Cardinality(L[t]) => s = t
           /\ \A n \in 1..Cardinality(S) : \E s \in S : Cardinality(L[s]) = n
<1>1. \A s \in S : IsFiniteSet(L[s])  BY FS_Subset
<1>2. ASSUME NEW s \in S
      PROVE  Cardinality(L[s]) \in 1..Cardinality(S)
  <2>1. Cardinality(L[s]) \in Nat /\ Cardinality(L[s]) # 0  BY Smaller
  <2>2. Cardinality(L[s]) <= Cardinality(S) /\ Cardinality(S) \in Nat
    BY FS_Subset, FS_CardinalityType
  <2> QED  BY <2>1, <2>2
<1>3. ASSUME NEW s \in S, NEW t \in S, Cardinality(L[s]) = Cardinality(L[t])
      PROVE  s = t
  <2>1. CASE L[s] \subseteq L[t] /\ t \notin L[s]
    <3>1. L[s] = L[t]  BY <1>1, <1>3, <2>1, FS_Subset
    <3> QED  BY <2>1, <3>1
  <2>2. CASE L[t] \subseteq L[s] /\ s \notin L[t]
    <3>1. L[s] = L[t]  BY <1>1, <1>3, <2>2, FS_Subset
    <3> QED  BY <2>2, <3>1
  <2> QED  BY <2>1, <2>2
<1> DEFINE N == 1..Cardinality(S)
           g == [s \in S |-> Cardinality(L[s])]
<1>4. IsFiniteSet(N) /\ Cardinality(N) = Cardinality(S)
  <2>1. Cardinality(S) \in Nat  BY FS_CardinalityType
  <2> QED  BY <2>1, FS_Interval
<1>5. g \in [S -> N] /\ \A s, t \in S : g[s] = g[t] => s = t  BY <1>2, <1>3
<1>6. g \in Injection(S, N)  BY <1>5 DEF Injection, IsInjective
<1>7. g \in Surjection(S, N)
  <2> HIDE DEF g, N
  <2> QED  BY <1>4, <1>6, FS_Injection
<1>8. \A n \in N : \E s \in S : g[s] = n
  <2> HIDE DEF g, N
  <2> QED  BY <1>7 DEF Surjection
<1> QED  BY <1>2, <1>3, <1>8

\* g numbers the elements of S, 1 to n and maybe more; T has those numbered a to b.
Numbered(g, S, n) ==
    /\ \A s, t \in S : g[s] = g[t] => s = t
    /\ \A i \in 1..n : \E s \in S : g[s] = i

IsSlice(T, g, S, a, b) == \A s : s \in T <=> s \in S /\ g[s] \in a..b

\* As many elements of an ordered set have their positions in an interval as it is long.
LEMMA Between ==
    ASSUME NEW S, NEW n \in Nat, NEW g, Numbered(g, S, n),
           NEW a \in Nat \ {0}, NEW b \in Nat, a <= b + 1, b <= n,
           NEW T, IsSlice(T, g, S, a, b)
    PROVE  Cardinality(T) = b + 1 - a
<1>0. /\ \A s, t \in S : g[s] = g[t] => s = t
      /\ \A i \in 1..n : \E s \in S : g[s] = i
      /\ \A s : s \in T <=> s \in S /\ g[s] \in a..b
  BY DEF Numbered, IsSlice
<1> DEFINE f == [i \in a..b |-> CHOOSE s \in S : g[s] = i]
<1>1. \A i \in a..b : i \in 1..n  OBVIOUS
<1>2. \A i \in a..b : f[i] \in S /\ g[f[i]] = i  BY <1>0, <1>1
<1>3. f \in [a..b -> T]  BY <1>0, <1>2
<1>4. \A i, j \in a..b : f[i] = f[j] => i = j  BY <1>2
<1>5. ASSUME NEW t \in T
      PROVE  \E i \in a..b : f[i] = t
  BY <1>0, <1>2
<1>6. f \in Bijection(a..b, T)
  <2> HIDE DEF f
  <2>1. f \in Injection(a..b, T)  BY <1>3, <1>4 DEF Injection, IsInjective
  <2>2. f \in Surjection(a..b, T)  BY <1>3, <1>5 DEF Surjection
  <2> QED  BY <2>1, <2>2 DEF Bijection
<1>7. ExistsBijection(a..b, T)  BY <1>6 DEF ExistsBijection
<1>8. IsFiniteSet(a..b) /\ Cardinality(a..b) = b + 1 - a
  <2>1. a \in Int /\ b \in Int  OBVIOUS
  <2>2. IsFiniteSet(a..b) /\ Cardinality(a..b) = IF a > b THEN 0 ELSE b - a + 1
    BY <2>1, FS_Interval
  <2>3. (IF a > b THEN 0 ELSE b - a + 1) = b + 1 - a  OBVIOUS
  <2> QED  BY <2>2, <2>3
<1>9. Cardinality(T) = Cardinality(a..b)  BY <1>7, <1>8, FS_Bijection
<1> QED  BY <1>8, <1>9
=============================================================================
