--------------------------- MODULE TrainDataProofs ---------------------------
(* Proofs about TrainData: the differencing of seqlen_balancing.py keeps the sums of *)
(* a state within one sample of each other, and leaves no partition without samples. *)
EXTENDS TrainData, CountingLemmas, SequenceTheorems

\* The sets of samples and their sums.
Bins == [sum : Nat, items : SUBSET (1..kept)]

\* The sets of a state are sorted, and differ by no more than one sample.
Sorted(st) == \A i, j \in DOMAIN st : i < j => st[j].sum <= st[i].sum

Close(st) == \A i, j \in DOMAIN st : \E s \in 1..kept : st[i].sum - st[j].sum <= length[s]

\* A state either has no set without items, or at most one item in each, the empty sets
\* last.
Whole(st) == \A i \in DOMAIN st : st[i].items # {}

Single(st) ==
    /\ \A i \in DOMAIN st : \A x, y \in st[i].items : x = y
    /\ \A i, j \in DOMAIN st : i < j /\ st[i].items = {} => st[j].items = {}

\* A set without items weighs nothing.
Zero(st) == \A i \in DOMAIN st : st[i].items = {} => st[i].sum = 0

Good(st, k) ==
    /\ st \in [1..k -> Bins]
    /\ Sorted(st) /\ Close(st)
    /\ Zero(st) /\ (Whole(st) \/ Single(st))

\* The k sets of the states hold at least k samples.
Covered(k) ==
    \E S \in SUBSET (1..kept) :
        /\ k <= Cardinality(S)
        /\ \A s \in S : \E st \in heap : \E i \in DOMAIN st : s \in st[i].items

JobInv ==
    /\ job \in Jobs
    /\ length \in [1..job.collected -> 1..job.longest]
    /\ kept \in 0..job.collected
    /\ parts \in [Rank -> SUBSET (1..kept)]

PhaseInv ==
    /\ phase = "collected" => kept = 0
    /\ phase \in {"collected", "trimmed", "received", "done", "raised"} => heap = {}

HeapInv ==
    \E k \in Nat \ {0} :
        /\ \A st \in heap : Good(st, k)
        /\ phase = "split" => k = job.dp /\ \A st \in heap : Whole(st)
        /\ phase = "pack" /\ heap # {} => Covered(k)

IInv == JobInv /\ PhaseInv /\ HeapInv

----------------------------------------------------------------------------
\* A function on 1..k is a sequence of length k.
LEMMA LenOf ==
    ASSUME NEW S, NEW k \in Nat, NEW f \in [1..k -> S]
    PROVE  Len(f) = k /\ DOMAIN f = 1..k
<1>1. f \in Seq(S)  BY SeqDef
<1>2. Len(f) \in Nat /\ DOMAIN f = 1..Len(f)  BY <1>1, LenProperties
<1> QED  BY <1>2

\* Sets of samples are finite.
LEMMA FiniteItems ==
    ASSUME kept \in Nat, NEW S \in SUBSET (1..kept)
    PROVE  IsFiniteSet(S) /\ Cardinality(S) \in Nat
<1>1. IsFiniteSet(1..kept)  BY FS_Interval
<1>2. IsFiniteSet(S)  BY <1>1, FS_Subset
<1> QED  BY <1>2, FS_CardinalityType

\* The number of samples kept is a multiple of the global batch size, and no more than
\* there are.
LEMMA WholeBatches ==
    ASSUME NEW c \in Nat, NEW g \in Nat \ {0}
    PROVE  (c \div g) * g \in 0..c /\ c \div g \in Nat
  OBVIOUS

\* The indices of a chunk are positions of the ascending order.
LEMMA ChunkIndex ==
    ASSUME NEW n \in Nat, NEW k \in Nat \ {0}, NEW c \in 0..(n \div k - 1), NEW i \in 1..k
    PROVE  c * k + k + 1 - i \in 1..n
<1>1. c \in Nat /\ c + 1 <= n \div k /\ n \div k \in Nat  BY WholeBatches
<1>2. (c + 1) * k <= (n \div k) * k  BY <1>1
<1>3. (n \div k) * k <= n  BY WholeBatches
<1>4. c * k \in Nat /\ (c + 1) * k = c * k + k  BY <1>1
<1> QED  BY <1>2, <1>3, <1>4, <1>1

\* The fields of a merge: the i-th heaviest of one with the i-th lightest of the other.
LEMMA JoinedType ==
    ASSUME NEW k \in Nat \ {0},
           NEW A \in [1..k -> Bins], NEW B \in [1..k -> Bins]
    PROVE  /\ Joined(A, B) \in [1..k -> Bins]
           /\ \A i \in 1..k :
                 /\ k + 1 - i \in 1..k
                 /\ Joined(A, B)[i].sum = A[i].sum + B[k + 1 - i].sum
                 /\ Joined(A, B)[i].items = A[i].items \cup B[k + 1 - i].items
<1>1. Len(A) = k /\ DOMAIN A = 1..k  BY LenOf
<1>2. \A i \in 1..k : k + 1 - i \in 1..k  OBVIOUS
<1>3. Joined(A, B) = [i \in 1..k |-> [sum |-> A[i].sum + B[k + 1 - i].sum,
                                      items |-> A[i].items \cup B[k + 1 - i].items]]
  BY <1>1 DEF Joined
<1>4. ASSUME NEW i \in 1..k
      PROVE  [sum |-> A[i].sum + B[k + 1 - i].sum,
              items |-> A[i].items \cup B[k + 1 - i].items] \in Bins
  <2>1. A[i] \in Bins /\ B[k + 1 - i] \in Bins  BY <1>2
  <2> QED  BY <2>1 DEF Bins
<1> QED  BY <1>2, <1>3, <1>4

\* What sorting a state leaves: each set is one of the old ones, none is heavier than one
\* before it.
LEMMA OrderedType ==
    ASSUME NEW k \in Nat \ {0}, NEW M \in [1..k -> Bins], NEW t \in Ordered(M)
    PROVE  /\ t \in [1..k -> Bins]
           /\ \A i \in 1..k : \E j \in 1..k : t[i] = M[j]
           /\ \A j \in 1..k : \E i \in 1..k : t[i] = M[j]
           /\ \A i, j \in 1..k : i < j => ~Heavier(t[j], t[i])
<1>1. DOMAIN M = 1..k  OBVIOUS
<1>2. PICK p \in Bijection(1..k, 1..k) : t = [i \in 1..k |-> M[p[i]]]
  BY <1>1 DEF Ordered
<1>3. p \in [1..k -> 1..k] /\ \A j \in 1..k : \E i \in 1..k : p[i] = j
  BY <1>2 DEF Bijection, Injection, Surjection
<1>4. \A i, j \in DOMAIN t : i < j => ~Heavier(t[j], t[i])  BY DEF Ordered
<1> QED  BY <1>2, <1>3, <1>4

----------------------------------------------------------------------------
\* Merging two sorted states and sorting the result keeps the sums close: where one
\* state is uneven the other is uneven the other way.
LEMMA MergeClose ==
    ASSUME NEW k \in Nat \ {0}, kept \in Nat, \A s \in 1..kept : length[s] \in Nat,
           NEW A \in [1..k -> Bins], NEW B \in [1..k -> Bins],
           Sorted(A), Close(A), Sorted(B), Close(B), NEW t \in Ordered(Joined(A, B))
    PROVE  Sorted(t) /\ Close(t)
<1> DEFINE M == Joined(A, B)
<1>1. /\ M \in [1..k -> Bins]
      /\ \A i \in 1..k : k + 1 - i \in 1..k /\ M[i].sum = A[i].sum + B[k + 1 - i].sum
  <2>1. /\ Joined(A, B) \in [1..k -> Bins]
        /\ \A i \in 1..k :
              /\ k + 1 - i \in 1..k
              /\ Joined(A, B)[i].sum = A[i].sum + B[k + 1 - i].sum
    BY JoinedType
  <2> QED  BY <2>1
<1>2. /\ t \in [1..k -> Bins]
      /\ \A i \in 1..k : \E j \in 1..k : t[i] = M[j]
      /\ \A i, j \in 1..k : i < j => ~Heavier(t[j], t[i])
  BY <1>1, OrderedType
<1> HIDE DEF M
<1>3. \A i \in 1..k : A[i].sum \in Nat /\ B[i].sum \in Nat /\ t[i].sum \in Nat
  BY <1>2 DEF Bins
<1>4. ASSUME NEW i \in 1..k, NEW j \in 1..k
      PROVE  \E s \in 1..kept : M[i].sum - M[j].sum <= length[s]
  <2>1. /\ k + 1 - i \in 1..k /\ k + 1 - j \in 1..k
        /\ M[i].sum - M[j].sum
              = (A[i].sum - A[j].sum) + (B[k + 1 - i].sum - B[k + 1 - j].sum)
    <3>1. k + 1 - i \in 1..k /\ k + 1 - j \in 1..k  BY <1>1
    <3>2. /\ M[i].sum = A[i].sum + B[k + 1 - i].sum
          /\ M[j].sum = A[j].sum + B[k + 1 - j].sum
      BY <1>1
    <3>3. /\ A[i].sum \in Nat /\ B[k + 1 - i].sum \in Nat
          /\ A[j].sum \in Nat /\ B[k + 1 - j].sum \in Nat
      BY <1>3, <3>1
    <3> QED  BY <3>1, <3>2, <3>3
  <2>2. PICK s \in 1..kept : A[i].sum - A[j].sum <= length[s]  BY DEF Close
  <2>3. PICK q \in 1..kept : B[k + 1 - i].sum - B[k + 1 - j].sum <= length[q]
    BY <2>1 DEF Close
  <2>4. CASE i < j
    <3>1. k + 1 - j < k + 1 - i  BY <2>4
    <3>2. B[k + 1 - i].sum <= B[k + 1 - j].sum  BY <2>1, <3>1 DEF Sorted
    <3>3. M[i].sum - M[j].sum <= length[s]  BY <1>3, <2>1, <2>2, <3>2
    <3> QED  BY <3>3
  <2>5. CASE j < i
    <3>1. A[i].sum <= A[j].sum  BY <2>5 DEF Sorted
    <3>2. M[i].sum - M[j].sum <= length[q]  BY <1>3, <2>1, <2>3, <3>1
    <3> QED  BY <3>2
  <2>6. CASE i = j
    <3>1. M[i].sum - M[j].sum = 0  BY <1>1, <1>3, <2>1, <2>6
    <3> QED  BY <2>2, <3>1
  <2> QED  BY <2>4, <2>5, <2>6
<1>5. Close(t)
  <2> SUFFICES ASSUME NEW i \in 1..k, NEW j \in 1..k
               PROVE  \E s \in 1..kept : t[i].sum - t[j].sum <= length[s]
    BY <1>2 DEF Close
  <2>1. PICK x \in 1..k, y \in 1..k : t[i] = M[x] /\ t[j] = M[y]  BY <1>2
  <2> QED  BY <1>4, <2>1
<1>6. Sorted(t)
  <2> SUFFICES ASSUME NEW i \in 1..k, NEW j \in 1..k, i < j
               PROVE  t[j].sum <= t[i].sum
    BY <1>2 DEF Sorted
  <2>1. ~(t[j].sum > t[i].sum)  BY <1>2 DEF Heavier
  <2> QED  BY <1>3, <2>1
<1> QED  BY <1>5, <1>6

\* Merging keeps the items: a state without an empty set stays so, and of two states with
\* at most one item in each set comes one of either kind.
LEMMA MergeItems ==
    ASSUME NEW k \in Nat \ {0}, kept \in Nat,
           NEW A \in [1..k -> Bins], NEW B \in [1..k -> Bins],
           Zero(A), Whole(A) \/ Single(A), Zero(B), Whole(B) \/ Single(B),
           NEW t \in Ordered(Joined(A, B))
    PROVE  /\ Zero(t) /\ (Whole(t) \/ Single(t))
           /\ Whole(A) => Whole(t)
           /\ \A x : (\E i \in 1..k : x \in A[i].items \/ x \in B[i].items)
                        => \E i \in 1..k : x \in t[i].items
<1> DEFINE M == Joined(A, B)
<1>1. /\ M \in [1..k -> Bins]
      /\ \A i \in 1..k :
            /\ k + 1 - i \in 1..k
            /\ M[i].sum = A[i].sum + B[k + 1 - i].sum
            /\ M[i].items = A[i].items \cup B[k + 1 - i].items
  BY JoinedType
<1>2. /\ t \in [1..k -> Bins]
      /\ \A i \in 1..k : \E j \in 1..k : t[i] = M[j]
      /\ \A j \in 1..k : \E i \in 1..k : t[i] = M[j]
      /\ \A i, j \in 1..k : i < j => ~Heavier(t[j], t[i])
  BY <1>1, OrderedType
<1> HIDE DEF M
<1>3. ASSUME NEW i \in 1..k, M[i].items = {}
      PROVE  M[i].sum = 0 /\ A[i].items = {} /\ B[k + 1 - i].items = {}
  <2>1. A[i].items = {} /\ B[k + 1 - i].items = {}  BY <1>1, <1>3
  <2>2. A[i].sum = 0 /\ B[k + 1 - i].sum = 0  BY <1>1, <2>1 DEF Zero
  <2> QED  BY <1>1, <2>1, <2>2
<1>4. Zero(t)
  <2> SUFFICES ASSUME NEW i \in 1..k, t[i].items = {}
               PROVE  t[i].sum = 0
    BY <1>2 DEF Zero
  <2>1. PICK j \in 1..k : t[i] = M[j]  BY <1>2
  <2> QED  BY <1>3, <2>1
<1>5. ASSUME \A i \in 1..k : M[i].items # {}
      PROVE  Whole(t)
  <2> SUFFICES ASSUME NEW i \in 1..k
               PROVE  t[i].items # {}
    BY <1>2 DEF Whole
  <2>1. PICK j \in 1..k : t[i] = M[j]  BY <1>2
  <2> QED  BY <1>5, <2>1
<1>6. Whole(A) => Whole(t)
  <2>1. ASSUME Whole(A)
        PROVE  \A i \in 1..k : M[i].items # {}
    <3>1. \A i \in 1..k : A[i].items # {}  BY <2>1 DEF Whole
    <3> QED  BY <1>1, <3>1
  <2> QED  BY <1>5, <2>1
<1>7. Whole(t) \/ Single(t)
  <2>1. CASE Whole(A)  BY <1>6, <2>1
  <2>2. CASE Whole(B)
    <3>1. \A i \in 1..k : B[i].items # {}  BY <2>2 DEF Whole
    <3>2. \A i \in 1..k : M[i].items # {}  BY <1>1, <3>1
    <3> QED  BY <1>5, <3>2
  <2>3. CASE Single(A) /\ Single(B)
    <3> SUFFICES ASSUME NEW e \in 1..k, M[e].items = {}
                 PROVE  Single(t)
      BY <1>5
    <3>1. A[e].items = {} /\ B[k + 1 - e].items = {}  BY <1>3
    <3>2. ASSUME NEW i \in 1..k, NEW x \in M[i].items, NEW y \in M[i].items
          PROVE  x = y
      <4>1. CASE i < e
        <5>1. k + 1 - e < k + 1 - i  BY <4>1
        <5>2. B[k + 1 - i].items = {}
          BY <1>1, <2>3, <3>1, <5>1 DEF Single
        <5>3. x \in A[i].items /\ y \in A[i].items  BY <1>1, <5>2
        <5> QED  BY <2>3, <5>3 DEF Single
      <4>2. CASE ~(i < e)
        <5>1. A[i].items = {}
          BY <2>3, <3>1, <4>2 DEF Single
        <5>2. x \in B[k + 1 - i].items /\ y \in B[k + 1 - i].items /\ k + 1 - i \in 1..k
          BY <1>1, <5>1
        <5> QED  BY <2>3, <5>2 DEF Single
      <4> QED  BY <4>1, <4>2
    <3>3. ASSUME NEW i \in 1..k, NEW x \in t[i].items, NEW y \in t[i].items
          PROVE  x = y
      <4>1. PICK j \in 1..k : t[i] = M[j]  BY <1>2
      <4> QED  BY <3>2, <4>1
    <3>4. ASSUME NEW i \in 1..k, NEW j \in 1..k, i < j, t[i].items = {}
          PROVE  t[j].items = {}
      <4>1. t[i].sum = 0  BY <1>2, <1>4, <3>4 DEF Zero
      <4>2. t[j].sum \in Nat /\ t[j].items \in SUBSET (1..kept)  BY <1>2 DEF Bins
      <4>3. IsFiniteSet(t[j].items) /\ Cardinality(t[j].items) \in Nat
        BY <4>2, FiniteItems
      <4>4. Cardinality(t[i].items) = 0  BY <3>4, FS_EmptySet
      <4>5. ~Heavier(t[j], t[i])  BY <1>2, <3>4
      <4>6. Cardinality(t[j].items) = 0  BY <4>1, <4>2, <4>3, <4>4, <4>5 DEF Heavier
      <4> QED  BY <4>3, <4>6, FS_EmptySet
    <3> QED  BY <1>2, <3>3, <3>4 DEF Single
  <2> QED  BY <2>1, <2>2, <2>3
<1>8. ASSUME NEW x, NEW i \in 1..k, x \in A[i].items \/ x \in B[i].items
      PROVE  \E j \in 1..k : x \in t[j].items
  <2>1. PICK j \in 1..k : x \in M[j].items
    <3>1. CASE x \in A[i].items  BY <1>1, <3>1
    <3>2. CASE x \in B[i].items
      <4>1. k + 1 - i \in 1..k /\ k + 1 - (k + 1 - i) = i  OBVIOUS
      <4>2. x \in M[k + 1 - i].items  BY <1>1, <3>2, <4>1
      <4> QED  BY <4>1, <4>2
    <3> QED  BY <1>8, <3>1, <3>2
  <2>2. PICK q \in 1..k : t[q] = M[j]  BY <1>2
  <2> QED  BY <2>1, <2>2
<1> QED  BY <1>4, <1>6, <1>7, <1>8

----------------------------------------------------------------------------
\* Every sample has one position in the order, and the lengths ascend.
LEMMA AscendingFacts ==
    ASSUME kept \in Nat, \A s \in 1..kept : length[s] \in Nat
    PROVE  /\ Ascending \in [1..kept -> 1..kept]
           /\ \A p, q \in 1..kept : p < q => length[Ascending[p]] <= length[Ascending[q]]
           /\ \A s \in 1..kept : \E p \in 1..kept : Ascending[p] = s
           /\ \A p, q \in 1..kept : Ascending[p] = Ascending[q] => p = q
<1> DEFINE S == 1..kept
           L == [s \in S |-> {q \in S : NotAfter(q, s)}]
<1>1. \A s \in S : L[s] = {q \in S : NotAfter(q, s)} /\ Position(s) = Cardinality(L[s])
  BY DEF Position
<1>2. \A s \in S : s \in Int /\ length[s] \in Nat  OBVIOUS
<1> HIDE DEF L
<1>3. IsFiniteSet(S) /\ Cardinality(S) = kept  BY FS_Interval
<1> HIDE DEF S
<1>4. \A s \in S : L[s] \in SUBSET S /\ s \in L[s]  BY <1>1, <1>2 DEF NotAfter
<1>5. ASSUME NEW s \in S, NEW t \in S, length[s] <= length[t], length[s] = length[t] => s <= t
      PROVE  L[s] \subseteq L[t] /\ (s # t => t \notin L[s])
  <2>1. ASSUME NEW q \in S, NotAfter(q, s)
        PROVE  NotAfter(q, t)
    BY <1>2, <1>5, <2>1 DEF NotAfter
  <2>2. s # t => ~NotAfter(t, s)  BY <1>2, <1>5 DEF NotAfter
  <2> QED  BY <1>1, <2>1, <2>2
<1>6. \A s, t \in S : s # t => \/ L[s] \subseteq L[t] /\ t \notin L[s]
                               \/ L[t] \subseteq L[s] /\ s \notin L[t]
  BY <1>2, <1>5
<1>7. /\ \A s \in S : Cardinality(L[s]) \in 1..Cardinality(S)
      /\ \A s, t \in S : Cardinality(L[s]) = Cardinality(L[t]) => s = t
      /\ \A n \in 1..Cardinality(S) : \E s \in S : Cardinality(L[s]) = n
  BY ONLY <1>3, <1>4, <1>6, Ranking
<1>8. /\ \A s \in S : Position(s) \in S
      /\ \A s, t \in S : Position(s) = Position(t) => s = t
      /\ \A p \in S : \E s \in S : Position(s) = p
  BY <1>1, <1>3, <1>7 DEF S
<1>9. Ascending = [p \in S |-> CHOOSE s \in S : Position(s) = p]  BY DEF Ascending, S
<1>10. \A p \in S : Ascending[p] \in S /\ Position(Ascending[p]) = p  BY <1>8, <1>9
<1>11. Ascending \in [S -> S]  BY <1>9, <1>10
<1>12. \A s \in S : Ascending[Position(s)] = s  BY <1>8, <1>10
<1>13. ASSUME NEW p \in S, NEW q \in S, p < q
       PROVE  length[Ascending[p]] <= length[Ascending[q]]
  <2> SUFFICES ASSUME length[Ascending[q]] < length[Ascending[p]]
               PROVE  FALSE
    BY <1>2, <1>10
  <2>1. L[Ascending[q]] \subseteq L[Ascending[p]]  BY <1>2, <1>5, <1>10
  <2>2. IsFiniteSet(L[Ascending[p]])  BY <1>3, <1>4, <1>10, FS_Subset
  <2>3. Cardinality(L[Ascending[q]]) <= Cardinality(L[Ascending[p]])
    BY <2>1, <2>2, FS_Subset
  <2>4. q <= p  BY <1>1, <1>10, <2>3
  <2> QED  BY <1>2, <1>13, <2>4
<1> QED  BY <1>8, <1>10, <1>11, <1>12, <1>13 DEF S

\* A chunk of equal_size: its samples are neighbours in the order of their lengths.
LEMMA ChunksGood ==
    ASSUME kept \in Nat, \A s \in 1..kept : length[s] \in Nat, NEW k \in Nat \ {0},
           NEW st \in Chunks(k)
    PROVE  Good(st, k) /\ Whole(st)
<1> DEFINE order == Ascending
<1>1. order \in [1..kept -> 1..kept]  BY AscendingFacts
<1>2. PICK c \in 0..(kept \div k - 1) : st = [i \in 1..k |-> One(order[c * k + k + 1 - i])]
  BY DEF Chunks
<1>0. \A p, q \in 1..kept : p < q => length[order[p]] <= length[order[q]]  BY AscendingFacts
<1> HIDE DEF order
<1> DEFINE at(i) == c * k + k + 1 - i
<1>3. \A i \in 1..k : at(i) \in 1..kept  BY ChunkIndex
<1>4. c * k + k \in Int  BY WholeBatches
<1>5. \A i \in 1..k : st[i] = [sum |-> length[order[at(i)]], items |-> {order[at(i)]}]
  BY <1>2 DEF One
<1>6. \A i, j \in 1..k : i < j => at(j) < at(i)  BY <1>4
<1>7. DOMAIN st = 1..k  BY <1>2
<1> HIDE DEF at
<1>8. \A i \in 1..k :
          /\ order[at(i)] \in 1..kept /\ length[order[at(i)]] \in Nat
          /\ st[i].sum = length[order[at(i)]] /\ st[i].items = {order[at(i)]}
  <2>1. \A p \in 1..kept : order[p] \in 1..kept /\ length[order[p]] \in Nat  BY <1>1
  <2>2. ASSUME NEW i \in 1..k
        PROVE  order[at(i)] \in 1..kept /\ length[order[at(i)]] \in Nat
    BY <1>3, <2>1
  <2>3. ASSUME NEW i \in 1..k
        PROVE  st[i].sum = length[order[at(i)]] /\ st[i].items = {order[at(i)]}
    <3>1. st[i] = [sum |-> length[order[at(i)]], items |-> {order[at(i)]}]  BY <1>5
    <3> QED  BY <3>1
  <2> QED  BY <2>2, <2>3
<1>9. st \in [1..k -> Bins]
  <2>1. \A i \in 1..k : [sum |-> length[order[at(i)]], items |-> {order[at(i)]}] \in Bins
    BY <1>8 DEF Bins
  <2> QED  BY <1>2, <1>5, <2>1
<1>10. Sorted(st)
  <2> SUFFICES ASSUME NEW i \in 1..k, NEW j \in 1..k, i < j
               PROVE  st[j].sum <= st[i].sum
    BY <1>7 DEF Sorted
  <2>1. at(j) < at(i) /\ at(i) \in 1..kept /\ at(j) \in 1..kept  BY <1>3, <1>6
  <2>2. length[order[at(j)]] <= length[order[at(i)]]  BY <1>0, <2>1
  <2> QED  BY <1>8, <2>2
<1>11. Close(st)
  <2> SUFFICES ASSUME NEW i \in 1..k, NEW j \in 1..k
               PROVE  st[i].sum - st[j].sum <= length[order[at(i)]]
    BY <1>7, <1>8 DEF Close
  <2> QED  BY <1>8
<1>12. Whole(st) /\ Zero(st)  BY <1>7, <1>8 DEF Whole, Zero
<1> QED  BY <1>9, <1>10, <1>11, <1>12 DEF Good

\* The first states without equal_size: one sample, and empty sets.
LEMMA SinglesGood ==
    ASSUME kept \in Nat, \A s \in 1..kept : length[s] \in Nat, NEW k \in Nat \ {0},
           NEW S \in SUBSET (1..kept), NEW st \in Singles(S, k)
    PROVE  Good(st, k)
<1>1. PICK s \in S : st = [i \in 1..k |-> IF i = 1 THEN One(s) ELSE Empty]  BY DEF Singles
<1>2. DOMAIN st = 1..k /\ s \in 1..kept /\ length[s] \in Nat  BY <1>1
<1>3. \A i \in 1..k :
          /\ st[i].sum = IF i = 1 THEN length[s] ELSE 0
          /\ st[i].items = IF i = 1 THEN {s} ELSE {}
  BY <1>1 DEF One, Empty
<1>4. st \in [1..k -> Bins]
  <2>1. One(s) \in Bins /\ Empty \in Bins  BY <1>2 DEF Bins, One, Empty
  <2> QED  BY <1>1, <2>1
<1>5. Sorted(st)  BY <1>2, <1>3 DEF Sorted
<1>6. Close(st)
  <2>1. \A i, j \in 1..k : st[i].sum - st[j].sum <= length[s]  BY <1>2, <1>3
  <2> QED  BY <1>2, <2>1 DEF Close
<1>7. Zero(st)  BY <1>2, <1>3 DEF Zero
<1>8. Single(st)  BY <1>2, <1>3 DEF Single
<1> QED  BY <1>4, <1>5, <1>6, <1>7, <1>8 DEF Good

----------------------------------------------------------------------------
\* The numbers of a job.
LEMMA JobFacts ==
    ASSUME JobInv
    PROVE  /\ kept \in Nat /\ job.dp \in Nat \ {0} /\ job.collected \in Nat
           /\ job.globalBatch \in Nat \ {0}
           /\ \A s \in 1..kept : length[s] \in Nat
<1>1. /\ job.collected \in Nat \ {0} /\ job.dp \in Nat \ {0}
      /\ job.globalBatch \in Nat \ {0} /\ job.longest \in Nat \ {0}
  BY JobsAssumption DEF JobInv
<1>2. kept \in 0..job.collected /\ length \in [1..job.collected -> 1..job.longest]
  BY DEF JobInv
<1>3. \A s \in 1..job.collected : length[s] \in Nat  BY <1>1, <1>2
<1> QED  BY <1>1, <1>2, <1>3

\* What is said of a state of the heap depends on kept and length only.
LEMMA SameGood ==
    ASSUME kept' = kept, length' = length, NEW st, NEW k
    PROVE  Good(st, k)' <=> Good(st, k)
  BY DEF Good, Sorted, Close, Zero, Whole, Single, Bins

\* Steps that leave an empty heap.
LEMMA NoHeap ==
    ASSUME heap' = {}, job' = job, job.dp \in Nat \ {0}
    PROVE  HeapInv'
  BY DEF HeapInv

LEMMA InitInv == Init => IInv
<1> SUFFICES ASSUME Init  PROVE IInv
  OBVIOUS
<1>1. job.dp \in Nat \ {0} /\ job.collected \in Nat  BY JobsAssumption DEF Init
<1>2. JobInv  BY <1>1 DEF Init, JobInv, Rank
<1>3. PhaseInv  BY DEF Init, PhaseInv
<1>4. HeapInv  BY <1>1 DEF Init, HeapInv
<1> QED  BY <1>2, <1>3, <1>4 DEF IInv

LEMMA TrimInv ==
    ASSUME IInv, Trim
    PROVE  IInv'
<1>1. JobInv /\ PhaseInv  BY DEF IInv
<1>2. job.dp \in Nat \ {0} /\ job.collected \in Nat /\ job.globalBatch \in Nat \ {0}
  BY <1>1, JobFacts
<1>3. GlobalBatch \in Nat \ {0}
  <2>1. (job.collected \div job.dp) * job.dp \in Nat  BY <1>2, WholeBatches
  <2> QED  BY <1>2, <2>1 DEF GlobalBatch
<1>4. kept' \in 0..job.collected  BY <1>2, <1>3, WholeBatches DEF Trim
<1>5. /\ job' = job /\ length' = length /\ parts' = parts /\ heap' = {} /\ kept = 0
      /\ phase' \in {"raised", "trimmed"}
  BY <1>1 DEF Trim, PhaseInv
<1>6. JobInv'
  <2>1. parts \in [Rank -> SUBSET (1..0)] /\ 1..0 \subseteq 1..kept'
    BY <1>1, <1>5 DEF JobInv
  <2> QED  BY <1>1, <1>4, <1>5, <2>1 DEF JobInv, Rank
<1>7. PhaseInv'  BY <1>5 DEF PhaseInv
<1>8. HeapInv'  BY <1>2, <1>5, NoHeap
<1> QED  BY <1>6, <1>7, <1>8 DEF IInv

LEMMA SplitInv ==
    ASSUME IInv, Split
    PROVE  IInv'
<1>1. JobInv /\ PhaseInv  BY DEF IInv
<1>2. /\ kept \in Nat /\ job.dp \in Nat \ {0}
      /\ \A s \in 1..kept : length[s] \in Nat
  BY <1>1, JobFacts
<1>3. /\ job' = job /\ length' = length /\ kept' = kept /\ heap = {}
      /\ phase = "trimmed"
  BY <1>1 DEF Split, PhaseInv
<1>4. CASE job.balance
  <2>1. parts' = parts /\ phase' \in {"split", "failed"} /\ heap' = Chunks(job.dp)
    BY <1>4 DEF Split
  <2>3. \A st \in heap' : Good(st, job.dp) /\ Whole(st)  BY <1>2, <2>1, ChunksGood
  <2>4. \A st \in heap' : Good(st, job.dp)'  BY <1>3, <2>3, SameGood
  <2>5. HeapInv'  BY <1>2, <1>3, <2>1, <2>3, <2>4 DEF HeapInv, Whole
  <2>6. JobInv'  BY <1>1, <1>3, <2>1 DEF JobInv, Rank
  <2>7. PhaseInv'  BY <2>1 DEF PhaseInv
  <2> QED  BY <2>5, <2>6, <2>7 DEF IInv
<1>5. CASE ~job.balance
  <2>1. parts' = [r \in Rank |-> Strided(r)] /\ phase' = "received" /\ heap' = {}
    BY <1>3, <1>5 DEF Split
  <2>2. parts' \in [Rank -> SUBSET (1..kept)]  BY <2>1 DEF Strided
  <2>3. JobInv'  BY <1>1, <1>3, <2>2 DEF JobInv, Rank
  <2>4. PhaseInv'  BY <2>1 DEF PhaseInv
  <2>5. HeapInv'  BY <1>2, <1>3, <2>1, NoHeap
  <2> QED  BY <2>3, <2>4, <2>5 DEF IInv
<1> QED  BY <1>4, <1>5

LEMMA MergeInv ==
    ASSUME IInv, Merge
    PROVE  IInv'
<1>1. JobInv /\ PhaseInv /\ HeapInv  BY DEF IInv
<1>2. kept \in Nat /\ \A s \in 1..kept : length[s] \in Nat  BY <1>1, JobFacts
<1>3. /\ job' = job /\ length' = length /\ kept' = kept /\ parts' = parts
      /\ phase' = phase /\ phase \in {"split", "pack"}
  BY DEF Merge
<1>4. PICK A, B, t :
          /\ A \in First(heap) /\ B \in First(heap \ {A}) /\ t \in Ordered(Joined(A, B))
          /\ heap' = (heap \ {A, B}) \cup {t}
  BY DEF Merge
<1>5. A \in heap /\ B \in heap  BY <1>4 DEF First
<1>6. PICK k \in Nat \ {0} :
          /\ \A st \in heap : Good(st, k)
          /\ phase = "split" => k = job.dp /\ \A st \in heap : Whole(st)
          /\ phase = "pack" /\ heap # {} => Covered(k)
  BY <1>1 DEF HeapInv
<1>7. /\ A \in [1..k -> Bins] /\ Sorted(A) /\ Close(A) /\ Zero(A) /\ (Whole(A) \/ Single(A))
      /\ B \in [1..k -> Bins] /\ Sorted(B) /\ Close(B) /\ Zero(B) /\ (Whole(B) \/ Single(B))
  BY <1>5, <1>6 DEF Good
<1>8. t \in [1..k -> Bins]  BY <1>4, <1>7, JoinedType, OrderedType
<1>9. Sorted(t) /\ Close(t)  BY <1>2, <1>4, <1>7, MergeClose
<1>10. /\ Zero(t) /\ (Whole(t) \/ Single(t))
       /\ Whole(A) => Whole(t)
       /\ \A x : (\E i \in 1..k : x \in A[i].items \/ x \in B[i].items)
                    => \E i \in 1..k : x \in t[i].items
  BY <1>2, <1>4, <1>7, MergeItems
<1>11. \A st \in heap' : Good(st, k)  BY <1>4, <1>6, <1>8, <1>9, <1>10 DEF Good
<1>12. \A st \in heap' : Good(st, k)'  BY <1>3, <1>11, SameGood
<1>13. phase' = "split" => k = job.dp /\ \A st \in heap' : Whole(st)
  BY <1>3, <1>4, <1>5, <1>6, <1>10
<1>14. ASSUME phase = "pack"
       PROVE  Covered(k)'
  <2>1. PICK S \in SUBSET (1..kept) :
            /\ k <= Cardinality(S)
            /\ \A s \in S : \E st \in heap : \E i \in DOMAIN st : s \in st[i].items
    BY <1>5, <1>6, <1>14 DEF Covered
  <2>2. ASSUME NEW s \in S
        PROVE  \E st \in heap' : \E i \in DOMAIN st : s \in st[i].items
    <3>1. PICK st, i : st \in heap /\ i \in DOMAIN st /\ s \in st[i].items  BY <2>1
    <3>2. CASE st \in {A, B}
      <4>1. \E j \in 1..k : s \in t[j].items  BY <1>7, <1>10, <3>1, <3>2
      <4> QED  BY <1>4, <1>8, <4>1
    <3>3. CASE st \notin {A, B}  BY <1>4, <3>1, <3>3
    <3> QED  BY <3>2, <3>3
  <2> QED  BY <1>3, <2>1, <2>2 DEF Covered
<1>15. HeapInv'
  <2>1. \A st \in heap' : Whole(st)' <=> Whole(st)  BY DEF Whole
  <2> QED  BY <1>3, <1>12, <1>13, <1>14, <2>1 DEF HeapInv
<1>16. JobInv'  BY <1>1, <1>3 DEF JobInv, Rank
<1>17. PhaseInv'  BY <1>3 DEF PhaseInv
<1> QED  BY <1>15, <1>16, <1>17 DEF IInv

LEMMA SplitEndInv ==
    ASSUME IInv, SplitEnd
    PROVE  IInv'
<1>1. JobInv /\ PhaseInv /\ HeapInv  BY DEF IInv
<1>2. job.dp \in Nat \ {0}  BY <1>1, JobFacts
<1>3. /\ job' = job /\ length' = length /\ kept' = kept /\ heap' = {}
      /\ phase = "split" /\ phase' \in {"received", "failed"}
  BY DEF SplitEnd
<1>4. PICK st \in heap : parts' = [r \in Rank |-> st[r].items]  BY DEF SplitEnd
<1>5. st \in [1..job.dp -> Bins]
  <2>1. PICK k \in Nat \ {0} : Good(st, k) /\ k = job.dp  BY <1>1, <1>3 DEF HeapInv
  <2> QED  BY <2>1 DEF Good
<1>6. parts' \in [Rank -> SUBSET (1..kept)]  BY <1>4, <1>5 DEF Rank, Bins
<1>7. JobInv'  BY <1>1, <1>3, <1>6 DEF JobInv, Rank
<1>8. PhaseInv'  BY <1>3 DEF PhaseInv
<1>9. HeapInv'  BY <1>2, <1>3, NoHeap
<1> QED  BY <1>7, <1>8, <1>9 DEF IInv

LEMMA IterateInv ==
    ASSUME IInv, Iterate
    PROVE  IInv'
<1>1. JobInv /\ PhaseInv  BY DEF IInv
<1>2. job.dp \in Nat \ {0}  BY <1>1, JobFacts
<1>3. /\ job' = job /\ length' = length /\ kept' = kept /\ parts' = parts
      /\ phase' \in {"pack", "done"} /\ heap' = {}
  BY <1>1 DEF Iterate, PhaseInv
<1>4. JobInv'  BY <1>1, <1>3 DEF JobInv, Rank
<1>5. PhaseInv'  BY <1>3 DEF PhaseInv
<1>6. HeapInv'  BY <1>2, <1>3, NoHeap
<1> QED  BY <1>4, <1>5, <1>6 DEF IInv

LEMMA PackInv ==
    ASSUME IInv, phase = "pack", NEW r \in Rank, NEW step \in 1..Steps, Pack(r, step)
    PROVE  IInv'
<1>1. JobInv /\ PhaseInv /\ HeapInv  BY DEF IInv
<1>2. /\ kept \in Nat /\ job.dp \in Nat \ {0}
      /\ \A s \in 1..kept : length[s] \in Nat
  BY <1>1, JobFacts
<1>3. /\ job' = job /\ length' = length /\ kept' = kept /\ parts' = parts
      /\ heap = {} /\ phase' \in {"pack", "failed"}
  BY DEF Pack
<1>4. JobInv'  BY <1>1, <1>3 DEF JobInv, Rank
<1>5. PhaseInv'  BY <1>3 DEF PhaseInv
<1>6. SamplesOf(r, step) \in SUBSET (1..kept)
  <2>1. parts[r] \in SUBSET (1..kept)  BY <1>1 DEF JobInv
  <2> QED  BY <2>1 DEF SamplesOf, SamplesAt
<1>7. ASSUME NEW S, S = SamplesOf(r, step), NEW k, k = count[r][step],
             k \in 1..Cardinality(S)
      PROVE  IInv'
  <2>1. heap' = Singles(S, k)  BY <1>7 DEF Pack
  <2>2. /\ k \in Nat \ {0} /\ k <= Cardinality(S)
        /\ S \in SUBSET (1..kept)
    BY <1>2, <1>6, <1>7, FiniteItems
  <2>3. \A st \in heap' : Good(st, k)  BY <1>2, <2>1, <2>2, SinglesGood
  <2>4. \A st \in heap' : Good(st, k)'  BY <1>3, <2>3, SameGood
  <2>5. ASSUME NEW s \in S
        PROVE  \E st \in heap' : \E i \in DOMAIN st : s \in st[i].items
    <3> DEFINE st == [i \in 1..k |-> IF i = 1 THEN One(s) ELSE Empty]
    <3>1. st \in heap'  BY <2>1 DEF Singles
    <3>2. 1 \in DOMAIN st /\ st[1] = One(s)  BY <2>2
    <3>3. s \in st[1].items  BY <3>2 DEF One
    <3> HIDE DEF st
    <3> QED  BY <3>1, <3>2, <3>3
  <2>6. Covered(k)'  BY <1>3, <2>2, <2>5 DEF Covered
  <2>7. HeapInv'  BY <1>3, <2>2, <2>4, <2>6 DEF HeapInv
  <2> QED  BY <1>4, <1>5, <2>7 DEF IInv
<1>8. CASE count[r][step] \notin 1..Cardinality(SamplesOf(r, step))
  <2>1. heap' = {}  BY <1>3, <1>8 DEF Pack
  <2>2. HeapInv'  BY <1>2, <1>3, <2>1, NoHeap
  <2> QED  BY <1>4, <1>5, <2>2 DEF IInv
<1> QED  BY <1>7, <1>8

LEMMA PackEndInv ==
    ASSUME IInv, NEW r \in Rank, NEW step \in 1..Steps, PackEnd(r, step)
    PROVE  IInv'
<1>1. JobInv /\ PhaseInv  BY DEF IInv
<1>2. job.dp \in Nat \ {0}  BY <1>1, JobFacts
<1>3. /\ job' = job /\ length' = length /\ kept' = kept /\ parts' = parts
      /\ heap' = {} /\ phase' \in {"failed", "done", "pack"}
  BY DEF PackEnd
<1>4. JobInv'  BY <1>1, <1>3 DEF JobInv, Rank
<1>5. PhaseInv'  BY <1>3 DEF PhaseInv
<1>6. HeapInv'  BY <1>2, <1>3, NoHeap
<1> QED  BY <1>4, <1>5, <1>6 DEF IInv

LEMMA StutterInv ==
    ASSUME IInv, UNCHANGED vars
    PROVE  IInv'
<1>1. JobInv /\ PhaseInv /\ HeapInv  BY DEF IInv
<1>2. /\ job' = job /\ length' = length /\ kept' = kept /\ parts' = parts
      /\ heap' = heap /\ phase' = phase
  BY DEF vars
<1>3. JobInv'  BY <1>1, <1>2 DEF JobInv, Rank
<1>4. PhaseInv'  BY <1>1, <1>2 DEF PhaseInv
<1>5. PICK k \in Nat \ {0} :
          /\ \A st \in heap : Good(st, k)
          /\ phase = "split" => k = job.dp /\ \A st \in heap : Whole(st)
          /\ phase = "pack" /\ heap # {} => Covered(k)
  BY <1>1 DEF HeapInv
<1>6. \A st \in heap : Good(st, k)'  BY <1>2, <1>5, SameGood
<1>7. Covered(k) => Covered(k)'  BY <1>2 DEF Covered
<1>8. \A st \in heap : Whole(st) => Whole(st)'  BY DEF Whole
<1>9. HeapInv'  BY <1>2, <1>5, <1>6, <1>7, <1>8 DEF HeapInv
<1> QED  BY <1>3, <1>4, <1>9 DEF IInv

LEMMA NextInv == IInv /\ [Next]_vars => IInv'
<1> SUFFICES ASSUME IInv, [Next]_vars  PROVE IInv'
  OBVIOUS
<1>1. CASE Trim  BY <1>1, TrimInv
<1>2. CASE Split  BY <1>2, SplitInv
<1>3. CASE Merge  BY <1>3, MergeInv
<1>4. CASE SplitEnd  BY <1>4, SplitEndInv
<1>5. CASE Iterate  BY <1>5, IterateInv
<1>6. ASSUME phase = "pack", NEW r \in Rank, NEW step \in 1..Steps,
             Pack(r, step) \/ PackEnd(r, step)
      PROVE  IInv'
  BY <1>6, PackInv, PackEndInv
<1>7. CASE UNCHANGED vars  BY <1>7, StutterInv
<1> QED  BY <1>1, <1>2, <1>3, <1>4, <1>5, <1>6, <1>7 DEF Next

LEMMA Invariance == Spec => []IInv
  BY InitInv, NextInv, PTL DEF Spec

----------------------------------------------------------------------------
\* The differencing keeps its promise, for any number of samples, ranks and
\* micro-batches: at every moment of karmarkar_karp the sets of a state differ by no more
\* than the longest sample.
THEOREM DivisionIsBalanced == Spec => []Balanced
<1>1. IInv => Balanced
  <2> SUFFICES ASSUME IInv, NEW st \in heap  PROVE Close(st)
    BY DEF Balanced, Close
  <2> QED  BY DEF IInv, HeapInv, Good
<1> QED  BY <1>1, Invariance, PTL

\* The first assertion of get_seqlen_balanced_partitions: when karmarkar_karp has merged
\* everything into one state, none of its partitions is empty.
NoneEmpty ==
    phase \in {"split", "pack"} =>
        \A st \in heap : heap = {st} => \A i \in DOMAIN st : st[i].items # {}

\* k samples cannot fit into fewer than k sets that hold at most one each.
LEMMA NoneEmptyHolds == IInv => NoneEmpty
<1> SUFFICES ASSUME IInv, phase \in {"split", "pack"},
                    NEW st \in heap, heap = {st}, NEW e \in DOMAIN st, st[e].items = {}
             PROVE  FALSE
  BY DEF NoneEmpty
<1>1. PICK k \in Nat \ {0} :
          /\ Good(st, k)
          /\ phase = "split" => Whole(st)
          /\ phase = "pack" => Covered(k)
  BY DEF IInv, HeapInv
<1>2. st \in [1..k -> Bins] /\ e \in 1..k /\ ~Whole(st)  BY <1>1 DEF Good, Whole
<1>3. Single(st) /\ Covered(k)  BY <1>1, <1>2 DEF Good
<1>4. kept \in Nat  BY JobFacts DEF IInv
<1>5. PICK S \in SUBSET (1..kept) :
          k <= Cardinality(S) /\ \A s \in S : \E i \in 1..k : s \in st[i].items
  BY <1>2, <1>3 DEF Covered
<1>6. PICK f \in [S -> (1..k) \ {e}] : \A s \in S : s \in st[f[s]].items
  <2> DEFINE g == [s \in S |-> CHOOSE i \in 1..k : s \in st[i].items]
  <2>1. \A s \in S : g[s] \in 1..k /\ s \in st[g[s]].items  BY <1>5
  <2>2. \A s \in S : g[s] \in (1..k) \ {e}  BY <2>1
  <2>3. g \in [S -> (1..k) \ {e}]  BY <2>2
  <2> QED  BY <2>1, <2>3
<1>7. PICK T : T = (1..k) \ {e}  OBVIOUS
<1>8. IsFiniteSet(S) /\ Cardinality(S) \in Nat  BY <1>4, FiniteItems
<1>9. IsFiniteSet(T) /\ Cardinality(T) < k
  <2>1. IsFiniteSet(1..k) /\ Cardinality(1..k) = k  BY FS_Interval
  <2>2. /\ IsFiniteSet((1..k) \ {e})
        /\ Cardinality((1..k) \ {e}) = Cardinality(1..k) - 1
    BY <1>2, <2>1, FS_RemoveElement
  <2> QED  BY <1>7, <2>1, <2>2
<1>10. Cardinality(T) < Cardinality(S)
  <2>1. Cardinality(T) \in Nat  BY <1>9, FS_CardinalityType
  <2> QED  BY <1>5, <1>8, <1>9, <2>1
<1>11. PICK x, y \in S : x # y /\ f[x] = f[y]
  <2>1. /\ IsFiniteSet(S) /\ IsFiniteSet(T) /\ f \in [S -> T]
        /\ Cardinality(T) < Cardinality(S)
    BY <1>6, <1>7, <1>8, <1>9, <1>10
  <2>2. ASSUME NEW A, NEW B, NEW g \in [A -> B],
               IsFiniteSet(A), IsFiniteSet(B), Cardinality(B) < Cardinality(A)
        PROVE  \E x, y \in A : x # y /\ g[x] = g[y]
    BY ONLY <2>2, FS_PigeonHole
  <2> QED  BY ONLY <2>1, <2>2
<1>12. f[x] \in 1..k /\ x \in st[f[x]].items /\ y \in st[f[x]].items
  BY <1>6, <1>7, <1>11
<1> QED  BY <1>2, <1>3, <1>11, <1>12 DEF Single

\* No rank and no micro-batch ever gets an empty partition, as karmarkar_karp is only
\* entered with at least as many samples as partitions.
THEOREM NoPartitionIsEmpty == Spec => []NoneEmpty
  BY NoneEmptyHolds, Invariance, PTL
=============================================================================
