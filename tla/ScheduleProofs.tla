---------------------------- MODULE ScheduleProofs ----------------------------
(* Proofs about TrainData: the assertions of the two divisions hold, and the schedules  *)
(* of the ranks agree and are complete, for any rollout and any arguments.              *)
EXTENDS TrainDataProofs

\* Whole global batches are kept: n steps of perStep rows for each of the ranks.
Numbers ==
    /\ perStep \in Nat
    /\ phase \notin {"collected", "raised"} =>
          perStep # 0 /\ \E n \in Nat \ {0} : kept = (n * perStep) * job.dp

\* With a fixed size and one step of everything, the samples of a rank fill micro-batches.
FixedSizes ==
    \A j \in Jobs : j.tokens = 0 /\ j.dynamicGlobal
                        => (j.collected \div j.dp) % j.microBatch = 0

Divisible ==
    FixedSizes /\ phase \notin {"collected", "raised"} /\ job.tokens = 0 =>
        \E e \in Nat \ {0} : perStep = e * job.microBatch

\* Nothing is scheduled before the ranks have their samples.
Fresh ==
    phase \in {"collected", "trimmed", "split", "received", "raised"} =>
        /\ turn = 1
        /\ count = [r \in Rank |-> <<>>] /\ batches = [r \in Rank |-> <<>>]

\* The ranks have equally many of the samples, and each sample is at one of them.
Parted ==
    phase \in {"received", "pack", "done"} =>
        /\ \A r, q \in Rank : \A x \in parts[r] : x \in parts[q] => r = q
        /\ \A x \in 1..kept : \E r \in Rank : x \in parts[r]
        /\ \A r \in Rank : Cardinality(parts[r]) * job.dp = kept

\* A sample is in one set of one state.
Apart ==
    \A st, ot \in heap : \A i \in DOMAIN st, j \in DOMAIN ot :
        \A x \in st[i].items : x \in ot[j].items => st = ot /\ i = j

\* The states hold the samples of S.
Content(S) ==
    \A x \in 1..kept : x \in S <=> \E st \in heap : \E i \in DOMAIN st : x \in st[i].items

EqualSized(st) == \A i, j \in DOMAIN st : Cardinality(st[i].items) = Cardinality(st[j].items)

Splitting == phase = "split" => Content(1..kept) /\ \A st \in heap : EqualSized(st)

PackingOne ==
    phase = "pack" /\ heap # {} =>
        \A r \in Rank, step \in 1..Steps : Packing(r, step) =>
            Content(SamplesOf(r, step)) /\ \A st \in heap : DOMAIN st = 1..count[r][step]

\* Every rank has the same numbers of micro-batches, no more than rows in a step.
Agreed ==
    phase \in {"pack", "done"} /\ job.tokens > 0 =>
        \A r \in Rank :
            /\ count[r] \in [1..Steps -> 1..perStep]
            /\ \A q \in Rank : count[r] = count[q]

\* The micro-batches of a step, after those of the steps before: they hold its samples.
Mine(r, step) ==
    (Total(count[r], 1..(step - 1)) + 1)..(Total(count[r], 1..(step - 1)) + count[r][step])

Scheduled(r, step) ==
    /\ Mine(r, step) \subseteq DOMAIN batches[r]
    /\ UNION {batches[r][b] : b \in Mine(r, step)} = SamplesOf(r, step)
    /\ \A b, c \in Mine(r, step) : b # c => batches[r][b] \cap batches[r][c] = {}

\* What is packed when it is the turn of a rank and step.
Packed(q) ==
    /\ batches[q] \in Seq(SUBSET parts[q])
    /\ turn <= (q - 1) * Steps => batches[q] = <<>>
    /\ \A s \in 1..Steps :
          /\ Packing(q, s) => Len(batches[q]) = Total(count[q], 1..(s - 1))
          /\ (q - 1) * Steps + s < turn => Scheduled(q, s)

Progress ==
    /\ phase = "pack" => job.tokens > 0
    /\ phase \in {"pack", "done"} /\ job.tokens > 0 =>
          /\ turn \in Nat /\ batches \in [Rank -> Seq(SUBSET (1..kept))]
          /\ count = [r \in Rank |-> count[r]]
          /\ phase = "done" => turn = job.dp * Steps + 1
          /\ \A q \in Rank : Packed(q)

\* With a fixed size the rows of a rank are cut into slices of it.
Sliced ==
    phase = "done" /\ job.tokens = 0 =>
        /\ turn = 1
        /\ count = [r \in Rank |-> [i \in 1..Steps |-> perStep \div job.microBatch]]
        /\ batches = [r \in Rank |-> [b \in 1..(Steps * (perStep \div job.microBatch)) |->
               SamplesAt(r, ((b - 1) * job.microBatch + 1)..(b * job.microBatch))]]

Sound ==
    phase \in {"collected", "trimmed", "split", "received", "pack", "done", "raised"}

SInv ==
    /\ Sound /\ Numbers /\ Divisible /\ Fresh /\ Parted
    /\ Apart /\ Splitting /\ PackingOne
    /\ Agreed /\ Progress /\ Sliced

----------------------------------------------------------------------------
\* First fit: one sample more needs at most one batch more.
LEMMA FillLength ==
    ASSUME job.tokens \in Nat, NEW s, length[s] \in Nat, NEW filled \in Seq(Nat)
    PROVE  /\ Fill(s, filled) \in Seq(Nat)
           /\ Len(Fill(s, filled)) \in {Len(filled), Len(filled) + 1}
           /\ Len(Fill(s, filled)) \in Nat \ {0}
<1> DEFINE fits == {i \in DOMAIN filled : filled[i] + length[s] <= job.tokens}
<1>1. Len(filled) \in Nat /\ DOMAIN filled = 1..Len(filled)  BY LenProperties
<1>2. CASE fits = {}
  <2>1. Fill(s, filled) = Append(filled, length[s])  BY <1>2 DEF Fill
  <2>2. /\ Append(filled, length[s]) \in Seq(Nat)
        /\ Len(Append(filled, length[s])) = Len(filled) + 1
    OBVIOUS
  <2> QED  BY <1>1, <2>1, <2>2
<1>3. CASE fits # {}
  <2> DEFINE m == Min(fits)
  <2>1. Fill(s, filled) = [filled EXCEPT ![m] = @ + length[s]]  BY <1>3 DEF Fill
  <2>2. m \in fits
    <3>1. fits \in SUBSET Nat  BY <1>1
    <3>2. \E x \in fits : \A y \in fits : x <= y  BY <1>3, <3>1, Least
    <3> HIDE DEF fits
    <3> QED  BY <3>2 DEF Min
  <2>3. m \in 1..Len(filled)  BY <1>1, <2>2
  <2> HIDE DEF m
  <2>4. filled[m] \in Nat  BY <2>3, ElementOfSeq
  <2>5. filled[m] + length[s] \in Nat  BY <2>4
  <2>6. /\ [filled EXCEPT ![m] = filled[m] + length[s]] \in Seq(Nat)
        /\ Len([filled EXCEPT ![m] = filled[m] + length[s]]) = Len(filled)
    BY <2>3, <2>5, ExceptSeq
  <2>7. Len(filled) # 0  BY <1>1, <2>3
  <2> QED  BY <1>1, <2>1, <2>6, <2>7
<1> QED  BY <1>2, <1>3

\* The fold of first fit: h gives each set of samples the batches it fills.
Fills(h, S) ==
    \A T \in SUBSET S : h[T] = IF T = {} THEN <<>> ELSE Fill(Max(T), h[T \ {Max(T)}])

Batches(S) == MapThenFoldSet(Fill, <<>>, LAMBDA s : s, Max, S)

LEMMA BatchesDef ==
    ASSUME kept \in Nat, job.tokens \in Nat, \A s \in 1..kept : length[s] \in Nat,
           NEW S \in SUBSET (1..kept)
    PROVE  \E h : Fills(h, S) /\ Batches(S) = h[S]
<1> DEFINE Eq(h) == h = [T \in SUBSET S |->
                          IF T = {} THEN <<>> ELSE Fill(Max(T), h[T \ {Max(T)}])]
<1>1. \E h : Eq(h)
  <2> DEFINE E == [x \in S |-> [v \in Seq(Nat) |-> Fill(x, v)]]
             c == [T \in SUBSET S |-> Max(T)]
  <2>1. \A x \in S : \A v \in Seq(Nat) : E[x][v] = Fill(x, v) /\ E[x][v] \in Seq(Nat)
    BY FillLength
  <2>2. \A T \in SUBSET S : c[T] = Max(T)  OBVIOUS
  <2>3. \A T \in SUBSET S : T # {} => c[T] \in T
    <3>1. \A T \in SUBSET S : T \in SUBSET (0..kept)  OBVIOUS
    <3> QED  BY <2>2, <3>1, Greatest
  <2> HIDE DEF E, c
  <2>4. PICK h : Recurses(h, S, Seq(Nat), <<>>, E, c)
    <3>1. \A x \in S : \A v \in Seq(Nat) : E[x][v] \in Seq(Nat)  BY <2>1
    <3>2. IsFiniteSet(S)  BY FiniteItems
    <3>3. <<>> \in Seq(Nat)  BY EmptySeq
    <3> QED  BY ONLY <2>3, <3>1, <3>2, <3>3, Recursion
  <2>5. /\ h \in [SUBSET S -> Seq(Nat)]
        /\ \A T \in SUBSET S : h[T] = IF T = {} THEN <<>> ELSE E[c[T]][h[T \ {c[T]}]]
    BY <2>4 DEF Recurses
  <2>6. ASSUME NEW T \in SUBSET S
        PROVE  h[T] = IF T = {} THEN <<>> ELSE Fill(Max(T), h[T \ {Max(T)}])
    <3>1. CASE T = {}  BY <2>5, <3>1
    <3>2. CASE T # {}
      <4>1. c[T] \in S /\ h[T \ {c[T]}] \in Seq(Nat)  BY <2>3, <2>5, <3>2
      <4>2. h[T] = Fill(c[T], h[T \ {c[T]}])  BY <2>1, <2>5, <3>2, <4>1
      <4> QED  BY <2>2, <3>2, <4>2
    <3> QED  BY <3>1, <3>2
  <2>7. Eq(h)  BY <2>5, <2>6
  <2> HIDE DEF Eq
  <2> QED  BY <2>7
<1>2. Batches(S) = (CHOOSE h : Eq(h))[S]  BY DEF Batches, MapThenFoldSet
<1>3. PICK h : Eq(h) /\ h = CHOOSE g : Eq(g)  BY <1>1
<1>4. Fills(h, S)  BY <1>3 DEF Fills
<1> QED  BY <1>2, <1>3, <1>4

\* First fit needs at least one batch and no more than there are samples.
LEMMA FirstFitBound ==
    ASSUME kept \in Nat, job.tokens \in Nat, \A s \in 1..kept : length[s] \in Nat,
           NEW S \in SUBSET (1..kept), S # {}
    PROVE  Len(Batches(S)) \in 1..Cardinality(S)
<1>1. PICK h : Fills(h, S) /\ Batches(S) = h[S]  BY BatchesDef
<1>2. IsFiniteSet(S)  BY FiniteItems
<1> DEFINE Bound(T) == h[T] \in Seq(Nat) /\ Len(h[T]) <= Cardinality(T)
           P == {n \in Nat : \A T \in SUBSET S : Cardinality(T) <= n => Bound(T)}
<1>3. ASSUME NEW T \in SUBSET S, T = {}
      PROVE  Bound(T)
  <2>1. h[T] = <<>> /\ Cardinality(T) = 0  BY <1>1, <1>3, FS_EmptySet DEF Fills
  <2> QED  BY <2>1, EmptySeq
<1>4. ASSUME NEW T \in SUBSET S, T # {}
      PROVE  /\ Max(T) \in T /\ h[T] = Fill(Max(T), h[T \ {Max(T)}])
             /\ length[Max(T)] \in Nat
  <2>1. T \in SUBSET (0..kept)  OBVIOUS
  <2>2. Max(T) \in T  BY <1>4, <2>1, Greatest
  <2> QED  BY <1>1, <1>4, <2>2 DEF Fills
<1>5. 0 \in P
  <2>1. ASSUME NEW T \in SUBSET S, Cardinality(T) <= 0
        PROVE  T = {}
    <3>1. Cardinality(T) \in Nat /\ (Cardinality(T) = 0 <=> T = {})  BY <1>2, Smaller
    <3> QED  BY <2>1, <3>1
  <2> HIDE DEF Bound
  <2> QED  BY <1>3, <2>1
<1>6. ASSUME NEW n \in P
      PROVE  n + 1 \in P
  <2>1. ASSUME NEW T \in SUBSET S, Cardinality(T) <= n + 1, T # {}
        PROVE  Bound(T)
    <3>1. PICK m \in T : h[T] = Fill(m, h[T \ {m}]) /\ length[m] \in Nat  BY <1>4, <2>1
    <3>2. /\ n \in Nat /\ Cardinality(T) \in Nat
          /\ Cardinality(T \ {m}) = Cardinality(T) - 1
      BY <1>2, Smaller
    <3>3. Cardinality(T \ {m}) <= n  BY <2>1, <3>2
    <3>4. Bound(T \ {m})  BY <3>3
    <3>5. h[T] \in Seq(Nat) /\ Len(h[T]) \in {Len(h[T \ {m}]), Len(h[T \ {m}]) + 1}
      BY <3>1, <3>4, FillLength
    <3>6. Len(h[T \ {m}]) \in Nat  BY <3>4, LenProperties
    <3>7. Len(h[T]) <= Cardinality(T)  BY <3>2, <3>4, <3>5, <3>6
    <3> QED  BY <3>5, <3>7
  <2>2. n + 1 \in Nat  OBVIOUS
  <2> HIDE DEF Bound
  <2> QED  BY <1>3, <2>1, <2>2
<1>7. P = Nat
  <2>1. P \in SUBSET Nat  OBVIOUS
  <2> HIDE DEF P
  <2> QED  BY <1>5, <1>6, <2>1, Induction
<1>8. ASSUME NEW T \in SUBSET S
      PROVE  Bound(T)
  <2>1. Cardinality(T) \in Nat  BY <1>2, Smaller
  <2>2. Cardinality(T) \in P /\ Cardinality(T) <= Cardinality(T)  BY <1>7, <2>1
  <2> HIDE DEF Bound
  <2> QED  BY <2>2
<1>9. PICK m \in S : h[S] = Fill(m, h[S \ {m}]) /\ length[m] \in Nat  BY <1>4
<1>10. h[S \ {m}] \in Seq(Nat)  BY <1>8
<1>11. Len(h[S]) \in Nat \ {0}  BY <1>9, <1>10, FillLength
<1>12. Len(h[S]) <= Cardinality(S) /\ Cardinality(S) \in Nat  BY <1>2, <1>8, Smaller
<1>13. Len(h[S]) \in 1..Cardinality(S)  BY <1>11, <1>12
<1> QED  BY <1>1, <1>13
----------------------------------------------------------------------------
\* The rows of a rank number its samples.
LEMMA RowFacts ==
    ASSUME JobInv, NEW r \in Rank
    PROVE  /\ \A s \in parts[r] : Row(r, s) \in 1..Cardinality(parts[r])
           /\ \A s, t \in parts[r] : Row(r, s) = Row(r, t) => s = t
           /\ \A n \in 1..Cardinality(parts[r]) : \E s \in parts[r] : Row(r, s) = n
<1> DEFINE S == parts[r]
           L == [s \in S |-> {q \in S : q <= s}]
<1>1. kept \in Nat /\ S \in SUBSET (1..kept)  BY JobFacts DEF JobInv
<1>2. IsFiniteSet(S)  BY <1>1, FiniteItems
<1>3. \A s \in S : L[s] = {q \in S : q <= s} /\ Row(r, s) = Cardinality(L[s])  BY DEF Row
<1>4. \A s \in S : s \in Int  BY <1>1
<1> HIDE DEF S, L
<1>5. \A s \in S : L[s] \in SUBSET S /\ s \in L[s]  BY <1>3, <1>4
<1>6. ASSUME NEW s \in S, NEW t \in S, s # t
      PROVE  \/ L[s] \subseteq L[t] /\ t \notin L[s]
             \/ L[t] \subseteq L[s] /\ s \notin L[t]
  <2>1. CASE s < t  BY <1>3, <1>4, <2>1
  <2>2. CASE t < s  BY <1>3, <1>4, <2>2
  <2> QED  BY <1>4, <1>6, <2>1, <2>2
<1>7. /\ \A s \in S : Cardinality(L[s]) \in 1..Cardinality(S)
      /\ \A s, t \in S : Cardinality(L[s]) = Cardinality(L[t]) => s = t
      /\ \A n \in 1..Cardinality(S) : \E s \in S : Cardinality(L[s]) = n
  BY ONLY <1>2, <1>5, <1>6, Ranking
<1> QED  BY <1>3, <1>7 DEF S

\* As many samples as there are rows.
LEMMA SamplesAtRows ==
    ASSUME JobInv, NEW r \in Rank, NEW a \in Nat \ {0}, NEW b \in Nat, a <= b + 1,
           b <= Cardinality(parts[r])
    PROVE  Cardinality(SamplesAt(r, a..b)) = b + 1 - a
<1>1. Cardinality(parts[r]) \in Nat
  <2>1. kept \in Nat /\ parts[r] \in SUBSET (1..kept)  BY JobFacts DEF JobInv
  <2> QED  BY <2>1, FiniteItems
<1> DEFINE n == Cardinality(parts[r])
           g == [s \in parts[r] |-> Row(r, s)]
<1>2. /\ \A s, t \in parts[r] : g[s] = g[t] => s = t
      /\ \A i \in 1..n : \E s \in parts[r] : g[s] = i
  BY RowFacts
<1>3. SamplesAt(r, a..b) = {s \in parts[r] : g[s] \in a..b}  BY DEF SamplesAt
<1>4. n \in Nat /\ b <= n  BY <1>1
<1> HIDE DEF n, g
<1>5. /\ n \in Nat /\ a \in Nat \ {0} /\ b \in Nat
      /\ a <= b + 1 /\ b <= n
  BY <1>4
<1>6. PICK S : S = parts[r]  OBVIOUS
<1>7. Numbered(g, S, n)  BY <1>2, <1>6 DEF Numbered
<1>8. PICK T : T = SamplesAt(r, a..b)  OBVIOUS
<1>9. IsSlice(T, g, S, a, b)  BY <1>3, <1>6, <1>8 DEF IsSlice
<1>10. Cardinality(T) = b + 1 - a
  BY ONLY <1>5, <1>7, <1>9, Between
<1> QED  BY <1>8, <1>10

\* The numbers of steps and rows fit.
LEMMA StepsFacts ==
    ASSUME JobInv, Numbers, Parted, phase \in {"received", "pack", "done"}
    PROVE  /\ perStep \in Nat \ {0} /\ Steps \in Nat \ {0} /\ 1 \in Rank
           /\ \A r \in Rank : Cardinality(parts[r]) = Steps * perStep
<1>1. job.dp \in Nat \ {0} /\ 1 \in Rank  BY JobFacts DEF Rank
<1>2. perStep \in Nat \ {0} /\ \E n \in Nat \ {0} : kept = (n * perStep) * job.dp
  BY DEF Numbers
<1>3. PICK n \in Nat \ {0} : kept = (n * perStep) * job.dp  BY <1>2
<1>4. n * perStep \in Nat  BY <1>2
<1>5. ASSUME NEW r \in Rank
      PROVE  Cardinality(parts[r]) = n * perStep
  <2>1. Cardinality(parts[r]) * job.dp = kept  BY DEF Parted
  <2>2. kept \in Nat /\ parts[r] \in SUBSET (1..kept)  BY JobFacts DEF JobInv
  <2>3. Cardinality(parts[r]) \in Nat  BY <2>2, FiniteItems
  <2>4. Cardinality(parts[r]) * job.dp = (n * perStep) * job.dp  BY <1>3, <2>1
  <2>5. PICK a \in Nat, b \in Nat, d \in Nat \ {0} :
            a = Cardinality(parts[r]) /\ b = n * perStep /\ d = job.dp
    BY <1>1, <1>4, <2>3
  <2>6. a * d = b * d  BY <2>4, <2>5
  <2>7. a = b  BY ONLY <2>6, a \in Nat, b \in Nat, d \in Nat \ {0}, ProductSame
  <2> QED  BY <2>5, <2>7
<1>6. Steps = n
  <2>1. Steps = (n * perStep) \div perStep  BY <1>1, <1>5 DEF Steps
  <2>2. (n * perStep) \div perStep = n  BY <1>2, QuotientExact
  <2> QED  BY <2>1, <2>2
<1> QED  BY <1>1, <1>2, <1>5, <1>6

\* Each step has perStep samples, and each sample is in a step.
LEMMA SamplesFacts ==
    ASSUME JobInv, Numbers, Parted, phase \in {"received", "pack", "done"}, NEW r \in Rank
    PROVE  /\ \A step \in 1..Steps : /\ SamplesOf(r, step) \in SUBSET parts[r]
                                     /\ SamplesOf(r, step) \in SUBSET (1..kept)
                                     /\ Cardinality(SamplesOf(r, step)) = perStep
                                     /\ SamplesOf(r, step) # {}
           /\ \A x \in parts[r] : \E step \in 1..Steps : x \in SamplesOf(r, step)
<1>1. /\ perStep \in Nat \ {0} /\ Steps \in Nat \ {0}
      /\ Cardinality(parts[r]) = Steps * perStep
  BY StepsFacts
<1>2. kept \in Nat /\ parts[r] \in SUBSET (1..kept)  BY JobFacts DEF JobInv
<1>3. ASSUME NEW step \in 1..Steps
      PROVE  /\ SamplesOf(r, step) \in SUBSET parts[r]
             /\ Cardinality(SamplesOf(r, step)) = perStep
  <2> DEFINE a == (step - 1) * perStep + 1
             b == step * perStep
  <2>1. a \in Nat \ {0} /\ b \in Nat /\ b + 1 - a = perStep
    <3>1. (step - 1) * perStep \in Nat /\ step * perStep \in Nat  BY <1>1
    <3>2. step * perStep = (step - 1) * perStep + perStep  BY <1>1
    <3> QED  BY <1>1, <3>1, <3>2
  <2>2. b <= Steps * perStep
    <3>1. step \in Int /\ Steps \in Int /\ ~(Steps < step)  BY <1>1
    <3>2. ~(Steps * perStep < step * perStep)  BY <1>1, <3>1, ProductOrder
    <3> QED  BY <1>1, <3>1, <3>2
  <2>3. SamplesOf(r, step) = SamplesAt(r, a..b)  BY DEF SamplesOf, RowsOf
  <2> HIDE DEF a, b
  <2>4. a <= b + 1  BY <1>1, <2>1
  <2>5. Cardinality(SamplesAt(r, a..b)) = b + 1 - a
    BY <1>1, <2>1, <2>2, <2>4, SamplesAtRows
  <2>6. SamplesAt(r, a..b) \in SUBSET parts[r]  BY DEF SamplesAt
  <2> QED  BY <2>1, <2>3, <2>5, <2>6
<1>4. ASSUME NEW step \in 1..Steps
      PROVE  SamplesOf(r, step) # {}
  <2>1. Cardinality(SamplesOf(r, step)) # 0  BY <1>1, <1>3
  <2> QED  BY <2>1, FS_EmptySet
<1>5. ASSUME NEW x \in parts[r]
      PROVE  \E step \in 1..Steps : x \in SamplesOf(r, step)
  <2>1. Row(r, x) \in 1..(Steps * perStep)  BY <1>1, RowFacts
  <2>2. PICK n \in Nat : n = Row(r, x) - 1  BY <2>1
  <2>3. PICK q \in Nat : q * perStep <= n /\ n < q * perStep + perStep
    BY <1>1, <2>2, Quotient
  <2>4. Steps * perStep \in Nat /\ q * perStep \in Nat  BY <1>1
  <2>5. q < Steps
    <3>1. q * perStep < Steps * perStep  BY <2>1, <2>2, <2>3, <2>4
    <3> QED  BY <1>1, <3>1, ProductOrder
  <2>6. (q + 1) * perStep = q * perStep + perStep  BY <1>1
  <2>7. Row(r, x) \in (q * perStep + 1)..((q + 1) * perStep)
    BY <1>1, <2>1, <2>2, <2>3, <2>4, <2>6
  <2>8. (q + 1) - 1 = q /\ q + 1 \in 1..Steps  BY <1>1, <2>5
  <2>9. x \in SamplesOf(r, q + 1)  BY <2>7, <2>8 DEF SamplesOf, SamplesAt, RowsOf
  <2> QED  BY <2>8, <2>9
<1> QED  BY <1>2, <1>3, <1>4, <1>5
----------------------------------------------------------------------------
\* What the schedule says of the phases before there is one.
LEMMA EarlyS ==
    ASSUME phase' \in {"collected", "trimmed", "split", "received", "raised"}
    PROVE  Sound' /\ PackingOne' /\ Agreed' /\ Progress' /\ Sliced'
  BY DEF Sound, PackingOne, Agreed, Progress, Sliced

LEMMA EmptyHeapS ==
    ASSUME heap' = {}
    PROVE  Apart' /\ PackingOne'
  BY DEF Apart, PackingOne

\* What the parts of the ranks determine.
LEMMA SameParts ==
    ASSUME job' = job, perStep' = perStep, parts' = parts
    PROVE  /\ Rank' = Rank /\ Steps' = Steps
           /\ \A r, step : SamplesOf(r, step)' = SamplesOf(r, step)
  BY DEF Rank, Steps, SamplesOf, SamplesAt, Row, RowsOf

LEMMA SameNumbers ==
    ASSUME job' = job, perStep' = perStep, kept' = kept, SInv,
           phase \notin {"collected", "raised"}
    PROVE  Numbers' /\ Divisible'
<1>1. Numbers /\ Divisible  BY DEF SInv
<1>2. perStep \in Nat \ {0} /\ \E n \in Nat \ {0} : kept = (n * perStep) * job.dp
  BY <1>1 DEF Numbers
<1>3. Numbers'  BY <1>2 DEF Numbers
<1>4. Divisible'  BY <1>1 DEF Divisible, FixedSizes
<1> QED  BY <1>3, <1>4

LEMMA InitS == Init => SInv
<1> SUFFICES ASSUME Init  PROVE SInv
  OBVIOUS
<1>1. phase = "collected" /\ heap = {} /\ perStep = 0  BY DEF Init
<1>2. Sound /\ Numbers /\ Divisible /\ Parted  BY <1>1 DEF Sound, Numbers, Divisible, Parted
<1>3. Fresh  BY DEF Init, Fresh
<1>4. Apart /\ Splitting /\ PackingOne  BY <1>1 DEF Apart, Splitting, PackingOne
<1>5. Agreed /\ Progress /\ Sliced  BY <1>1 DEF Agreed, Progress, Sliced
<1> QED  BY <1>2, <1>3, <1>4, <1>5 DEF SInv

\* The size of a step is a whole number of rows for each rank, and of fixed micro-batches.
LEMMA GlobalBatchFacts ==
    ASSUME JobInv
    PROVE  \E e \in Nat \ {0} :
              /\ GlobalBatch = e * job.dp
              /\ (FixedSizes /\ job.tokens = 0 /\ job.collected >= GlobalBatch
                     => \E x \in Nat \ {0} : e = x * job.microBatch)
<1>1. /\ job.dp \in Nat \ {0} /\ job.microBatch \in Nat \ {0} /\ job.collected \in Nat \ {0}
      /\ job.globalBatch \in Nat \ {0} /\ job.globalBatch % (job.microBatch * job.dp) = 0
  BY JobsAssumption DEF JobInv
<1>2. CASE ~job.dynamicGlobal
  <2>1. job.microBatch * job.dp \in Nat \ {0}  BY <1>1
  <2>2. PICK x \in Nat : x = job.globalBatch \div (job.microBatch * job.dp)
                         /\ job.globalBatch = x * (job.microBatch * job.dp)
    BY <1>1, <2>1, Multiple, Quotient
  <2>3. x # 0  BY <1>1, <2>1, <2>2
  <2>4. x * job.microBatch \in Nat \ {0}
        /\ (x * job.microBatch) * job.dp = x * (job.microBatch * job.dp)
    BY <1>1, <2>2, <2>3
  <2>5. GlobalBatch = (x * job.microBatch) * job.dp  BY <1>2, <2>2, <2>4 DEF GlobalBatch
  <2> QED  BY <2>2, <2>3, <2>4, <2>5
<1>3. CASE job.dynamicGlobal
  <2> DEFINE c == job.collected \div job.dp
  <2>1. c \in Nat  BY <1>1, Quotient
  <2>2. GlobalBatch = IF c * job.dp = 0 THEN job.dp ELSE c * job.dp
    BY <1>3 DEF GlobalBatch
  <2>3. FixedSizes /\ job.tokens = 0 => c % job.microBatch = 0
    BY <1>3 DEF FixedSizes, JobInv
  <2>4. c = 0 => ~(job.collected >= job.dp)
    <3>1. job.collected < c * job.dp + job.dp  BY <1>1, Quotient
    <3> HIDE DEF c
    <3> QED  BY <1>1, <3>1
  <2> HIDE DEF c
  <2>5. CASE c = 0
    <3>1. c * job.dp = 0 /\ 1 * job.dp = job.dp  BY <1>1, <2>5
    <3> QED  BY <2>2, <2>4, <2>5, <3>1
  <2>6. CASE c # 0
    <3>1. c * job.dp # 0  BY <1>1, <2>1, <2>6
    <3>2. ASSUME c % job.microBatch = 0
          PROVE  \E x \in Nat \ {0} : c = x * job.microBatch
      <4>1. c \div job.microBatch \in Nat  BY <1>1, <2>1, Quotient
      <4>2. c = (c \div job.microBatch) * job.microBatch  BY <1>1, <2>1, <3>2, Multiple
      <4>3. PICK x \in Nat : c = x * job.microBatch  BY <4>1, <4>2
      <4>4. x # 0  BY <1>1, <2>6, <4>3
      <4> QED  BY <4>3, <4>4
    <3> QED  BY <2>1, <2>2, <2>3, <2>6, <3>1, <3>2
  <2> QED  BY <2>5, <2>6
<1> QED  BY <1>2, <1>3

LEMMA TrimS ==
    ASSUME IInv, SInv, Trim
    PROVE  SInv'
<1>1. JobInv /\ Fresh /\ phase = "collected" /\ heap = {}
  BY DEF IInv, SInv, Trim, PhaseInv
<1>2. /\ job' = job /\ length' = length /\ parts' = parts /\ heap' = {} /\ turn' = turn
      /\ count' = count /\ batches' = batches
      /\ phase' = IF kept' = 0 THEN "raised" ELSE "trimmed"
      /\ kept' = (job.collected \div GlobalBatch) * GlobalBatch
      /\ perStep' = GlobalBatch \div job.dp
  BY <1>1 DEF Trim
<1>3. PICK e \in Nat \ {0} :
          /\ GlobalBatch = e * job.dp
          /\ (FixedSizes /\ job.tokens = 0 /\ job.collected >= GlobalBatch
                 => \E x \in Nat \ {0} : e = x * job.microBatch)
  BY <1>1, GlobalBatchFacts
<1>4. job.dp \in Nat \ {0} /\ job.collected \in Nat  BY <1>1, JobFacts
<1>5. perStep' = e  BY <1>2, <1>3, <1>4, QuotientExact
<1>6. ASSUME phase' = "trimmed"
      PROVE  /\ \E n \in Nat \ {0} : kept' = (n * e) * job.dp
             /\ job.collected >= GlobalBatch
  <2>1. GlobalBatch \in Nat \ {0}  BY <1>3, <1>4
  <2>2. PICK n \in Nat, g \in Nat \ {0} :
            /\ n = job.collected \div GlobalBatch /\ g = GlobalBatch
            /\ kept' = n * g /\ n * g <= job.collected
    BY <1>2, <1>4, <2>1, Quotient
  <2>3. n * g # 0  BY <1>2, <1>6, <2>2
  <2>4. n # 0 /\ g <= n * g  BY <2>3
  <2>5. n * (e * job.dp) = (n * e) * job.dp  BY <1>4
  <2>6. job.collected >= g  BY <1>4, <2>2, <2>4
  <2> QED  BY <1>3, <2>2, <2>4, <2>5, <2>6
<1>7. Numbers'  BY <1>2, <1>5, <1>6 DEF Numbers
<1>8. Divisible'
  <2>1. FixedSizes' = FixedSizes  BY DEF FixedSizes
  <2> QED  BY <1>2, <1>3, <1>5, <1>6, <2>1 DEF Divisible
<1>9. Fresh'  BY <1>1, <1>2 DEF Fresh, Rank
<1>10. Sound' /\ PackingOne' /\ Agreed' /\ Progress' /\ Sliced'  BY <1>2, EarlyS
<1>11. Apart' /\ Splitting' /\ Parted'  BY <1>2, EmptyHeapS DEF Splitting, Parted
<1> QED  BY <1>7, <1>8, <1>9, <1>10, <1>11 DEF SInv
----------------------------------------------------------------------------
\* Each sample is in one set of one chunk.
LEMMA ChunksHold ==
    ASSUME kept \in Nat, \A s \in 1..kept : length[s] \in Nat, NEW k \in Nat \ {0},
           kept = (kept \div k) * k
    PROVE  /\ \A st, ot \in Chunks(k) : \A i \in DOMAIN st, j \in DOMAIN ot :
                 \A x \in st[i].items : x \in ot[j].items => st = ot /\ i = j
           /\ \A x \in 1..kept : \E st \in Chunks(k) : \E i \in DOMAIN st : x \in st[i].items
           /\ \A st \in Chunks(k) : EqualSized(st)
<1> DEFINE chunk(c) == [i \in 1..k |-> One(Ascending[c * k + k + 1 - i])]
<1>1. /\ Ascending \in [1..kept -> 1..kept]
      /\ \A s \in 1..kept : \E p \in 1..kept : Ascending[p] = s
      /\ \A p, q \in 1..kept : Ascending[p] = Ascending[q] => p = q
  BY AscendingFacts
<1>2. \A c : DOMAIN chunk(c) = 1..k
             /\ \A i \in 1..k : chunk(c)[i].items = {Ascending[c * k + k + 1 - i]}
                               /\ Cardinality(chunk(c)[i].items) = 1
  BY FS_Singleton DEF One
<1>3. \A c \in 0..(kept \div k - 1), i \in 1..k : c * k + k + 1 - i \in 1..kept
  BY ChunkIndex
<1>4. Chunks(k) = {chunk(c) : c \in 0..(kept \div k - 1)}  BY DEF Chunks
<1>5. kept \div k \in Nat  BY Quotient
<1> HIDE DEF chunk
<1>6. ASSUME NEW c \in 0..(kept \div k - 1), NEW d \in 0..(kept \div k - 1),
             NEW i \in 1..k, NEW j \in 1..k,
             NEW x \in chunk(c)[i].items, x \in chunk(d)[j].items
      PROVE  c = d /\ i = j
  <2>1. c * k + k + 1 - i = d * k + k + 1 - j
    <3>0. /\ chunk(c)[i].items = {Ascending[c * k + k + 1 - i]}
          /\ chunk(d)[j].items = {Ascending[d * k + k + 1 - j]}
      BY <1>2
    <3>1. x = Ascending[c * k + k + 1 - i] /\ x = Ascending[d * k + k + 1 - j]
      BY <1>6, <3>0
    <3> QED  BY <1>1, <1>3, <3>1
  <2>2. c \in Nat /\ d \in Nat  BY <1>5
  <2>3. PICK m \in Nat, n \in Nat : m = c * k /\ n = d * k  BY <2>2
  <2>4. m + k + 1 - i = n + k + 1 - j  BY <2>1, <2>3
  <2>5. m + (k + 1 - i) = n + (k + 1 - j)  BY <2>3, <2>4
  <2>6. /\ c + 1 \in Nat \ {0} /\ d + 1 \in Nat \ {0} /\ (c + 1) - 1 = c /\ (d + 1) - 1 = d
        /\ k + 1 - i \in 1..k /\ k + 1 - j \in 1..k
    BY <2>2
  <2>7. ((c + 1) - 1) * k + (k + 1 - i) = ((d + 1) - 1) * k + (k + 1 - j)
    BY <2>3, <2>5, <2>6
  <2>8. c + 1 = d + 1 /\ k + 1 - i = k + 1 - j  BY ONLY <2>6, <2>7, k \in Nat, LineNumbers
  <2> QED  BY <2>2, <2>8
<1>7. ASSUME NEW x \in 1..kept
      PROVE  \E c \in 0..(kept \div k - 1), i \in 1..k : x \in chunk(c)[i].items
  <2>1. PICK p \in 1..kept : Ascending[p] = x  BY <1>1
  <2>2. PICK n \in Nat : n = p - 1  OBVIOUS
  <2>3. PICK c \in Nat : c * k <= n /\ n < c * k + k  BY <2>2, Quotient
  <2>4. PICK m \in Nat : m = c * k  BY <2>3
  <2>5. k + m - n \in 1..k /\ m + k + 1 - (k + m - n) = p  BY <2>2, <2>3, <2>4
  <2>6. c < kept \div k
    <3>1. c * k < (kept \div k) * k  BY <2>2, <2>3, <2>4
    <3> QED  BY <1>5, <3>1, ProductOrder
  <2>7. c \in 0..(kept \div k - 1)  BY <1>5, <2>6
  <2>8. x \in chunk(c)[k + m - n].items  BY <1>2, <2>1, <2>4, <2>5
  <2> QED  BY <2>5, <2>7, <2>8
<1>8. ASSUME NEW st \in Chunks(k)
      PROVE  EqualSized(st)
  <2>1. PICK c : st = chunk(c)  BY <1>4
  <2>2. \A i \in DOMAIN st : Cardinality(st[i].items) = 1  BY <1>2, <2>1
  <2> QED  BY <2>2 DEF EqualSized
<1>9. ASSUME NEW st \in Chunks(k), NEW ot \in Chunks(k), NEW i \in DOMAIN st,
             NEW j \in DOMAIN ot, NEW x \in st[i].items, x \in ot[j].items
      PROVE  st = ot /\ i = j
  <2>1. PICK c \in 0..(kept \div k - 1), d \in 0..(kept \div k - 1) :
            st = chunk(c) /\ ot = chunk(d)
    BY <1>4
  <2>2. i \in 1..k /\ j \in 1..k  BY <1>2, <2>1
  <2>3. c = d /\ i = j  BY <1>6, <1>9, <2>1, <2>2
  <2> QED  BY <2>1, <2>3
<1>10. ASSUME NEW x \in 1..kept
       PROVE  \E st \in Chunks(k) : \E i \in DOMAIN st : x \in st[i].items
  <2>1. PICK c \in 0..(kept \div k - 1), i \in 1..k : x \in chunk(c)[i].items  BY <1>7
  <2>2. chunk(c) \in Chunks(k) /\ i \in DOMAIN chunk(c)  BY <1>2, <1>4, <2>1
  <2> QED  BY <2>1, <2>2
<1> QED  BY <1>8, <1>9, <1>10

\* The samples of a rank when they are dealt out in turn.
LEMMA StridedHold ==
    ASSUME kept \in Nat, job.dp \in Nat \ {0}, NEW n \in Nat, kept = n * job.dp
    PROVE  /\ \A r, q \in Rank : \A x \in Strided(r) : x \in Strided(q) => r = q
           /\ \A x \in 1..kept : \E r \in Rank : x \in Strided(r)
           /\ \A r \in Rank : Cardinality(Strided(r)) * job.dp = kept
<1>0. PICK dp \in Nat \ {0} : dp = job.dp  OBVIOUS
<1>1. ASSUME NEW r \in 1..dp, NEW x \in 1..kept
      PROVE  (x - r) % dp = 0 <=> \E m \in Nat : x = m * dp + r
  <2>1. ASSUME (x - r) % dp = 0
        PROVE  \E m \in Nat : x = m * dp + r
    <3>1. PICK y \in Int : y = x - r /\ y % dp = 0  BY <2>1
    <3>2. PICK m \in Int : y = m * dp  BY <3>1, MultipleOf
    <3>3. (-1) * dp < m * dp  BY <3>1, <3>2
    <3>4. -1 < m  BY <3>3, ProductOrder
    <3>5. m \in Nat /\ x = m * dp + r  BY <3>1, <3>2, <3>4
    <3> QED  BY <3>5
  <2>2. ASSUME NEW m \in Nat, x = m * dp + r
        PROVE  (x - r) % dp = 0
    <3>1. m * dp \in Nat /\ (m * dp) \div dp = m  BY QuotientExact
    <3>2. x - r = m * dp  BY <2>2, <3>1
    <3>3. (m * dp) % dp = 0  BY <3>1, Multiple
    <3> QED  BY <3>2, <3>3
  <2> QED  BY <2>1, <2>2
<1>2. Rank = 1..dp  BY <1>0 DEF Rank
<1>3. \A r \in 1..dp : \A x : x \in Strided(r) <=> x \in 1..kept /\ \E m \in Nat : x = m * dp + r
  BY <1>0, <1>1 DEF Strided
<1>4. ASSUME NEW r \in 1..dp, NEW q \in 1..dp, NEW m \in Nat, NEW l \in Nat,
             m * dp + r = l * dp + q
      PROVE  m = l /\ r = q
  <2>1. m + 1 \in Nat \ {0} /\ l + 1 \in Nat \ {0} /\ (m + 1) - 1 = m /\ (l + 1) - 1 = l
    OBVIOUS
  <2>2. ((m + 1) - 1) * dp + r = ((l + 1) - 1) * dp + q  BY <1>4, <2>1
  <2>3. m + 1 = l + 1 /\ r = q
    BY ONLY <2>1, <2>2, r \in 1..dp, q \in 1..dp, dp \in Nat, LineNumbers
  <2> QED  BY <2>3
<1>5. ASSUME NEW r \in 1..dp, NEW q \in 1..dp, NEW x \in Strided(r), x \in Strided(q)
      PROVE  r = q
  <2>1. PICK m \in Nat : x = m * dp + r  BY <1>3
  <2>2. PICK l \in Nat : x = l * dp + q  BY <1>3, <1>5
  <2> QED  BY <1>4, <2>1, <2>2
<1>6. ASSUME NEW x \in 1..kept
      PROVE  \E r \in 1..dp : x \in Strided(r)
  <2>1. PICK y \in Nat : y = x - 1  OBVIOUS
  <2>2. PICK m \in Nat : m * dp <= y /\ y < m * dp + dp  BY Quotient
  <2>3. PICK a \in Nat : a = m * dp  BY <2>2
  <2>4. x - a \in 1..dp /\ x = a + (x - a)  BY <2>1, <2>2, <2>3
  <2> QED  BY <1>3, <2>3, <2>4
<1>7. ASSUME NEW r \in 1..dp
      PROVE  Cardinality(Strided(r)) = n
  <2> DEFINE f == [i \in 1..n |-> (i - 1) * dp + r]
  <2>1. ASSUME NEW i \in 1..n
        PROVE  f[i] \in Strided(r) /\ i - 1 \in Nat /\ f[i] = (i - 1) * dp + r
    <3>1. i - 1 \in Nat /\ i - 1 < n  OBVIOUS
    <3>2. (i - 1) * dp \in Nat /\ (i - 1) * dp + dp = i * dp  OBVIOUS
    <3>3. ~(n * dp < i * dp)  BY ProductOrder
    <3>4. i * dp <= kept  BY <1>0, <3>3
    <3>5. (i - 1) * dp + r \in 1..kept  BY <3>2, <3>4
    <3>6. (i - 1) * dp + r \in Strided(r)  BY <1>3, <3>1, <3>5
    <3> QED  BY <3>1, <3>6
  <2>2. ASSUME NEW i \in 1..n, NEW j \in 1..n, f[i] = f[j]
        PROVE  i = j
    <3>1. i - 1 = j - 1  BY <1>4, <2>1, <2>2
    <3> QED  BY <3>1
  <2>3. ASSUME NEW x \in Strided(r)
        PROVE  \E i \in 1..n : f[i] = x
    <3>1. PICK m \in Nat : x = m * dp + r  BY <1>3
    <3>2. m * dp < n * dp  BY <1>0, <1>3, <3>1
    <3>3. m < n  BY <3>2, ProductOrder
    <3>4. m + 1 \in 1..n /\ (m + 1) - 1 = m  BY <3>3
    <3>5. f[m + 1] = x  BY <3>1, <3>4
    <3> QED  BY <3>4, <3>5
  <2>4. f \in [1..n -> Strided(r)]  BY <2>1
  <2> HIDE DEF f
  <2>5. f \in Injection(1..n, Strided(r))  BY <2>2, <2>4 DEF Injection, IsInjective
  <2>6. f \in Surjection(1..n, Strided(r))  BY <2>3, <2>4 DEF Surjection
  <2>7. ExistsBijection(1..n, Strided(r))  BY <2>5, <2>6 DEF ExistsBijection, Bijection
  <2>8. IsFiniteSet(1..n) /\ Cardinality(1..n) = n  BY FS_Interval
  <2> QED  BY <2>7, <2>8, FS_Bijection
<1>8. \A r \in Rank : Cardinality(Strided(r)) * job.dp = kept  BY <1>0, <1>2, <1>7
<1> QED  BY <1>2, <1>5, <1>6, <1>8

LEMMA SplitS ==
    ASSUME IInv, SInv, Split
    PROVE  SInv'
<1>1. JobInv /\ Numbers /\ Fresh /\ phase = "trimmed" /\ heap = {}
  BY DEF IInv, SInv, Split, PhaseInv
<1>2. /\ job' = job /\ length' = length /\ kept' = kept /\ perStep' = perStep
      /\ turn' = turn /\ count' = count /\ batches' = batches
  BY DEF Split
<1>3. kept \in Nat /\ job.dp \in Nat \ {0} /\ \A s \in 1..kept : length[s] \in Nat
  BY <1>1, JobFacts
<1>4. PICK n \in Nat : kept = n * job.dp
  <2>1. perStep \in Nat \ {0} /\ \E n \in Nat \ {0} : kept = (n * perStep) * job.dp
    BY <1>1 DEF Numbers
  <2> QED  BY <2>1
<1>5. kept \div job.dp = n  BY <1>3, <1>4, QuotientExact
<1>6. kept = (kept \div job.dp) * job.dp /\ kept % job.dp = 0
  BY <1>3, <1>4, <1>5, Multiple
<1>7. phase' \in {"split", "received"}  BY <1>6 DEF Split
<1>8. Numbers' /\ Divisible'  BY <1>1, <1>2, SameNumbers
<1>9. Fresh'  BY <1>1, <1>2 DEF Fresh, Rank
<1>10. Sound' /\ PackingOne' /\ Agreed' /\ Progress' /\ Sliced'  BY <1>7, EarlyS
<1>11. Apart' /\ Splitting' /\ Parted'
  <2>1. CASE job.balance
    <3>1. heap' = Chunks(job.dp) /\ phase' = "split"  BY <1>6, <2>1 DEF Split
    <3>2. /\ \A st, ot \in Chunks(job.dp) : \A i \in DOMAIN st, j \in DOMAIN ot :
                 \A x \in st[i].items : x \in ot[j].items => st = ot /\ i = j
          /\ \A x \in 1..kept : \E st \in Chunks(job.dp) : \E i \in DOMAIN st :
                 x \in st[i].items
          /\ \A st \in Chunks(job.dp) : EqualSized(st)
      BY <1>3, <1>6, ChunksHold
    <3> DEFINE H == Chunks(job.dp)
    <3>3. heap' = H  BY <3>1
    <3> HIDE DEF H
    <3>4. /\ \A st, ot \in heap' : \A i \in DOMAIN st, j \in DOMAIN ot :
                 \A x \in st[i].items : x \in ot[j].items => st = ot /\ i = j
          /\ \A x \in 1..kept : \E st \in heap' : \E i \in DOMAIN st : x \in st[i].items
          /\ \A st \in heap' : EqualSized(st)
      BY <3>2, <3>3 DEF H
    <3>5. Apart'  BY <3>4 DEF Apart
    <3>6. Splitting'  BY <1>2, <3>4 DEF Splitting, Content, EqualSized
    <3> QED  BY <3>1, <3>5, <3>6 DEF Parted
  <2>2. CASE ~job.balance
    <3>1. parts' = [r \in Rank |-> Strided(r)] /\ phase' = "received" /\ heap' = {}
      BY <1>1, <2>2 DEF Split
    <3>2. /\ \A r, q \in Rank : \A x \in Strided(r) : x \in Strided(q) => r = q
          /\ \A x \in 1..kept : \E r \in Rank : x \in Strided(r)
          /\ \A r \in Rank : Cardinality(Strided(r)) * job.dp = kept
      BY <1>3, <1>4, StridedHold
    <3>3. \A r \in Rank : parts'[r] = Strided(r)  BY <3>1
    <3>4. Rank' = Rank  BY <1>2 DEF Rank
    <3>5. Parted'  BY <1>2, <3>2, <3>3, <3>4 DEF Parted
    <3> QED  BY <3>1, <3>5, EmptyHeapS DEF Splitting
  <2> QED  BY <2>1, <2>2
<1> QED  BY <1>8, <1>9, <1>10, <1>11 DEF SInv
----------------------------------------------------------------------------
\* Steps that change the heap only.
LEMMA SameLate ==
    ASSUME SInv, job' = job, kept' = kept, perStep' = perStep, parts' = parts,
           count' = count, batches' = batches, turn' = turn, phase' = phase
    PROVE  /\ Sound' /\ Numbers' /\ Divisible' /\ Fresh' /\ Parted'
           /\ Agreed' /\ Progress' /\ Sliced'
<1>1. /\ Sound /\ Numbers /\ Divisible /\ Fresh /\ Parted
      /\ Agreed /\ Progress /\ Sliced
  BY DEF SInv
<1>2. /\ Rank' = Rank /\ Steps' = Steps
      /\ \A r, step : SamplesOf(r, step)' = SamplesOf(r, step)
  BY SameParts
<1>3. Sound' /\ Numbers' /\ Divisible' /\ Fresh' /\ Parted'
  BY <1>1, <1>2 DEF Sound, Numbers, Divisible, FixedSizes, Fresh, Parted
<1>4. Agreed'  BY <1>1, <1>2 DEF Agreed
<1>5. \A r, step : Scheduled(r, step)' <=> Scheduled(r, step)
  BY <1>2 DEF Scheduled, Mine
<1>6. \A q : Packed(q)' <=> Packed(q)  BY <1>2, <1>5 DEF Packed, Packing
<1>7. Progress'  BY <1>1, <1>2, <1>6 DEF Progress
<1>8. Sliced'  BY <1>1, <1>2 DEF Sliced, SamplesAt, Row
<1> QED  BY <1>3, <1>4, <1>7, <1>8

\* The sets of a merged state: each comes from one set of one state and one of the other.
Merged(t, A, B, k) ==
    \E p \in [1..k -> 1..k] :
        /\ \A i, j \in 1..k : p[i] = p[j] => i = j
        /\ \A j \in 1..k : \E i \in 1..k : p[i] = j
        /\ \A i \in 1..k : t[i].items = A[p[i]].items \cup B[k + 1 - p[i]].items

LEMMA MergedSets ==
    ASSUME NEW k \in Nat \ {0}, NEW A \in [1..k -> Bins], NEW B \in [1..k -> Bins],
           NEW t \in Ordered(Joined(A, B))
    PROVE  DOMAIN t = 1..k /\ Merged(t, A, B, k)
<1>1. /\ Joined(A, B) \in [1..k -> Bins]
      /\ \A i \in 1..k :
            /\ k + 1 - i \in 1..k
            /\ Joined(A, B)[i].sum = A[i].sum + B[k + 1 - i].sum
            /\ Joined(A, B)[i].items = A[i].items \cup B[k + 1 - i].items
  <2>1. k \in Nat \ {0} /\ A \in [1..k -> Bins] /\ B \in [1..k -> Bins]  OBVIOUS
  <2> QED  BY ONLY <2>1, JoinedType
<1> DEFINE M == Joined(A, B)
<1>2. DOMAIN M = 1..k /\ \A i \in 1..k : M[i].items = A[i].items \cup B[k + 1 - i].items
  BY <1>1
<1>3. t \in Ordered(M)  OBVIOUS
<1> HIDE DEF M
<1>4. PICK p \in Bijection(1..k, 1..k) : t = [i \in 1..k |-> M[p[i]]]
  BY <1>2, <1>3 DEF Ordered
<1>5. /\ p \in [1..k -> 1..k]
      /\ \A i, j \in 1..k : p[i] = p[j] => i = j
      /\ \A j \in 1..k : \E i \in 1..k : p[i] = j
  BY <1>4 DEF Bijection, Injection, IsInjective, Surjection
<1>6. ASSUME NEW i \in 1..k
      PROVE  t[i].items = A[p[i]].items \cup B[k + 1 - p[i]].items
  <2>1. t[i] = M[p[i]] /\ p[i] \in 1..k  BY <1>4, <1>5
  <2> QED  BY <1>2, <2>1
<1>7. DOMAIN t = 1..k  BY <1>4
<1> QED  BY <1>5, <1>6, <1>7 DEF Merged

\* A merge keeps the samples and their sets apart.
LEMMA MergeApart ==
    ASSUME NEW k \in Nat \ {0}, NEW A \in heap, NEW B \in heap, A # B, NEW t,
           DOMAIN A = 1..k, DOMAIN B = 1..k, DOMAIN t = 1..k, Merged(t, A, B, k),
           heap' = (heap \ {A, B}) \cup {t}, Apart
    PROVE  /\ Apart'
           /\ \A x : (\E st \in heap' : \E i \in DOMAIN st : x \in st[i].items)
                <=> \E st \in heap : \E i \in DOMAIN st : x \in st[i].items
<1>1. PICK p \in [1..k -> 1..k] :
          /\ \A i, j \in 1..k : p[i] = p[j] => i = j
          /\ \A j \in 1..k : \E i \in 1..k : p[i] = j
          /\ \A i \in 1..k : t[i].items = A[p[i]].items \cup B[k + 1 - p[i]].items
  BY DEF Merged
<1> DEFINE m(i) == k + 1 - p[i]
<1>2. ASSUME NEW i \in 1..k
      PROVE  p[i] \in 1..k /\ m(i) \in 1..k
  <2>1. p[i] \in 1..k  OBVIOUS
  <2>2. k + 1 - p[i] \in 1..k  BY ONLY k \in Nat, <2>1
  <2> QED  BY <2>1, <2>2
<1>3. ASSUME NEW i \in 1..k, NEW j \in 1..k, m(i) = m(j)
      PROVE  i = j
  <2>1. p[i] \in 1..k /\ p[j] \in 1..k  BY <1>2
  <2>2. p[i] = p[j]  BY <1>3, <2>1
  <2> QED  BY <1>1, <2>2
<1>4. \A j \in 1..k : \E i \in 1..k : m(i) = j
  <2> SUFFICES ASSUME NEW j \in 1..k  PROVE \E i \in 1..k : m(i) = j
    OBVIOUS
  <2>1. k + 1 - j \in 1..k /\ k + 1 - (k + 1 - j) = j  BY ONLY k \in Nat, j \in 1..k
  <2>2. PICK i \in 1..k : p[i] = k + 1 - j  BY <1>1, <2>1
  <2>3. m(i) = j  BY <2>1, <2>2
  <2> QED  BY <2>3
<1>5. \A i \in 1..k : t[i].items = A[p[i]].items \cup B[m(i)].items  BY <1>1
<1> HIDE DEF m
<1>6. \A st, ot \in heap : \A i \in DOMAIN st, j \in DOMAIN ot :
          \A x \in st[i].items : x \in ot[j].items => st = ot /\ i = j
  BY DEF Apart
<1>7. ASSUME NEW i \in 1..k, NEW j \in 1..k, NEW x \in t[i].items, x \in t[j].items
      PROVE  i = j
  <2>1. CASE x \in A[p[i]].items
    <3>1. x \notin B[m(j)].items  BY <1>2, <1>6, <2>1
    <3>2. x \in A[p[j]].items  BY <1>5, <1>7, <3>1
    <3>3. p[i] = p[j]  BY <1>2, <1>6, <2>1, <3>2
    <3> QED  BY <1>1, <3>3
  <2>2. CASE x \in B[m(i)].items
    <3>1. x \notin A[p[j]].items  BY <1>2, <1>6, <2>2
    <3>2. x \in B[m(j)].items  BY <1>5, <1>7, <3>1
    <3>3. m(i) = m(j)  BY <1>2, <1>6, <2>2, <3>2
    <3> QED  BY <1>3, <3>3
  <2> QED  BY <1>5, <2>1, <2>2
<1>8. ASSUME NEW i \in 1..k, NEW x \in t[i].items
      PROVE  \E st \in {A, B} : \E j \in DOMAIN st : x \in st[j].items
  <2>1. x \in A[p[i]].items \/ x \in B[m(i)].items  BY <1>5
  <2> QED  BY <1>2, <2>1
<1>9. ASSUME NEW st \in {A, B}, NEW j \in DOMAIN st, NEW x \in st[j].items
      PROVE  \E i \in 1..k : x \in t[i].items
  <2>1. CASE st = A
    <3>1. PICK i \in 1..k : p[i] = j  BY <1>1, <2>1
    <3> QED  BY <1>5, <2>1, <3>1, <1>9
  <2>2. CASE st = B
    <3>1. PICK i \in 1..k : m(i) = j  BY <1>4, <2>2
    <3> QED  BY <1>5, <2>2, <3>1, <1>9
  <2> QED  BY <2>1, <2>2
<1>10. ASSUME NEW ot \in heap \ {A, B}, NEW i \in 1..k, NEW j \in DOMAIN ot,
              NEW x \in t[i].items
       PROVE  x \notin ot[j].items
  <2>1. PICK st \in {A, B} : \E l \in DOMAIN st : x \in st[l].items  BY <1>8
  <2> QED  BY <1>6, <2>1
<1>11. Apart'
  <2> SUFFICES ASSUME NEW st \in heap', NEW ot \in heap', NEW i \in DOMAIN st,
                      NEW j \in DOMAIN ot, NEW x \in st[i].items, x \in ot[j].items
               PROVE  st = ot /\ i = j
    BY DEF Apart
  <2>1. CASE st = t /\ ot = t  BY <1>7, <2>1
  <2>2. CASE st = t /\ ot \in heap \ {A, B}  BY <1>10, <2>2
  <2>3. CASE ot = t /\ st \in heap \ {A, B}  BY <1>10, <2>3
  <2>4. CASE st \in heap \ {A, B} /\ ot \in heap \ {A, B}  BY <1>6, <2>4
  <2> QED  BY <2>1, <2>2, <2>3, <2>4
<1>12. ASSUME NEW x, NEW st \in heap, NEW i \in DOMAIN st, x \in st[i].items
       PROVE  \E ot \in heap' : \E j \in DOMAIN ot : x \in ot[j].items
  <2>1. CASE st \in {A, B}
    <3>1. \E j \in 1..k : x \in t[j].items  BY <1>9, <1>12, <2>1
    <3> QED  BY <3>1
  <2>2. CASE st \notin {A, B}  BY <1>12, <2>2
  <2> QED  BY <2>1, <2>2
<1>13. ASSUME NEW x, NEW st \in heap', NEW i \in DOMAIN st, x \in st[i].items
       PROVE  \E ot \in heap : \E j \in DOMAIN ot : x \in ot[j].items
  <2>1. CASE st = t  BY <1>8, <1>13, <2>1
  <2>2. CASE st # t  BY <1>13, <2>2
  <2> QED  BY <2>1, <2>2
<1> QED  BY <1>11, <1>12, <1>13

\* States of sets of one size merge to a state of sets of one size.
LEMMA MergeEqual ==
    ASSUME NEW k \in Nat \ {0}, kept \in Nat,
           NEW A \in [1..k -> Bins], NEW B \in [1..k -> Bins], NEW t,
           DOMAIN t = 1..k, Merged(t, A, B, k),
           \A i, j \in 1..k : \A x \in A[i].items : x \notin B[j].items,
           EqualSized(A), EqualSized(B)
    PROVE  EqualSized(t)
<1>1. PICK p \in [1..k -> 1..k] :
          \A i \in 1..k : t[i].items = A[p[i]].items \cup B[k + 1 - p[i]].items
  BY DEF Merged
<1>2. 1 \in 1..k  OBVIOUS
<1> DEFINE a == Cardinality(A[1].items)
           b == Cardinality(B[1].items)
<1>3. \A i \in 1..k : A[i].items \in SUBSET (1..kept) /\ B[i].items \in SUBSET (1..kept)
  BY DEF Bins
<1>4. ASSUME NEW i \in 1..k
      PROVE  Cardinality(t[i].items) = a + b
  <2>1. PICK X, Y : X = A[p[i]].items /\ Y = B[k + 1 - p[i]].items  OBVIOUS
  <2>2. p[i] \in 1..k /\ k + 1 - p[i] \in 1..k  OBVIOUS
  <2>3. Cardinality(X) = a /\ Cardinality(Y) = b  BY <1>2, <2>1, <2>2 DEF EqualSized
  <2>4. X \in SUBSET (1..kept) /\ Y \in SUBSET (1..kept)  BY <1>3, <2>1, <2>2
  <2>5. X \cap Y = {}  BY <2>1, <2>2
  <2>6. IsFiniteSet(X) /\ IsFiniteSet(Y) /\ Cardinality(X) \in Nat /\ Cardinality(Y) \in Nat
    BY <2>4, FiniteItems
  <2>7. Cardinality(X \cup Y) = Cardinality(X) + Cardinality(Y) - Cardinality({})
    BY <2>5, <2>6, FS_Union
  <2>8. Cardinality(X \cup Y) = Cardinality(X) + Cardinality(Y)
    BY <2>6, <2>7, FS_EmptySet
  <2> QED  BY <1>1, <2>1, <2>3, <2>8
<1> QED  BY <1>4 DEF EqualSized

LEMMA MergeS ==
    ASSUME IInv, SInv, Merge
    PROVE  SInv'
<1>1. JobInv /\ HeapInv /\ Apart /\ Splitting /\ PackingOne  BY DEF IInv, SInv
<1>2. /\ job' = job /\ length' = length /\ kept' = kept /\ perStep' = perStep
      /\ parts' = parts /\ count' = count /\ batches' = batches /\ turn' = turn
      /\ phase' = phase /\ phase \in {"split", "pack"}
  BY DEF Merge
<1>3. PICK A, B, t :
          /\ A \in First(heap) /\ B \in First(heap \ {A}) /\ t \in Ordered(Joined(A, B))
          /\ heap' = (heap \ {A, B}) \cup {t}
  BY DEF Merge
<1>4. A \in heap /\ B \in heap /\ A # B  BY <1>3 DEF First
<1>5. PICK k \in Nat \ {0} : \A st \in heap : Good(st, k)  BY <1>1 DEF HeapInv
<1>6. A \in [1..k -> Bins] /\ B \in [1..k -> Bins]  BY <1>4, <1>5 DEF Good
<1>7. DOMAIN t = 1..k /\ Merged(t, A, B, k)  BY <1>3, <1>6, MergedSets
<1>8. DOMAIN A = 1..k /\ DOMAIN B = 1..k  BY <1>6
<1>9. /\ Apart'
      /\ \A x : (\E st \in heap' : \E i \in DOMAIN st : x \in st[i].items)
           <=> \E st \in heap : \E i \in DOMAIN st : x \in st[i].items
  BY <1>1, <1>3, <1>4, <1>7, <1>8, MergeApart
<1>10. \A S : Content(S) => Content(S)'  BY <1>2, <1>9 DEF Content
<1>11. Splitting'
  <2> SUFFICES ASSUME phase = "split"
               PROVE  Content(1..kept)' /\ \A st \in heap' : EqualSized(st)
    BY <1>2 DEF Splitting, EqualSized
  <2>1. Content(1..kept) /\ \A st \in heap : EqualSized(st)  BY <1>1 DEF Splitting
  <2>2. Content(1..kept)'  BY <1>2, <1>10, <2>1
  <2>3. \A i, j \in 1..k : \A x \in A[i].items : x \notin B[j].items
    BY <1>1, <1>4, <1>8 DEF Apart
  <2>4. kept \in Nat  BY <1>1, JobFacts
  <2>5. EqualSized(t)  BY <1>4, <1>6, <1>7, <2>1, <2>3, <2>4, MergeEqual
  <2> QED  BY <1>3, <2>1, <2>2, <2>5
<1>12. PackingOne'
  <2>1. /\ Rank' = Rank /\ Steps' = Steps
        /\ \A r, step : SamplesOf(r, step)' = SamplesOf(r, step)
    BY <1>2, SameParts
  <2> SUFFICES ASSUME phase = "pack", NEW r \in Rank, NEW step \in 1..Steps,
                      Packing(r, step)
               PROVE  /\ Content(SamplesOf(r, step))'
                      /\ \A st \in heap' : DOMAIN st = 1..count[r][step]
    BY <1>2, <2>1 DEF PackingOne, Packing
  <2>2. /\ Content(SamplesOf(r, step))
        /\ \A st \in heap : DOMAIN st = 1..count[r][step]
    BY <1>1, <1>4 DEF PackingOne
  <2>3. DOMAIN t = 1..count[r][step]  BY <1>4, <1>7, <1>8, <2>2
  <2>4. Content(SamplesOf(r, step))'  BY <1>2, <1>9, <2>1, <2>2 DEF Content
  <2> QED  BY <1>3, <2>2, <2>3, <2>4
<1>13. /\ Sound' /\ Numbers' /\ Divisible' /\ Fresh' /\ Parted'
       /\ Agreed' /\ Progress' /\ Sliced'
  BY <1>2, SameLate
<1> QED  BY <1>9, <1>11, <1>12, <1>13 DEF SInv
----------------------------------------------------------------------------
\* The partitions of the last state pass the checks of get_seqlen_balanced_partitions.
LEMMA SplitEndS ==
    ASSUME IInv, SInv, SplitEnd
    PROVE  SInv'
<1>1. JobInv /\ Numbers /\ Fresh /\ phase = "split"  BY DEF IInv, SInv, SplitEnd
<1>2. /\ job' = job /\ length' = length /\ kept' = kept /\ perStep' = perStep
      /\ count' = count /\ batches' = batches /\ turn' = turn /\ heap' = {}
  BY DEF SplitEnd
<1>3. PICK st \in heap :
          /\ heap = {st} /\ parts' = [r \in Rank |-> st[r].items]
          /\ phase' = IF Divides(st, 1..kept, TRUE) THEN "received" ELSE "failed"
  BY DEF SplitEnd
<1>4. PICK dp \in Nat \ {0} : dp = job.dp  BY <1>1, JobFacts
<1>5. st \in [1..dp -> Bins] /\ \A i \in 1..dp : st[i].items # {}
  <2>1. PICK k \in Nat \ {0} : Good(st, k) /\ k = job.dp /\ Whole(st)
    BY <1>1 DEF IInv, HeapInv
  <2> QED  BY <1>4, <2>1 DEF Good, Whole
<1>6. Len(st) = dp /\ DOMAIN st = 1..dp  BY <1>5, LenOf
<1>7. Rank = 1..dp  BY <1>4 DEF Rank
<1>8. kept \in Nat /\ \A i \in 1..dp : st[i].items \in SUBSET (1..kept)
  BY <1>1, <1>5, JobFacts DEF Bins
<1>9. \A x \in 1..kept : \E i \in 1..dp : x \in st[i].items
  BY <1>1, <1>3, <1>6 DEF SInv, Splitting, Content
<1>10. \A i, j \in 1..dp : \A x : x \in st[i].items /\ x \in st[j].items => i = j
  BY <1>3, <1>6 DEF SInv, Apart
<1>11. \A i \in 1..dp : Cardinality(st[i].items) = Cardinality(st[1].items)
  BY <1>1, <1>6 DEF SInv, Splitting, EqualSized
<1>12. UNION {st[i].items : i \in 1..dp} = 1..kept  BY <1>8, <1>9
<1>13. ASSUME NEW r \in 1..dp
       PROVE  Cardinality(st[r].items) * dp = kept
  <2> DEFINE B == [i \in 1..dp |-> st[i].items]
             m == Cardinality(st[1].items)
  <2>1. \A i \in 1..dp : IsFiniteSet(B[i]) /\ Cardinality(B[i]) = m
    BY <1>8, <1>11, FiniteItems
  <2>2. m \in Nat  BY <1>8, FiniteItems
  <2>3. \A i, j \in 1..dp : \A x : x \in B[i] /\ x \in B[j] => i = j  BY <1>10
  <2>4. UNION {B[i] : i \in 1..dp} = 1..kept  BY <1>12
  <2> HIDE DEF B, m
  <2>5. dp \in Nat  OBVIOUS
  <2>6. Cardinality(UNION {B[i] : i \in 1..dp}) = dp * m
    BY ONLY <2>1, <2>2, <2>3, <2>5, EqualSets
  <2>7. Cardinality(1..kept) = kept  BY <1>8, FS_Interval
  <2>8. Cardinality(1..kept) = dp * m  BY ONLY <2>4, <2>6, Zenon
  <2>9. kept = dp * m /\ dp * m = m * dp  BY <2>2, <2>7, <2>8
  <2> QED  BY <1>11, <2>9 DEF m
<1>14. Divides(st, 1..kept, TRUE)
  <2>1. Cardinality(1..kept) = kept  BY <1>8, FS_Interval
  <2> QED  BY <1>5, <1>6, <1>12, <1>13, <2>1 DEF Divides
<1>15. phase' = "received"  BY <1>3, <1>14
<1>16. Rank' = Rank /\ \A r \in Rank : parts'[r] = st[r].items  BY <1>2, <1>3 DEF Rank
<1>17. Parted'  BY <1>2, <1>4, <1>7, <1>9, <1>10, <1>13, <1>16 DEF Parted
<1>18. Numbers' /\ Divisible'  BY <1>1, <1>2, SameNumbers
<1>19. Fresh'  BY <1>1, <1>2, <1>16 DEF Fresh
<1>20. Sound' /\ PackingOne' /\ Agreed' /\ Progress' /\ Sliced'  BY <1>15, EarlyS
<1>21. Apart' /\ Splitting'  BY <1>2, <1>15, EmptyHeapS DEF Splitting
<1> QED  BY <1>17, <1>18, <1>19, <1>20, <1>21 DEF SInv

\* The number of micro-batches is the same for all ranks, and does not exceed the rows.
LEMMA CountFacts ==
    ASSUME JobInv, Numbers, Parted, phase = "received", NEW step \in 1..Steps
    PROVE  \E n \in 1..perStep : \A r \in Rank : Grouped(Reduced(r, step)) = n
<1>1. /\ job.tokens \in Nat /\ job.vpp \in Nat \ {0} /\ kept \in Nat
      /\ \A s \in 1..kept : length[s] \in Nat
  BY JobsAssumption, JobFacts DEF JobInv
<1>2. perStep \in Nat \ {0} /\ 1 \in Rank  BY StepsFacts
<1>3. ASSUME NEW r \in Rank
      PROVE  FirstFit(r, step) \in 1..perStep
  <2>1. PICK S \in SUBSET (1..kept) :
            S = SamplesOf(r, step) /\ Cardinality(S) = perStep /\ S # {}
    BY SamplesFacts
  <2>2. FirstFit(r, step) = Len(Batches(S))  BY <2>1 DEF FirstFit, Batches
  <2>3. Len(Batches(S)) \in 1..Cardinality(S)  BY <1>1, <2>1, FirstFitBound
  <2> QED  BY <2>1, <2>2, <2>3
<1> DEFINE F == {FirstFit(q, step) : q \in Rank}
<1>4. F \in SUBSET (0..perStep) /\ F # {} /\ F \in SUBSET (1..perStep)  BY <1>2, <1>3
<1>5. \A r \in Rank : Reduced(r, step) = Max(F)  BY DEF Reduced
<1> HIDE DEF F
<1>6. Max(F) \in F  BY <1>2, <1>4, Greatest
<1>7. PICK n \in 1..perStep : n = Max(F)  BY <1>4, <1>6
<1>8. Grouped(n) \in 1..perStep
  <2>1. PICK w \in Nat : w = (n \div job.vpp) * job.vpp /\ w <= n
    <3>1. n \in Nat /\ n \div job.vpp \in Nat  BY <1>1, <1>2, Quotient
    <3>2. (n \div job.vpp) * job.vpp \in Nat  BY <1>1, <3>1
    <3>3. (n \div job.vpp) * job.vpp <= n  BY <1>1, <3>1, Quotient
    <3> QED  BY <3>2, <3>3
  <2> DEFINE W == {w, 1}
  <2>2. Grouped(n) = Max(W)  BY <2>1 DEF Grouped
  <2>3. W \in SUBSET (0..perStep) /\ W # {}  BY <1>2, <2>1
  <2>4. 1 \in W /\ \A x \in W : x \in 0..perStep  BY <2>3
  <2> HIDE DEF W
  <2>5. Max(W) \in W /\ 1 <= Max(W)  BY <1>2, <2>3, <2>4, Greatest
  <2> QED  BY <1>2, <2>2, <2>4, <2>5
<1> QED  BY <1>5, <1>7, <1>8

LEMMA IterateS ==
    ASSUME IInv, SInv, Iterate
    PROVE  SInv'
<1>1. JobInv /\ Numbers /\ Parted /\ Fresh /\ phase = "received" /\ heap = {}
  BY DEF IInv, PhaseInv, SInv, Iterate
<1>2. /\ job' = job /\ length' = length /\ kept' = kept /\ perStep' = perStep
      /\ parts' = parts /\ turn' = turn /\ heap' = heap
  BY DEF Iterate
<1>3. /\ Rank' = Rank /\ Steps' = Steps
      /\ \A r, step : SamplesOf(r, step)' = SamplesOf(r, step)
  BY <1>2, SameParts
<1>4. /\ turn = 1 /\ batches = [r \in Rank |-> <<>>]
      /\ count = [r \in Rank |-> <<>>]
  BY <1>1 DEF Fresh
<1>5. /\ perStep \in Nat \ {0} /\ Steps \in Nat \ {0} /\ 1 \in Rank  BY <1>1, StepsFacts
<1>6. Numbers' /\ Divisible'  BY <1>1, <1>2, SameNumbers
<1>7. Parted'  BY <1>1, <1>2, <1>3 DEF Parted
<1>8. Apart' /\ PackingOne'  BY <1>1, <1>2, EmptyHeapS
<1>9. job.tokens \in Nat  BY <1>1, JobsAssumption DEF JobInv
<1>10. CASE job.tokens > 0
  <2>1. /\ count' = [r \in Rank |-> [i \in 1..Steps |-> Grouped(Reduced(r, i))]]
        /\ phase' = "pack" /\ batches' = batches
    BY <1>10 DEF Iterate
  <2>2. ASSUME NEW r \in Rank
        PROVE  /\ count'[r] \in [1..Steps -> 1..perStep]
               /\ \A q \in Rank : count'[r] = count'[q]
    <3>1. count'[r] = [i \in 1..Steps |-> Grouped(Reduced(r, i))]  BY <2>1
    <3>2. \A i \in 1..Steps : Grouped(Reduced(r, i)) \in 1..perStep  BY <1>1, CountFacts
    <3>3. ASSUME NEW q \in Rank
          PROVE  count'[r] = count'[q]
      <4>1. count'[q] = [i \in 1..Steps |-> Grouped(Reduced(q, i))]  BY <2>1
      <4>2. \A i \in 1..Steps : Grouped(Reduced(r, i)) = Grouped(Reduced(q, i))
        BY <1>1, CountFacts
      <4> QED  BY <3>1, <4>1, <4>2
    <3> QED  BY <3>1, <3>2, <3>3
  <2>3. Agreed'  BY <1>2, <1>3, <2>2 DEF Agreed
  <2>4. ASSUME NEW q \in Rank
        PROVE  Packed(q)'
    <3>1. batches'[q] = <<>>  BY <1>4, <2>1
    <3>2. q \in Nat \ {0} /\ (q - 1) * Steps \in Nat
      <4>1. q \in 1..job.dp /\ job.dp \in Nat  BY <1>1, JobFacts DEF Rank
      <4>2. q - 1 \in Nat  BY <4>1
      <4> QED  BY <1>5, <4>1, <4>2
    <3>3. ASSUME NEW s \in 1..Steps, turn' = (q - 1) * Steps + s
          PROVE  Len(batches'[q]) = Total(count'[q], 1..(s - 1))
      <4>1. s - 1 = 0  BY <1>2, <1>4, <3>2, <3>3
      <4>2. 0 \in Nat /\ \A i \in 1..(0 + 1) : count'[q][i] \in Nat
        BY <1>5, <2>2
      <4>3. Total(count'[q], 1..0) = 0  BY ONLY <4>2, PrefixTotal
      <4>4. Len(<<>>) = 0  BY EmptySeq
      <4> QED  BY <3>1, <4>1, <4>3, <4>4
    <3>4. ASSUME NEW s \in 1..Steps
          PROVE  ~((q - 1) * Steps + s < turn')
      BY <1>2, <1>4, <3>2
    <3>5. batches'[q] \in Seq(SUBSET parts[q])  BY <3>1, EmptySeq
    <3> QED  BY <1>2, <1>3, <3>1, <3>3, <3>4, <3>5 DEF Packed, Packing
  <2>5. Progress'
    <3>1. batches' \in [Rank -> Seq(SUBSET (1..kept))]  BY <1>4, <2>1, EmptySeq
    <3>2. count' = [r \in Rank |-> count'[r]] /\ turn' \in Nat  BY <1>2, <1>4, <2>1
    <3> QED  BY <1>2, <1>3, <1>10, <2>1, <2>4, <3>1, <3>2 DEF Progress
  <2>6. Sound' /\ Fresh' /\ Splitting' /\ Sliced'
    BY <2>1 DEF Sound, Fresh, Splitting, Sliced
  <2> QED  BY <1>6, <1>7, <1>8, <2>3, <2>5, <2>6 DEF SInv
<1>11. CASE job.tokens = 0
  <2>1. phase' = "done" /\ ~(job.tokens > 0)  BY <1>11 DEF Iterate
  <2>2. /\ count' = [r \in Rank |-> [i \in 1..Steps |-> perStep \div job.microBatch]]
        /\ batches' = [r \in Rank |-> [b \in 1..(Steps * (perStep \div job.microBatch)) |->
             SamplesAt(r, ((b - 1) * job.microBatch + 1)..(b * job.microBatch))]]
    BY <2>1 DEF Iterate
  <2>3. \A r, rows : SamplesAt(r, rows)' = SamplesAt(r, rows)  BY <1>2 DEF SamplesAt, Row
  <2>4. Sliced'  BY <1>2, <1>3, <1>4, <2>2, <2>3 DEF Sliced
  <2>5. Agreed' /\ Progress'  BY <1>2, <1>11, <2>1 DEF Agreed, Progress
  <2>6. Sound' /\ Fresh' /\ Splitting'  BY <2>1 DEF Sound, Fresh, Splitting
  <2> QED  BY <1>6, <1>7, <1>8, <2>4, <2>5, <2>6 DEF SInv
<1> QED  BY <1>9, <1>10, <1>11
----------------------------------------------------------------------------
\* At any moment one step of one rank is packed.
LEMMA OnePacks ==
    ASSUME JobInv, Numbers, Parted, phase \in {"received", "pack", "done"},
           NEW r \in Rank, NEW q \in Rank, NEW s \in 1..Steps, NEW t \in 1..Steps
    PROVE  /\ (r - 1) * Steps \in Nat
           /\ (r - 1) * Steps + s = (q - 1) * Steps + t => r = q /\ s = t
<1>1. PICK n \in Nat : n = Steps  BY StepsFacts
<1>2. r \in Nat \ {0} /\ q \in Nat \ {0}  BY JobFacts DEF Rank
<1>3. s \in 1..n /\ t \in 1..n  BY <1>1
<1>4. (r - 1) * n \in Nat  BY <1>1, <1>2
<1>5. (r - 1) * n + s = (q - 1) * n + t => r = q /\ s = t
  BY ONLY <1>2, <1>3, n \in Nat, LineNumbers
<1> QED  BY <1>1, <1>4, <1>5

LEMMA PackS ==
    ASSUME IInv, SInv, phase = "pack", NEW r \in Rank, NEW step \in 1..Steps, Pack(r, step)
    PROVE  SInv'
<1>1. JobInv /\ Numbers /\ Parted /\ Agreed /\ Progress /\ job.tokens > 0
  BY DEF IInv, SInv, Progress
<1>2. /\ job' = job /\ length' = length /\ kept' = kept /\ perStep' = perStep
      /\ parts' = parts /\ count' = count /\ batches' = batches /\ turn' = turn
      /\ heap = {} /\ Packing(r, step)
  BY DEF Pack
<1>3. PICK S \in SUBSET (1..kept) : S = SamplesOf(r, step) /\ Cardinality(S) = perStep
  BY <1>1, SamplesFacts
<1>4. PICK k \in 1..perStep : k = count[r][step]  BY <1>1 DEF Agreed
<1>5. heap' = Singles(S, k) /\ phase' = phase  BY <1>3, <1>4 DEF Pack
<1>6. /\ Sound' /\ Numbers' /\ Divisible' /\ Fresh' /\ Parted'
      /\ Agreed' /\ Progress' /\ Sliced'
  BY <1>2, <1>5, SameLate
<1> DEFINE one(x) == [i \in 1..k |-> IF i = 1 THEN One(x) ELSE Empty]
<1>7. 1 \in 1..k  BY <1>4
<1>8. ASSUME NEW x
      PROVE  /\ DOMAIN one(x) = 1..k /\ one(x)[1].items = {x}
             /\ \A i \in 1..k : i # 1 => one(x)[i].items = {}
  BY <1>7 DEF One, Empty
<1>9. heap' = {one(x) : x \in S}  BY <1>5 DEF Singles
<1> HIDE DEF one
<1>10. ASSUME NEW st \in heap'
       PROVE  \E x \in S : st = one(x) /\ \A i \in DOMAIN st : \A y \in st[i].items : y = x /\ i = 1
  <2>1. PICK x \in S : st = one(x)  BY <1>9
  <2>2. /\ DOMAIN st = 1..k /\ st[1].items = {x}
        /\ \A i \in 1..k : i # 1 => st[i].items = {}
    BY <1>8, <2>1
  <2>3. \A i \in DOMAIN st : \A y \in st[i].items : y = x /\ i = 1  BY <2>2
  <2> QED  BY <2>1, <2>3
<1>11. Apart'  BY <1>10 DEF Apart
<1>12. ASSUME NEW x \in S
       PROVE  \E st \in heap' : \E i \in DOMAIN st : x \in st[i].items
  <2>1. one(x) \in heap'  BY <1>9
  <2>2. DOMAIN one(x) = 1..k /\ one(x)[1].items = {x}  BY <1>8
  <2>3. 1 \in DOMAIN one(x) /\ x \in one(x)[1].items  BY <1>7, <2>2
  <2> QED  BY <2>1, <2>3
<1>13. ASSUME NEW st \in heap', NEW i \in DOMAIN st, NEW x \in st[i].items
       PROVE  x \in S
  BY <1>10
<1>14. \A st \in heap' : DOMAIN st = 1..k  BY <1>8, <1>9
<1>15. PackingOne'
  <2>1. /\ Rank' = Rank /\ Steps' = Steps
        /\ \A q, s : SamplesOf(q, s)' = SamplesOf(q, s)
    BY <1>2, SameParts
  <2>2. ASSUME NEW q \in Rank, NEW s \in 1..Steps, Packing(q, s)
        PROVE  q = r /\ s = step
    BY <1>1, <1>2, <2>2, OnePacks DEF Packing
  <2>3. \A x \in 1..kept : x \in S <=> \E st \in heap' : \E i \in DOMAIN st : x \in st[i].items
    BY <1>12, <1>13
  <2>4. Content(SamplesOf(r, step))'  BY <1>2, <1>3, <2>1, <2>3 DEF Content
  <2> QED  BY <1>2, <1>4, <1>14, <2>1, <2>2, <2>4 DEF PackingOne, Packing
<1>16. Splitting'  BY <1>5 DEF Splitting
<1> QED  BY <1>6, <1>11, <1>15, <1>16 DEF SInv

\* The micro-batches of a step follow those of the steps before.
LEMMA MineFacts ==
    ASSUME NEW c, NEW n \in Nat, c \in [1..n -> Nat], NEW s \in 1..n
    PROVE  /\ Total(c, 1..(s - 1)) \in Nat
           /\ Total(c, 1..s) = Total(c, 1..(s - 1)) + c[s]
<1>1. PICK m \in Nat : m = s - 1  OBVIOUS
<1>2. m + 1 = s /\ \A i \in 1..(m + 1) : c[i] \in Nat  BY <1>1
<1>3. /\ Total(c, 1..m) \in Nat
      /\ Total(c, 1..(m + 1)) = Total(c, 1..m) + c[m + 1]
  BY <1>2, PrefixTotal
<1> QED  BY <1>1, <1>2, <1>3

\* Packing appends the partitions of the last state: its step is scheduled, and so are
\* those before.
LEMMA Appended ==
    ASSUME JobInv, Numbers, Parted, phase = "pack", NEW r \in Rank, NEW step \in 1..Steps,
           Packing(r, step), Packed(r), Apart, NEW st, heap = {st},
           \A x : x \in SamplesOf(r, step) <=> \E i \in DOMAIN st : x \in st[i].items,
           DOMAIN st = 1..count[r][step], count[r] \in [1..Steps -> 1..perStep],
           turn' = turn + 1, count' = count, job' = job, perStep' = perStep, parts' = parts,
           batches'[r] = batches[r] \o [i \in DOMAIN st |-> st[i].items]
    PROVE  Packed(r)' /\ Scheduled(r, step)'
<1> DEFINE B == batches[r]
           C == batches'[r]
           F == [i \in DOMAIN st |-> st[i].items]
           c == count[r]
           P == parts[r]
<1>1. perStep \in Nat \ {0} /\ Steps \in Nat \ {0}  BY StepsFacts
<1>2. /\ Rank' = Rank /\ Steps' = Steps
      /\ \A q, s : SamplesOf(q, s)' = SamplesOf(q, s)
  BY SameParts
<1>3. c \in [1..Steps -> Nat]  BY <1>1
<1>4. PICK k \in Nat : k = c[step]  BY <1>3
<1>5. SamplesOf(r, step) \in SUBSET P  BY SamplesFacts
<1>6. /\ B \in Seq(SUBSET P) /\ Len(B) = Total(c, 1..(step - 1))
      /\ \A s \in 1..Steps : (r - 1) * Steps + s < turn => Scheduled(r, s)
  BY DEF Packed
<1>7. F \in [1..k -> SUBSET P]  BY <1>4, <1>5
<1>8. F \in Seq(SUBSET P) /\ Len(F) = k
  <2> HIDE DEF F
  <2>1. F \in Seq(SUBSET P)  BY <1>7, SeqDef
  <2> QED  BY <1>7, <2>1, LenOf
<1>9. \A i \in 1..k : F[i] = st[i].items  BY <1>4
<1>10. \A x : x \in SamplesOf(r, step) <=> \E i \in 1..k : x \in F[i]  BY <1>4, <1>9
<1>11. \A i, j \in 1..k : \A x \in F[i] : x \in F[j] => i = j
  <2>1. \A i, j \in DOMAIN st : \A x \in st[i].items : x \in st[j].items => i = j
    BY DEF Apart
  <2>2. DOMAIN st = 1..k  BY <1>4
  <2> HIDE DEF F
  <2> QED  BY <1>9, <2>1, <2>2
<1>12. C = B \o F  OBVIOUS
<1>13. batches'[r] = C /\ batches[r] = B /\ count[r] = c /\ count'[r] = c  OBVIOUS
<1> HIDE DEF F, B, C, c, P
<1>14. /\ C \in Seq(SUBSET P) /\ Len(C) = Len(B) + k
       /\ \A i \in 1..(Len(B) + k) : C[i] = IF i <= Len(B) THEN B[i] ELSE F[i - Len(B)]
  <2>1. B \in Seq(SUBSET P)  BY <1>6
  <2>2. /\ B \o F \in Seq(SUBSET P) /\ Len(B \o F) = Len(B) + Len(F)
        /\ \A i \in 1..(Len(B) + Len(F)) :
              (B \o F)[i] = IF i <= Len(B) THEN B[i] ELSE F[i - Len(B)]
    BY ONLY <1>8, <2>1, ConcatProperties
  <2> QED  BY ONLY <1>8, <1>12, <2>2
<1>15. PICK l \in Nat : l = Len(B)  BY <1>6, LenProperties
<1>16. DOMAIN C = 1..(l + k) /\ DOMAIN B = 1..l  BY <1>6, <1>14, <1>15, LenProperties
<1>17. \A i \in 1..l : C[i] = B[i]  BY <1>14, <1>15
<1>18. \A i \in 1..k : C[l + i] = F[i] /\ l + i \in 1..(l + k)
  <2> SUFFICES ASSUME NEW i \in 1..k  PROVE C[l + i] = F[i] /\ l + i \in 1..(l + k)
    OBVIOUS
  <2>1. l + i \in 1..(l + k) /\ ~(l + i <= l) /\ (l + i) - l = i  OBVIOUS
  <2> QED  BY <1>14, <1>15, <2>1
<1>19. Scheduled(r, step)'
  <2>1. Mine(r, step)' = (l + 1)..(l + k)
    BY <1>4, <1>6, <1>13, <1>15 DEF Mine
  <2>2. \A b \in (l + 1)..(l + k) : b - l \in 1..k /\ l + (b - l) = b /\ C[b] = F[b - l]
    <3> SUFFICES ASSUME NEW b \in (l + 1)..(l + k)
                 PROVE  b - l \in 1..k /\ l + (b - l) = b /\ C[b] = F[b - l]
      OBVIOUS
    <3>1. b - l \in 1..k /\ l + (b - l) = b  OBVIOUS
    <3> QED  BY <1>18, <3>1
  <2>3. (l + 1)..(l + k) \subseteq DOMAIN C  BY <1>16
  <2>4. UNION {C[b] : b \in (l + 1)..(l + k)} = SamplesOf(r, step)
    <3>1. ASSUME NEW b \in (l + 1)..(l + k), NEW x \in C[b]
          PROVE  x \in SamplesOf(r, step)
      BY <1>10, <2>2
    <3>2. ASSUME NEW x \in SamplesOf(r, step)
          PROVE  \E b \in (l + 1)..(l + k) : x \in C[b]
      <4>1. PICK i \in 1..k : x \in F[i]  BY <1>10
      <4>2. l + i \in (l + 1)..(l + k) /\ C[l + i] = F[i]  BY <1>18
      <4> QED  BY <4>1, <4>2
    <3> QED  BY <3>1, <3>2
  <2>5. ASSUME NEW a \in (l + 1)..(l + k), NEW b \in (l + 1)..(l + k), a # b
        PROVE  C[a] \cap C[b] = {}
    <3>1. a - l \in 1..k /\ b - l \in 1..k /\ a - l # b - l  BY <2>2, <2>5
    <3>2. C[a] = F[a - l] /\ C[b] = F[b - l]  BY <2>2
    <3> QED  BY <1>11, <3>1, <3>2
  <2> QED  BY <1>2, <1>13, <2>1, <2>3, <2>4, <2>5 DEF Scheduled
<1>20. ASSUME NEW s \in 1..Steps, Scheduled(r, s)
       PROVE  Scheduled(r, s)'
  <2>1. Mine(r, s)' = Mine(r, s)  BY DEF Mine
  <2>2. \A b \in Mine(r, s) : b \in DOMAIN B /\ b \in DOMAIN C /\ C[b] = B[b]
    <3>1. Mine(r, s) \subseteq 1..l  BY <1>13, <1>16, <1>20 DEF Scheduled
    <3> QED  BY <1>16, <1>17, <3>1
  <2>3. \A b \in Mine(r, s) : batches'[r][b] = batches[r][b]  BY <1>13, <2>2
  <2>4. {batches'[r][b] : b \in Mine(r, s)} = {batches[r][b] : b \in Mine(r, s)}  BY <2>3
  <2>5. Mine(r, s) \subseteq DOMAIN batches'[r]  BY <1>13, <2>2
  <2> QED  BY <1>2, <1>20, <2>1, <2>3, <2>4, <2>5 DEF Scheduled
<1>21. /\ (r - 1) * Steps \in Nat /\ turn = (r - 1) * Steps + step
       /\ turn' = turn + 1
  BY OnePacks DEF Packing
<1>22. ~(turn' <= (r - 1) * Steps)  BY <1>1, <1>21
<1>23. ASSUME NEW s \in 1..Steps, turn' = (r - 1) * Steps + s
       PROVE  Len(C) = Total(c, 1..(s - 1))
  <2>1. s - 1 = step  BY <1>1, <1>21, <1>23
  <2>2. Total(c, 1..step) = Total(c, 1..(step - 1)) + c[step]  BY <1>1, <1>3, MineFacts
  <2> QED  BY <1>4, <1>6, <1>14, <2>1, <2>2
<1>24. ASSUME NEW s \in 1..Steps, (r - 1) * Steps + s < turn'
       PROVE  Scheduled(r, s)'
  <2>1. s = step \/ (r - 1) * Steps + s < turn  BY <1>1, <1>21, <1>24
  <2>2. CASE s = step  BY <1>19, <2>2
  <2>3. CASE (r - 1) * Steps + s < turn  BY <1>6, <1>20, <2>3
  <2> QED  BY <2>1, <2>2, <2>3
<1>25. batches'[r] \in Seq(SUBSET parts[r])  BY <1>13, <1>14 DEF P
<1>26. Packed(r)'
  BY <1>2, <1>13, <1>22, <1>23, <1>24, <1>25 DEF Packed, Packing
<1> QED  BY <1>19, <1>26

\* The other ranks: the turn may have come to the next one.
LEMMA OthersPacked ==
    ASSUME JobInv, Numbers, Parted, phase = "pack", NEW r \in Rank, NEW step \in 1..Steps,
           Packing(r, step), NEW q \in Rank, q # r, Packed(q),
           turn' = turn + 1, count' = count, job' = job, perStep' = perStep, parts' = parts,
           batches'[q] = batches[q]
    PROVE  Packed(q)'
<1>1. Steps \in Nat \ {0}  BY StepsFacts
<1>2. /\ Rank' = Rank /\ Steps' = Steps
      /\ \A p, s : SamplesOf(p, s)' = SamplesOf(p, s)
  BY SameParts
<1>3. /\ (q - 1) * Steps \in Nat /\ (r - 1) * Steps \in Nat
      /\ \A s \in 1..Steps : (q - 1) * Steps + s # (r - 1) * Steps + step
  BY OnePacks
<1>4. turn = (r - 1) * Steps + step  BY DEF Packing
<1>5. turn \in Nat  BY <1>1, <1>3, <1>4
<1>6. /\ batches[q] \in Seq(SUBSET parts[q])
      /\ turn <= (q - 1) * Steps => batches[q] = <<>>
      /\ \A s \in 1..Steps :
            /\ turn = (q - 1) * Steps + s => Len(batches[q]) = Total(count[q], 1..(s - 1))
            /\ (q - 1) * Steps + s < turn => Scheduled(q, s)
  BY DEF Packed, Packing
<1>7. \A s : Scheduled(q, s)' <=> Scheduled(q, s)  BY <1>2 DEF Scheduled, Mine
<1>8. turn' <= (q - 1) * Steps => batches[q] = <<>>  BY <1>3, <1>5, <1>6
<1>9. ASSUME NEW s \in 1..Steps, turn' = (q - 1) * Steps + s
      PROVE  Len(batches[q]) = Total(count[q], 1..(s - 1))
  <2>1. CASE s = 1
    <3>1. turn <= (q - 1) * Steps  BY <1>3, <1>5, <1>9, <2>1
    <3>2. Len(batches[q]) = 0  BY <1>6, <3>1, EmptySeq
    <3>3. \A x \in {} : count[q][x] \in Nat  OBVIOUS
    <3>4. Total(count[q], {}) = 0  BY <3>3, FS_EmptySet, TotalFacts
    <3>5. 1..(s - 1) = {}  BY <2>1
    <3> QED  BY <3>2, <3>4, <3>5
  <2>2. CASE s # 1
    <3>1. s - 1 \in 1..Steps  BY <1>1, <2>2
    <3>2. turn = (q - 1) * Steps + (s - 1)  BY <1>1, <1>3, <1>5, <1>9
    <3> QED  BY <1>3, <1>4, <3>1, <3>2
  <2> QED  BY <2>1, <2>2
<1>10. ASSUME NEW s \in 1..Steps, (q - 1) * Steps + s < turn'
       PROVE  Scheduled(q, s)
  <2>1. (q - 1) * Steps + s # turn  BY <1>3, <1>4
  <2>2. (q - 1) * Steps + s < turn  BY <1>1, <1>3, <1>5, <1>10, <2>1
  <2> QED  BY <1>6, <2>2
<1> QED  BY <1>2, <1>6, <1>7, <1>8, <1>9, <1>10 DEF Packed, Packing

\* A rank has packed each of its rows when it has packed its last step.
LEMMA EachRow ==
    ASSUME JobInv, Numbers, Parted, phase = "pack", NEW r \in Rank,
           job' = job, perStep' = perStep, parts' = parts, Packed(r)',
           \A s \in 1..Steps : Scheduled(r, s)'
    PROVE  EachRowPacked(r, batches'[r])
<1>1. /\ Rank' = Rank /\ Steps' = Steps
      /\ \A p, s : SamplesOf(p, s)' = SamplesOf(p, s)
  BY SameParts
<1> DEFINE C == batches'[r]
<1>2. C \in Seq(SUBSET parts[r])  BY DEF Packed
<1>3. ASSUME NEW b \in DOMAIN C
      PROVE  C[b] \subseteq parts[r]
  <2>1. b \in 1..Len(C)  BY <1>2, LenProperties
  <2> HIDE DEF C
  <2> QED  BY <1>2, <2>1, ElementOfSeq
<1>4. ASSUME NEW x \in parts[r]
      PROVE  \E b \in DOMAIN C : x \in C[b]
  <2>1. PICK s \in 1..Steps : x \in SamplesOf(r, s)  BY SamplesFacts
  <2>2. \E M : M \subseteq DOMAIN C /\ UNION {C[b] : b \in M} = SamplesOf(r, s)
    BY <1>1 DEF Scheduled
  <2> HIDE DEF C
  <2> QED  BY <2>1, <2>2
<1> HIDE DEF C
<1>5. UNION {C[b] : b \in DOMAIN C} = parts[r]  BY <1>3, <1>4
<1> QED  BY <1>5 DEF EachRowPacked, C

LEMMA PackEndS ==
    ASSUME IInv, SInv, phase = "pack", NEW r \in Rank, NEW step \in 1..Steps,
           PackEnd(r, step)
    PROVE  SInv'
<1>1. /\ JobInv /\ Numbers /\ Parted /\ Agreed /\ Progress /\ Apart /\ PackingOne
      /\ job.tokens > 0
  BY DEF IInv, SInv, Progress
<1>2. /\ job' = job /\ length' = length /\ kept' = kept /\ perStep' = perStep
      /\ parts' = parts /\ count' = count /\ turn' = turn + 1 /\ heap' = {}
      /\ Packing(r, step)
  BY DEF PackEnd
<1>3. PICK st \in heap :
          /\ heap = {st}
          /\ batches' = [batches EXCEPT ![r] = @ \o [i \in DOMAIN st |-> st[i].items]]
          /\ phase' = IF \/ ~Divides(st, SamplesOf(r, step), FALSE)
                         \/ step = Steps /\ ~EachRowPacked(r, batches'[r])
                      THEN "failed" ELSE
                      IF r = job.dp /\ step = Steps THEN "done" ELSE "pack"
  BY DEF PackEnd
<1>4. /\ Rank' = Rank /\ Steps' = Steps
      /\ \A q, s : SamplesOf(q, s)' = SamplesOf(q, s)
  BY <1>2, SameParts
<1>5. /\ turn \in Nat /\ batches \in [Rank -> Seq(SUBSET (1..kept))]
      /\ count = [q \in Rank |-> count[q]] /\ \A q \in Rank : Packed(q)
  BY <1>1 DEF Progress
<1>6. /\ perStep \in Nat \ {0} /\ Steps \in Nat \ {0} /\ kept \in Nat
      /\ job.dp \in Nat \ {0}
  BY <1>1, StepsFacts, JobFacts
<1>7. /\ SamplesOf(r, step) \in SUBSET (1..kept) /\ parts[r] \in SUBSET (1..kept)
  BY <1>1, SamplesFacts DEF JobInv
<1>8. DOMAIN st = 1..count[r][step] /\ Content(SamplesOf(r, step))
  BY <1>1, <1>2, <1>3 DEF PackingOne
<1>9. \A i \in DOMAIN st : st[i].items # {} /\ st[i].items \in SUBSET (1..kept)
  <2>1. \A i \in DOMAIN st : st[i].items # {}  BY <1>3, NoneEmptyHolds DEF NoneEmpty
  <2>2. PICK k \in Nat \ {0} : st \in [1..k -> Bins]  BY DEF IInv, HeapInv, Good
  <2> QED  BY <2>1, <2>2 DEF Bins
<1>10. \A x : x \in SamplesOf(r, step) <=> \E i \in DOMAIN st : x \in st[i].items
  BY <1>3, <1>7, <1>8, <1>9 DEF Content
<1>11. Divides(st, SamplesOf(r, step), FALSE)  BY <1>9, <1>10 DEF Divides
<1>12. /\ batches'[r] = batches[r] \o [i \in DOMAIN st |-> st[i].items]
       /\ \A q \in Rank : q # r => batches'[q] = batches[q]
       /\ DOMAIN batches' = Rank
  BY <1>3, <1>5
<1>13. count[r] \in [1..Steps -> 1..perStep]  BY <1>1 DEF Agreed
<1>14. Packed(r)' /\ Scheduled(r, step)'
  BY <1>1, <1>2, <1>3, <1>5, <1>8, <1>10, <1>12, <1>13, Appended
<1>15. \A q \in Rank : Packed(q)'
  <2> SUFFICES ASSUME NEW q \in Rank, q # r  PROVE Packed(q)'
    BY <1>14
  <2> QED  BY <1>1, <1>2, <1>5, <1>12, OthersPacked
<1>16. step = Steps => EachRowPacked(r, batches'[r])
  <2> SUFFICES ASSUME step = Steps  PROVE EachRowPacked(r, batches'[r])
    OBVIOUS
  <2>1. (r - 1) * Steps \in Nat /\ turn = (r - 1) * Steps + Steps
    BY <1>1, <1>2, OnePacks DEF Packing
  <2>2. ASSUME NEW s \in 1..Steps
        PROVE  Scheduled(r, s)'
    <3>1. (r - 1) * Steps + s < turn'  BY <1>2, <1>6, <2>1
    <3> QED  BY <1>4, <1>14, <3>1 DEF Packed
  <2> QED  BY <1>1, <1>2, <1>14, <2>2, EachRow
<1>17. phase' = IF r = job.dp /\ step = Steps THEN "done" ELSE "pack"  BY <1>3, <1>11, <1>16
<1>18. phase' = "done" => turn' = job.dp * Steps + 1
  <2> SUFFICES ASSUME r = job.dp, step = Steps  PROVE turn' = job.dp * Steps + 1
    BY <1>17
  <2>1. turn = (job.dp - 1) * Steps + Steps  BY <1>2 DEF Packing
  <2>2. (job.dp - 1) * Steps + Steps = job.dp * Steps  BY <1>6
  <2> QED  BY <1>2, <2>1, <2>2
<1>19. batches' \in [Rank -> Seq(SUBSET (1..kept))]
  <2>1. ASSUME NEW q \in Rank
        PROVE  batches'[q] \in Seq(SUBSET (1..kept))
    <3>1. CASE q # r  BY <1>5, <1>12, <3>1
    <3>2. CASE q = r
      <4>1. batches'[r] \in Seq(SUBSET parts[r])  BY <1>2, <1>14 DEF Packed
      <4>2. SUBSET parts[r] \subseteq SUBSET (1..kept)  BY <1>7
      <4> QED  BY <3>2, <4>1, <4>2, SeqMonotonic
    <3> QED  BY <3>1, <3>2
  <2>2. batches' = [q \in Rank |-> batches'[q]]  BY <1>3, <1>5
  <2> QED  BY <2>1, <2>2
<1>20. Progress'
  <2>1. phase' \in {"pack", "done"} /\ turn' \in Nat  BY <1>2, <1>5, <1>17
  <2> QED  BY <1>1, <1>2, <1>4, <1>5, <1>15, <1>18, <1>19, <2>1 DEF Progress
<1>21. Agreed'  BY <1>1, <1>2, <1>4 DEF Agreed
<1>22. Parted'  BY <1>1, <1>2, <1>4 DEF Parted
<1>23. Numbers' /\ Divisible'  BY <1>2, SameNumbers
<1>24. Apart' /\ PackingOne'  BY <1>2, EmptyHeapS
<1>25. Sound' /\ Fresh' /\ Splitting' /\ Sliced'
  BY <1>1, <1>2, <1>17 DEF Sound, Fresh, Splitting, Sliced
<1> QED  BY <1>20, <1>21, <1>22, <1>23, <1>24, <1>25 DEF SInv

LEMMA StutterS ==
    ASSUME IInv, SInv, UNCHANGED vars
    PROVE  SInv'
<1>1. /\ job' = job /\ length' = length /\ kept' = kept /\ perStep' = perStep
      /\ parts' = parts /\ count' = count /\ batches' = batches /\ turn' = turn
      /\ heap' = heap /\ phase' = phase
  BY DEF vars
<1>2. /\ Sound' /\ Numbers' /\ Divisible' /\ Fresh' /\ Parted'
      /\ Agreed' /\ Progress' /\ Sliced'
  BY <1>1, SameLate
<1>3. /\ Rank' = Rank /\ Steps' = Steps
      /\ \A q, s : SamplesOf(q, s)' = SamplesOf(q, s)
  BY <1>1, SameParts
<1>4. Apart'  BY <1>1 DEF SInv, Apart
<1>5. Splitting'  BY <1>1 DEF SInv, Splitting, Content, EqualSized
<1>6. PackingOne
  BY DEF SInv
<1>7. PackingOne'  BY <1>1, <1>3, <1>6 DEF PackingOne, Packing, Content
<1> QED  BY <1>2, <1>4, <1>5, <1>7 DEF SInv

LEMMA NextS == IInv /\ SInv /\ [Next]_vars => SInv'
<1> SUFFICES ASSUME IInv, SInv, [Next]_vars  PROVE SInv'
  OBVIOUS
<1>1. CASE Trim  BY <1>1, TrimS
<1>2. CASE Split  BY <1>2, SplitS
<1>3. CASE Merge  BY <1>3, MergeS
<1>4. CASE SplitEnd  BY <1>4, SplitEndS
<1>5. CASE Iterate  BY <1>5, IterateS
<1>6. ASSUME phase = "pack", NEW r \in Rank, NEW step \in 1..Steps,
             Pack(r, step) \/ PackEnd(r, step)
      PROVE  SInv'
  BY <1>6, PackS, PackEndS
<1>7. CASE UNCHANGED vars  BY <1>7, StutterS
<1> QED  BY <1>1, <1>2, <1>3, <1>4, <1>5, <1>6, <1>7 DEF Next

LEMMA ScheduleInvariance == Spec => [](IInv /\ SInv)
<1>1. Init => IInv /\ SInv  BY InitInv, InitS
<1>2. IInv /\ SInv /\ [Next]_vars => (IInv /\ SInv)'  BY NextInv, NextS
<1> QED  BY <1>1, <1>2, PTL DEF Spec

----------------------------------------------------------------------------
\* No assertion of the division or of the packing fails, for any rollout, any number of
\* ranks and any token limit: the ranks have whole steps, first fit needs no more batches
\* than a step has rows, and the fullest rank has as many rows as the others.
THEOREM NoAssertionFails == Spec => []AssertionsHold
<1>1. SInv => AssertionsHold  BY DEF SInv, Sound, AssertionsHold
<1> QED  BY <1>1, ScheduleInvariance, PTL

\* The state has its type, when fixed micro-batches fit: each step has at least one.
THEOREM TypeCorrect ==
    ASSUME FixedSizes
    PROVE  Spec => []TypeOK
<1>1. FixedSizes  OBVIOUS
<1>2. FixedSizes /\ IInv /\ SInv => TypeOK
  <2> SUFFICES ASSUME FixedSizes, IInv, SInv  PROVE TypeOK
    OBVIOUS
  <2>1. JobInv /\ HeapInv /\ Numbers /\ Sound /\ Fresh /\ Agreed /\ Progress /\ Sliced
    BY DEF IInv, SInv
  <2>2. job.tokens \in Nat  BY <2>1, JobsAssumption DEF JobInv
  <2>3. \A st \in heap : \A i \in DOMAIN st : st[i].sum \in Nat /\ st[i].items \subseteq 1..kept
    <3>1. PICK k \in Nat \ {0} : \A st \in heap : st \in [1..k -> Bins]
      BY <2>1 DEF HeapInv, Good
    <3> QED  BY <3>1 DEF Bins
  <2>4. /\ count \in [Rank -> Seq(Nat \ {0})] /\ batches \in [Rank -> Seq(SUBSET (1..kept))]
        /\ turn \in Nat
    <3>1. CASE phase \in {"collected", "trimmed", "split", "received", "raised"}
      <4>1. /\ turn = 1 /\ count = [r \in Rank |-> <<>>]
            /\ batches = [r \in Rank |-> <<>>]
        BY <2>1, <3>1 DEF Fresh
      <4>2. <<>> \in Seq(Nat \ {0}) /\ <<>> \in Seq(SUBSET (1..kept))  BY EmptySeq
      <4> QED  BY <4>1, <4>2
    <3>2. CASE phase \in {"pack", "done"} /\ job.tokens > 0
      <4>1. /\ turn \in Nat /\ batches \in [Rank -> Seq(SUBSET (1..kept))]
            /\ count = [r \in Rank |-> count[r]]
        BY <2>1, <3>2 DEF Progress
      <4>2. perStep \in Nat /\ Steps \in Nat
        <5>1. Parted  BY DEF SInv
        <5> QED  BY <2>1, <3>2, <5>1, StepsFacts
      <4>3. ASSUME NEW r \in Rank
            PROVE  count[r] \in Seq(Nat \ {0})
        <5>1. count[r] \in [1..Steps -> 1..perStep]  BY <2>1, <3>2 DEF Agreed
        <5>2. 1..perStep \subseteq Nat \ {0}  BY <4>2
        <5>3. count[r] \in [1..Steps -> Nat \ {0}]  BY <5>1, <5>2
        <5> QED  BY <4>2, <5>3, SeqDef
      <4> QED  BY <4>1, <4>3
    <3>3. CASE phase = "done" /\ job.tokens = 0
      <4> DEFINE e == perStep \div job.microBatch
      <4>1. /\ turn = 1
            /\ count = [r \in Rank |-> [i \in 1..Steps |-> e]]
            /\ batches = [r \in Rank |-> [b \in 1..(Steps * e) |->
                   SamplesAt(r, ((b - 1) * job.microBatch + 1)..(b * job.microBatch))]]
        BY <2>1, <3>3 DEF Sliced
      <4>2. e \in Nat \ {0}
        <5>1. PICK x \in Nat \ {0} : perStep = x * job.microBatch
          BY <3>3 DEF SInv, Divisible
        <5>2. job.microBatch \in Nat \ {0}  BY <2>1, JobsAssumption DEF JobInv
        <5> QED  BY <5>1, <5>2, QuotientExact
      <4>3. Steps \in Nat
        <5>1. Parted  BY DEF SInv
        <5> QED  BY <2>1, <3>3, <5>1, StepsFacts
      <4> HIDE DEF e
      <4>4. ASSUME NEW r \in Rank
            PROVE  /\ [i \in 1..Steps |-> e] \in Seq(Nat \ {0})
                   /\ [b \in 1..(Steps * e) |->
                        SamplesAt(r, ((b - 1) * job.microBatch + 1)..(b * job.microBatch))]
                        \in Seq(SUBSET (1..kept))
        <5>1. parts[r] \in SUBSET (1..kept)  BY <2>1 DEF JobInv
        <5>2. \A rows : SamplesAt(r, rows) \in SUBSET (1..kept)  BY <5>1 DEF SamplesAt
        <5>3. Steps * e \in Nat  BY <4>2, <4>3
        <5>4. [i \in 1..Steps |-> e] \in [1..Steps -> Nat \ {0}]  BY <4>2
        <5>5. [b \in 1..(Steps * e) |->
                 SamplesAt(r, ((b - 1) * job.microBatch + 1)..(b * job.microBatch))]
                   \in [1..(Steps * e) -> SUBSET (1..kept)]
          BY <5>2
        <5>6. [i \in 1..Steps |-> e] \in Seq(Nat \ {0})  BY ONLY <4>3, <5>4, SeqDef
        <5>7. [b \in 1..(Steps * e) |->
                 SamplesAt(r, ((b - 1) * job.microBatch + 1)..(b * job.microBatch))]
                   \in Seq(SUBSET (1..kept))
          BY ONLY <5>3, <5>5, SeqDef
        <5> QED  BY <5>6, <5>7
      <4> QED  BY <4>1, <4>4
    <3>4. phase = "pack" => job.tokens > 0  BY <2>1 DEF Progress
    <3> QED  BY <2>1, <2>2, <3>1, <3>2, <3>3, <3>4 DEF Sound
  <2> QED  BY <2>1, <2>3, <2>4 DEF TypeOK, JobInv, Numbers, Sound
<1> QED  BY <1>1, <1>2, ScheduleInvariance, PTL

----------------------------------------------------------------------------
\* Equal numbers of micro-batches add up to a product.
LEMMA ConstantTotal ==
    ASSUME NEW n \in Nat, NEW e \in Nat, NEW m \in Nat, m <= n
    PROVE  Total([i \in 1..n |-> e], 1..m) = m * e
<1> DEFINE c == [i \in 1..n |-> e]
           P == {l \in Nat : l <= n => Total(c, 1..l) = l * e}
<1>1. \A i \in 1..n : c[i] = e  OBVIOUS
<1> HIDE DEF c
<1>2. 0 \in P
  <2>1. \A x \in {} : c[x] \in Nat  OBVIOUS
  <2>2. Total(c, {}) = 0  BY <2>1, FS_EmptySet, TotalFacts
  <2>3. 1..0 = {}  OBVIOUS
  <2> QED  BY <2>2, <2>3
<1>3. ASSUME NEW l \in P
      PROVE  l + 1 \in P
  <2> SUFFICES ASSUME l + 1 <= n  PROVE Total(c, 1..(l + 1)) = (l + 1) * e
    OBVIOUS
  <2>1. l \in Nat /\ Total(c, 1..l) = l * e  OBVIOUS
  <2>2. l + 1 \in 1..n /\ c[l + 1] = e  BY <1>1, <2>1
  <2>3. \A i \in 1..(l + 1) : c[i] \in Nat  BY <1>1, <2>1
  <2>4. Total(c, 1..(l + 1)) = Total(c, 1..l) + c[l + 1]  BY <2>1, <2>3, PrefixTotal
  <2> QED  BY <2>1, <2>2, <2>4
<1>4. P = Nat
  <2>1. P \in SUBSET Nat  OBVIOUS
  <2> HIDE DEF P
  <2> QED  BY <1>2, <1>3, <2>1, Induction
<1>5. m \in P  BY <1>4
<1> QED  BY <1>5 DEF c

\* The rows of a step are those of its e slices of w rows, and no row is in two slices.
Slicing(e, w, s, a, z) ==
    /\ \A v \in Nat \ {0} :
          v \in ((s - 1) * (e * w) + 1)..(s * (e * w))
            <=> \E b \in (a + 1)..z : v \in ((b - 1) * w + 1)..(b * w)
    /\ \A b, d \in Nat \ {0} : \A v :
          v \in ((b - 1) * w + 1)..(b * w) /\ v \in ((d - 1) * w + 1)..(d * w) => b = d

LEMMA Slices ==
    ASSUME NEW e \in Nat \ {0}, NEW w \in Nat \ {0}, NEW s \in Nat \ {0},
           NEW a \in Nat, NEW z \in Nat, a = (s - 1) * e, z = a + e
    PROVE  Slicing(e, w, s, a, z)
<1>2. (s - 1) * (e * w) = a * w /\ s * (e * w) = z * w
  <2>1. (s - 1) * (e * w) = ((s - 1) * e) * w  OBVIOUS
  <2>2. s * (e * w) = (s * e) * w  OBVIOUS
  <2>3. s * e = (s - 1) * e + e  OBVIOUS
  <2> QED  BY <2>1, <2>2, <2>3
<1>3. ASSUME NEW v \in Nat \ {0}, v \in (a * w + 1)..(z * w)
      PROVE  \E b \in (a + 1)..z : v \in ((b - 1) * w + 1)..(b * w)
  <2>1. PICK n \in Nat : n = v - 1  OBVIOUS
  <2>2. PICK q \in Nat : q * w <= n /\ n < q * w + w  BY <2>1, Quotient
  <2>3. (q + 1) * w = q * w + w /\ (q + 1) - 1 = q  BY <2>2
  <2>4. PICK x \in Nat, y \in Nat, u \in Nat : x = a * w /\ y = z * w /\ u = q * w  BY <2>2
  <2>5. a * w < (q + 1) * w  BY <1>3, <2>1, <2>2, <2>3, <2>4
  <2>6. q * w < z * w  BY <1>3, <2>1, <2>2, <2>3, <2>4
  <2>7. a < q + 1 /\ q < z  BY <2>2, <2>5, <2>6, ProductOrder
  <2>8. q + 1 \in (a + 1)..z  BY <2>7
  <2>9. v \in (((q + 1) - 1) * w + 1)..((q + 1) * w)  BY <2>1, <2>2, <2>3, <2>4
  <2> QED  BY <2>8, <2>9
<1>4. ASSUME NEW v \in Nat \ {0}, NEW b \in (a + 1)..z, v \in ((b - 1) * w + 1)..(b * w)
      PROVE  v \in (a * w + 1)..(z * w)
  <2>1. b \in Int /\ b - 1 \in Int /\ ~(b - 1 < a) /\ ~(z < b)  OBVIOUS
  <2>2. ~((b - 1) * w < a * w)  BY <2>1, ProductOrder
  <2>3. ~(z * w < b * w)  BY <2>1, ProductOrder
  <2>4. PICK x \in Int, y \in Int, u \in Int, t \in Int :
            x = a * w /\ y = z * w /\ u = (b - 1) * w /\ t = b * w
    BY <2>1
  <2> QED  BY <1>4, <2>2, <2>3, <2>4
<1>5. ASSUME NEW b \in Nat \ {0}, NEW d \in Nat \ {0}, NEW v,
             v \in ((b - 1) * w + 1)..(b * w), v \in ((d - 1) * w + 1)..(d * w)
      PROVE  b = d
  <2>1. PICK x \in Int, y \in Int, u \in Int, t \in Int :
            x = (b - 1) * w /\ y = b * w /\ u = (d - 1) * w /\ t = d * w
    OBVIOUS
  <2>2. (b - 1) * w < d * w /\ (d - 1) * w < b * w  BY <1>5, <2>1
  <2>3. b - 1 < d /\ d - 1 < b  BY <2>2, ProductOrder
  <2> QED  BY <2>3
<1> QED  BY <1>2, <1>3, <1>4, <1>5 DEF Slicing

\* With a fixed size the slices of a step hold its samples.
LEMMA SlicesScheduled ==
    ASSUME FixedSizes, IInv, SInv, phase = "done", job.tokens = 0,
           NEW r \in Rank, NEW step \in 1..Steps
    PROVE  Scheduled(r, step) /\ \A q \in Rank : count[r] = count[q]
<1>1. JobInv /\ Numbers /\ Parted /\ Divisible  BY DEF IInv, SInv
<1>2. PICK w \in Nat \ {0} : w = job.microBatch  BY <1>1, JobsAssumption DEF JobInv
<1>3. PICK e \in Nat \ {0} : perStep = e * w  BY <1>1, <1>2 DEF Divisible
<1>4. perStep \div w = e  BY <1>2, <1>3, QuotientExact
<1>5. PICK n \in Nat : n = Steps  BY <1>1, StepsFacts
<1>6. /\ count = [q \in Rank |-> [i \in 1..n |-> e]]
      /\ batches = [q \in Rank |-> [b \in 1..(n * e) |->
             SamplesAt(q, ((b - 1) * w + 1)..(b * w))]]
  BY <1>2, <1>4, <1>5 DEF SInv, Sliced
<1>7. PICK c : c = [i \in 1..n |-> e]  OBVIOUS
<1>8. /\ \A q \in Rank : count[q] = c
      /\ DOMAIN batches[r] = 1..(n * e)
      /\ \A b \in 1..(n * e) : batches[r][b] = SamplesAt(r, ((b - 1) * w + 1)..(b * w))
  BY <1>6, <1>7
<1>9. step \in 1..n /\ step \in Nat \ {0}  BY <1>5
<1>10. Total(c, 1..(step - 1)) = (step - 1) * e
  <2>1. step - 1 \in Nat /\ step - 1 <= n  BY <1>9
  <2> QED  BY <1>7, <2>1, ConstantTotal
<1>11. c[step] = e  BY <1>7, <1>9
<1>12. PICK a \in Nat, z \in Nat : a = (step - 1) * e /\ z = a + e
  <2>1. step - 1 \in Nat  BY <1>9
  <2> QED  BY <2>1
<1>13. Mine(r, step) = (a + 1)..z  BY <1>8, <1>10, <1>11, <1>12 DEF Mine
<1>14. \A b \in (a + 1)..z : b \in 1..(n * e) /\ b \in Nat \ {0}
  <2>1. z = step * e  BY <1>9, <1>12
  <2>2. ~(n * e < step * e)  BY <1>9, ProductOrder
  <2>3. n * e \in Nat  OBVIOUS
  <2>4. z <= n * e  BY <1>12, <2>1, <2>2, <2>3
  <2> QED  BY <1>12, <2>3, <2>4
<1>15. /\ \A v \in Nat \ {0} :
              v \in ((step - 1) * (e * w) + 1)..(step * (e * w))
                <=> \E b \in (a + 1)..z : v \in ((b - 1) * w + 1)..(b * w)
       /\ \A b, d \in Nat \ {0} : \A v :
              v \in ((b - 1) * w + 1)..(b * w) /\ v \in ((d - 1) * w + 1)..(d * w) => b = d
  <2>1. Slicing(e, w, step, a, z)  BY <1>9, <1>12, Slices
  <2> QED  BY <2>1 DEF Slicing
<1>16. RowsOf(step) = ((step - 1) * (e * w) + 1)..(step * (e * w))  BY <1>3 DEF RowsOf
<1>17. \A x \in parts[r] : Row(r, x) \in Nat \ {0}
  <2>1. kept \in Nat /\ parts[r] \in SUBSET (1..kept)  BY <1>1, JobFacts DEF JobInv
  <2>2. Cardinality(parts[r]) \in Nat  BY <2>1, FiniteItems
  <2>3. \A x \in parts[r] : Row(r, x) \in 1..Cardinality(parts[r])  BY <1>1, RowFacts
  <2> QED  BY <2>2, <2>3
<1> DEFINE slice(b) == ((b - 1) * w + 1)..(b * w)
<1>18. ASSUME NEW b \in (a + 1)..z
       PROVE  \A x : x \in batches[r][b] <=> x \in parts[r] /\ Row(r, x) \in slice(b)
  <2>1. batches[r][b] = SamplesAt(r, ((b - 1) * w + 1)..(b * w))  BY <1>8, <1>14
  <2> QED  BY <2>1 DEF SamplesAt
<1>19. \A x : x \in SamplesOf(r, step)
                <=> x \in parts[r] /\ \E b \in (a + 1)..z : Row(r, x) \in slice(b)
  BY <1>15, <1>16, <1>17 DEF SamplesOf, SamplesAt
<1>20. \A b, d \in (a + 1)..z : \A v : v \in slice(b) /\ v \in slice(d) => b = d
  BY <1>14, <1>15
<1> HIDE DEF slice
<1>21. UNION {batches[r][b] : b \in (a + 1)..z} = SamplesOf(r, step)  BY <1>18, <1>19
<1>22. \A b, d \in (a + 1)..z : b # d => batches[r][b] \cap batches[r][d] = {}
  BY <1>18, <1>20
<1>23. (a + 1)..z \subseteq DOMAIN batches[r]  BY <1>8, <1>14
<1> QED  BY <1>8, <1>13, <1>21, <1>22, <1>23 DEF Scheduled

\* When the ranks start to train they agree on the number of micro-batches of each step,
\* the micro-batches of a step hold its rows once each, and every sample that was kept is
\* at one rank: for any rollout, as long as fixed micro-batches fit.
THEOREM ScheduleIsComplete ==
    ASSUME FixedSizes
    PROVE  Spec => []ScheduleComplete
<1>1. FixedSizes  OBVIOUS
<1>2. FixedSizes /\ IInv /\ SInv => ScheduleComplete
  <2> SUFFICES ASSUME FixedSizes, IInv, SInv, phase = "done"
               PROVE  ScheduleComplete
    BY DEF ScheduleComplete
  <2>1. JobInv /\ Numbers /\ Parted /\ Agreed /\ Progress  BY DEF IInv, SInv
  <2>2. job.tokens \in Nat  BY <2>1, JobsAssumption DEF JobInv
  <2>3. \A r \in Rank : parts[r] \in SUBSET (1..kept)  BY <2>1 DEF JobInv
  <2>4. ASSUME NEW r \in Rank, NEW step \in 1..Steps
        PROVE  Scheduled(r, step) /\ \A q \in Rank : count[r] = count[q]
    <3>1. CASE job.tokens > 0
      <4>1. turn = job.dp * Steps + 1 /\ Packed(r)  BY <2>1, <3>1 DEF Progress
      <4>2. (r - 1) * Steps + step < turn
        <5>1. PICK n \in Nat, d \in Nat : n = Steps /\ d = job.dp
          BY <2>1, StepsFacts, JobFacts
        <5>2. r \in 1..d  BY <5>1 DEF Rank
        <5>3. r - 1 \in Int /\ ~(d - 1 < r - 1)  BY <5>2
        <5>4. ~((d - 1) * n < (r - 1) * n)
          <6>1. CASE n = 0  BY <2>4, <5>1, <6>1
          <6>2. CASE n # 0  BY <5>3, <6>2, ProductOrder
          <6> QED  BY <6>1, <6>2
        <5>5. PICK x \in Int, y \in Int : x = (d - 1) * n /\ y = (r - 1) * n  BY <5>2
        <5>6. d * n = x + n  BY <5>5
        <5>7. y <= x /\ step <= n  BY <5>1, <5>4, <5>5
        <5>8. y + step < x + n + 1  BY <5>7
        <5> QED  BY <4>1, <5>1, <5>5, <5>6, <5>8
      <4>3. Scheduled(r, step)  BY <4>1, <4>2 DEF Packed
      <4> QED  BY <2>1, <3>1, <4>3 DEF Agreed
    <3>2. CASE job.tokens = 0  BY <3>2, SlicesScheduled
    <3> QED  BY <2>2, <3>1, <3>2
  <2>5. 1 \in 1..Steps
    <3>1. Steps \in Nat \ {0}  BY <2>1, StepsFacts
    <3> QED  BY <3>1
  <2>6. \A r, q \in Rank : count[r] = count[q]  BY <2>4, <2>5
  <2>7. \A r, q \in Rank : Cardinality(parts[r]) = Cardinality(parts[q])
    BY <2>1, StepsFacts
  <2>8. \A r, q \in Rank : r # q => parts[r] \cap parts[q] = {}  BY <2>1 DEF Parted
  <2>9. UNION {parts[r] : r \in Rank} = 1..kept  BY <2>1, <2>3 DEF Parted
  <2>10. ASSUME NEW r \in Rank, NEW step \in 1..Steps
         PROVE  LET before == FoldFunctionOnSet(+, 0, count[r], 1..(step - 1))
                    mine == (before + 1)..(before + count[r][step])
                IN  /\ mine \subseteq DOMAIN batches[r]
                    /\ UNION {batches[r][b] : b \in mine} = SamplesOf(r, step)
                    /\ \A b, c \in mine : b # c => batches[r][b] \cap batches[r][c] = {}
    BY <2>4 DEF Scheduled, Mine, Total
  <2> QED  BY <2>6, <2>7, <2>8, <2>9, <2>10 DEF ScheduleComplete
<1> QED  BY <1>1, <1>2, ScheduleInvariance, PTL

----------------------------------------------------------------------------
\* With one data parallel rank a sample is trained with its own masks, although
\* process_rollout_data does not re-index them: its part is the whole rollout, in order.
\* It takes a second rank for the masks to be those of another sample.
THEOREM RowsAlignedAtOneRank ==
    ASSUME \A j \in Jobs : j.dp = 1
    PROVE  Spec => []RowsAligned
<1>1. \A j \in Jobs : j.dp = 1  OBVIOUS
<1>2. (\A j \in Jobs : j.dp = 1) /\ IInv /\ SInv => RowsAligned
  <2> SUFFICES ASSUME \A j \in Jobs : j.dp = 1, IInv, SInv, phase = "done",
                      NEW r \in Rank, NEW s \in parts[r]
               PROVE  Row(r, s) = s
    BY DEF RowsAligned, MasksOf
  <2>1. job.dp = 1 /\ JobInv /\ Parted  BY DEF IInv, SInv, JobInv
  <2>2. \A q \in Rank : q = r
    <3>1. \A q \in 1..1 : q = 1  OBVIOUS
    <3> QED  BY <2>1, <3>1 DEF Rank
  <2>3. kept \in Nat /\ parts[r] \in SUBSET (1..kept)  BY <2>1, JobFacts DEF JobInv
  <2>4. \A x \in 1..kept : x \in parts[r]  BY <2>1, <2>2 DEF Parted
  <2>5. parts[r] = 1..kept /\ s \in 1..kept  BY <2>3, <2>4
  <2>6. {q \in parts[r] : q <= s} = 1..s  BY <2>3, <2>5
  <2>7. s \in Nat /\ Cardinality(1..s) = s
    <3>1. 1 \in Int /\ s \in Int /\ s \in Nat /\ s # 0  BY <2>3, <2>5
    <3>2. Cardinality(1..s) = IF 1 > s THEN 0 ELSE s - 1 + 1  BY <3>1, FS_Interval
    <3> QED  BY <3>1, <3>2
  <2> QED  BY <2>6, <2>7 DEF Row
<1> QED  BY <1>1, <1>2, ScheduleInvariance, PTL

----------------------------------------------------------------------------
\* No batch of first fit holds more than the limit, or than the longest sample.
Most == IF job.tokens < job.longest THEN job.longest ELSE job.tokens

\* A set knows the sum of its items.
Summed == \A st \in heap : \A i \in DOMAIN st : st[i].sum = Total(length, st[i].items)

\* The samples of a step are no more than its micro-batches could hold, but for the
\* rounding of a virtual pipeline.
Roomy ==
    phase \in {"pack", "done"} /\ job.tokens > 0 =>
        \A r \in Rank : \A step \in 1..Steps :
            Total(length, SamplesOf(r, step)) <= (job.vpp * Most) * count[r][step]

Limit == job.vpp * Most + job.longest

Limited ==
    phase \in {"pack", "done"} /\ job.tokens > 0 =>
        \A r \in Rank : \A b \in DOMAIN batches[r] : Total(length, batches[r][b]) <= Limit

OInv == Summed /\ Roomy /\ Limited

\* First fit: a sample more adds its length to what the batches hold.
LEMMA FillTotal ==
    ASSUME job.tokens \in Nat, NEW m \in Nat, job.tokens <= m,
           NEW s, length[s] \in 0..m, NEW filled \in Seq(0..m)
    PROVE  /\ Fill(s, filled) \in Seq(0..m)
           /\ Total(filled, 1..Len(filled)) \in Nat
           /\ Total(Fill(s, filled), 1..Len(Fill(s, filled)))
                = length[s] + Total(filled, 1..Len(filled))
<1> DEFINE fits == {i \in DOMAIN filled : filled[i] + length[s] <= job.tokens}
<1>1. PICK n \in Nat, v \in 0..m : n = Len(filled) /\ v = length[s]  BY LenProperties
<1>2. DOMAIN filled = 1..n /\ \A i \in 1..n : filled[i] \in 0..m
  BY <1>1, LenProperties, ElementOfSeq
<1>3. IsFiniteSet(1..n) /\ \A i \in 1..n : filled[i] \in Nat
  <2>1. IsFiniteSet(1..n)  BY FS_Interval
  <2>2. \A i \in 1..n : filled[i] \in Nat  BY <1>2
  <2> QED  BY <2>1, <2>2
<1>4. Total(filled, 1..n) \in Nat  BY <1>3, TotalFacts
<1>5. CASE fits = {}
  <2> DEFINE F == Append(filled, v)
  <2>1. Fill(s, filled) = F  BY <1>1, <1>5 DEF Fill
  <2>2. F \in Seq(0..m) /\ Len(F) = n + 1 /\ F[n + 1] = v /\ \A i \in 1..n : F[i] = filled[i]
    BY <1>1
  <2> HIDE DEF F
  <2>3. \A i \in 1..(n + 1) : F[i] \in Nat  BY <1>3, <2>2
  <2>4. Total(F, 1..(n + 1)) = Total(F, 1..n) + F[n + 1]  BY <2>3, PrefixTotal
  <2>5. Total(F, 1..n) = Total(filled, 1..n)  BY <1>3, <2>2, TotalSame
  <2>6. Total(F, 1..(n + 1)) = v + Total(filled, 1..n)  BY <1>4, <2>2, <2>4, <2>5
  <2> QED  BY <1>1, <1>4, <2>1, <2>2, <2>6
<1>6. CASE fits # {}
  <2> DEFINE l == Min(fits)
  <2>1. Fill(s, filled) = [filled EXCEPT ![l] = @ + v]  BY <1>1, <1>6 DEF Fill
  <2>2. l \in fits
    <3>1. fits \in SUBSET Nat  BY <1>2
    <3>2. \E x \in fits : \A y \in fits : x <= y  BY <1>6, <3>1, Least
    <3> HIDE DEF fits
    <3> QED  BY <3>2 DEF Min
  <2>3. l \in 1..n /\ filled[l] + v <= job.tokens  BY <1>1, <1>2, <2>2
  <2> HIDE DEF l
  <2>4. PICK w \in Nat : w = filled[l]  BY <1>3, <2>3
  <2>5. w + v \in 0..m  BY <2>3, <2>4
  <2> DEFINE F == [filled EXCEPT ![l] = w + v]
  <2>6. Fill(s, filled) = F  BY <2>1, <2>4
  <2>7. F \in Seq(0..m) /\ Len(F) = n  BY <1>1, <2>3, <2>5, ExceptSeq
  <2>8. F[l] = w + v /\ \A i \in (1..n) \ {l} : F[i] = filled[i]  BY <1>2, <2>3
  <2> HIDE DEF F
  <2>9. IsFiniteSet((1..n) \ {l})  BY <1>3, FS_RemoveElement
  <2>10. Total(F, (1..n) \ {l}) = Total(filled, (1..n) \ {l})
    BY <1>3, <2>8, <2>9, TotalSame
  <2>11. \A i \in 1..n : F[i] \in Nat
    <3> SUFFICES ASSUME NEW i \in 1..n  PROVE F[i] \in Nat
      OBVIOUS
    <3>1. CASE i = l
      <4>1. w + v \in Nat  BY <2>4
      <4> QED  BY <2>8, <3>1, <4>1
    <3>2. CASE i # l  BY <1>3, <2>8, <3>2
    <3> QED  BY <3>1, <3>2
  <2>12. /\ Total(F, 1..n) = F[l] + Total(F, (1..n) \ {l})
         /\ Total(filled, 1..n) = filled[l] + Total(filled, (1..n) \ {l})
    BY <1>3, <2>3, <2>11, TotalFacts
  <2>13. PICK d \in Nat : d = Total(filled, (1..n) \ {l})  BY <1>3, <2>9, TotalFacts
  <2>14. Total(F, 1..n) = v + Total(filled, 1..n)
    BY <2>4, <2>8, <2>10, <2>12, <2>13
  <2> QED  BY <1>1, <1>4, <2>6, <2>7, <2>14
<1> QED  BY <1>5, <1>6

\* First fit takes enough batches for its samples.
LEMMA FirstFitTotal ==
    ASSUME kept \in Nat, job.tokens \in Nat, NEW m \in Nat, job.tokens <= m,
           \A s \in 1..kept : length[s] \in 0..m, NEW S \in SUBSET (1..kept)
    PROVE  Len(Batches(S)) \in Nat /\ Total(length, S) <= m * Len(Batches(S))
<1>1. \A s \in 1..kept : length[s] \in Nat  OBVIOUS
<1>2. PICK h : Fills(h, S) /\ Batches(S) = h[S]  BY <1>1, BatchesDef
<1>3. IsFiniteSet(S)  BY FiniteItems
<1> DEFINE Holds(T) == h[T] \in Seq(0..m) /\ Total(h[T], 1..Len(h[T])) = Total(length, T)
           P == {n \in Nat : \A T \in SUBSET S : Cardinality(T) <= n => Holds(T)}
<1>4. ASSUME NEW T \in SUBSET S, T = {}
      PROVE  Holds(T)
  <2>1. h[T] = <<>>  BY <1>2, <1>4 DEF Fills
  <2>2. <<>> \in Seq(0..m) /\ Len(<<>>) = 0 /\ 1..0 = {}  BY EmptySeq
  <2>3. \A f : Total(f, {}) = 0
    <3> SUFFICES ASSUME NEW f  PROVE Total(f, {}) = 0
      OBVIOUS
    <3>1. \A x \in {} : f[x] \in Nat  OBVIOUS
    <3> QED  BY <3>1, FS_EmptySet, TotalFacts
  <2> QED  BY <1>4, <2>1, <2>2, <2>3
<1>5. 0 \in P
  <2>1. ASSUME NEW T \in SUBSET S, Cardinality(T) <= 0
        PROVE  T = {}
    <3>1. Cardinality(T) \in Nat /\ (Cardinality(T) = 0 <=> T = {})  BY <1>3, Smaller
    <3> QED  BY <2>1, <3>1
  <2> HIDE DEF Holds
  <2> QED  BY <1>4, <2>1
<1>6. ASSUME NEW n \in P
      PROVE  n + 1 \in P
  <2>1. ASSUME NEW T \in SUBSET S, Cardinality(T) <= n + 1, T # {}
        PROVE  Holds(T)
    <3>1. PICK x \in T : h[T] = Fill(x, h[T \ {x}])
      <4>1. T \in SUBSET (0..kept)  OBVIOUS
      <4>2. Max(T) \in T  BY <2>1, <4>1, Greatest
      <4> QED  BY <1>2, <2>1, <4>2 DEF Fills
    <3>2. /\ n \in Nat /\ Cardinality(T) \in Nat
          /\ Cardinality(T \ {x}) = Cardinality(T) - 1
      BY <1>3, Smaller
    <3>3. Cardinality(T \ {x}) <= n  BY <2>1, <3>2
    <3>4. Holds(T \ {x})  BY <3>3
    <3>5. length[x] \in 0..m  OBVIOUS
    <3>6. /\ h[T] \in Seq(0..m)
          /\ Total(h[T], 1..Len(h[T])) = length[x] + Total(length, T \ {x})
      <4>1. PICK e \in Seq(0..m) :
                e = h[T \ {x}] /\ Total(e, 1..Len(e)) = Total(length, T \ {x})
        BY <3>4
      <4>2. /\ Fill(x, e) \in Seq(0..m)
            /\ Total(Fill(x, e), 1..Len(Fill(x, e))) = length[x] + Total(e, 1..Len(e))
        BY <3>5, FillTotal
      <4>3. h[T] = Fill(x, e)  BY <3>1, <4>1
      <4> QED  BY <4>1, <4>2, <4>3
    <3>7. IsFiniteSet(T) /\ \A y \in T : length[y] \in Nat
      <4>1. IsFiniteSet(T)  BY <1>3, Smaller
      <4> QED  BY <1>1, <4>1
    <3>8. Total(length, T) = length[x] + Total(length, T \ {x})  BY <3>7, TotalFacts
    <3> QED  BY <3>6, <3>8
  <2>2. n + 1 \in Nat  OBVIOUS
  <2> HIDE DEF Holds
  <2> QED  BY <1>4, <2>1, <2>2
<1>7. P = Nat
  <2>1. P \in SUBSET Nat  OBVIOUS
  <2> HIDE DEF P
  <2> QED  BY <1>5, <1>6, <2>1, Induction
<1>8. Cardinality(S) \in P /\ Cardinality(S) <= Cardinality(S)
  <2>1. Cardinality(S) \in Nat  BY <1>3, FS_CardinalityType
  <2> QED  BY <1>7, <2>1
<1>9. h[S] \in Seq(0..m) /\ Total(h[S], 1..Len(h[S])) = Total(length, S)  BY <1>8
<1>10. Len(h[S]) \in Nat /\ \A i \in 1..Len(h[S]) : h[S][i] \in 0..m
  BY <1>9, LenProperties, ElementOfSeq
<1>11. Total(h[S], 1..Len(h[S])) <= m * Len(h[S])  BY <1>10, TotalAtMost
<1> QED  BY <1>2, <1>9, <1>10, <1>11

\* A virtual pipeline leaves at least that part of the micro-batches.
LEMMA GroupedEnough ==
    ASSUME job.vpp \in Nat \ {0}, NEW n \in Nat \ {0}
    PROVE  Grouped(n) \in Nat \ {0} /\ n <= job.vpp * Grouped(n)
<1>1. PICK v \in Nat \ {0}, w \in Nat :
          v = job.vpp /\ w = (n \div job.vpp) * job.vpp /\ w <= n /\ n < w + v
  <2>1. n \div job.vpp \in Nat  BY Quotient
  <2>2. (n \div job.vpp) * job.vpp \in Nat  BY <2>1
  <2> QED  BY <2>2, Quotient
<1> DEFINE W == {w, 1}
<1>2. Grouped(n) = Max(W)  BY <1>1 DEF Grouped
<1>3. W \in SUBSET (0..n) /\ W # {} /\ w \in W /\ 1 \in W  BY <1>1
<1> HIDE DEF W
<1>4. PICK g \in Nat : g = Max(W) /\ w <= g /\ 1 <= g
  <2>1. Max(W) \in W /\ \A x \in W : x <= Max(W)  BY <1>3, Greatest
  <2>2. Max(W) \in 0..n /\ w <= Max(W) /\ 1 <= Max(W)  BY <1>3, <2>1
  <2> QED  BY <2>2
<1>5. (v - 1) * (g - 1) \in Nat
  <2>1. v - 1 \in Nat /\ g - 1 \in Nat  BY <1>4
  <2> QED  BY <2>1
<1>6. (v - 1) * (g - 1) = v * g - v - g + 1  BY <1>4
<1>7. PICK p \in Nat : p = v * g  BY <1>4
<1>8. n <= p  BY <1>1, <1>4, <1>5, <1>6, <1>7
<1> QED  BY <1>1, <1>2, <1>4, <1>7, <1>8

LEMMA MostFacts ==
    ASSUME JobInv
    PROVE  /\ Most \in Nat /\ job.tokens <= Most /\ job.tokens \in Nat
           /\ job.vpp \in Nat \ {0} /\ job.longest \in Nat /\ kept \in Nat
           /\ \A s \in 1..kept : length[s] \in 0..Most /\ length[s] <= job.longest
<1>1. /\ job.longest \in Nat \ {0} /\ job.tokens \in Nat /\ job.vpp \in Nat \ {0}
      /\ job.collected \in Nat
  BY JobsAssumption DEF JobInv
<1>2. Most \in Nat /\ job.tokens <= Most /\ job.longest <= Most  BY <1>1 DEF Most
<1>3. /\ kept \in 0..job.collected /\ length \in [1..job.collected -> 1..job.longest]
  BY DEF JobInv
<1>4. \A s \in 1..kept : length[s] \in 1..job.longest  BY <1>1, <1>3
<1>5. \A s \in 1..kept : length[s] \in 0..Most /\ length[s] <= job.longest
  BY <1>1, <1>2, <1>4
<1> QED  BY <1>1, <1>2, <1>3, <1>5

\* The agreed number of micro-batches is enough for what first fit put into each.
LEMMA RoomyNow ==
    ASSUME JobInv, Numbers, Parted, phase = "received", NEW step \in 1..Steps, NEW r \in Rank
    PROVE  Total(length, SamplesOf(r, step)) <= (job.vpp * Most) * Grouped(Reduced(r, step))
<1>1. /\ Most \in Nat /\ job.tokens <= Most /\ job.tokens \in Nat
      /\ job.vpp \in Nat \ {0} /\ kept \in Nat /\ perStep \in Nat \ {0}
      /\ \A s \in 1..kept : length[s] \in 0..Most
  BY MostFacts, StepsFacts
<1>2. ASSUME NEW q \in Rank
      PROVE  /\ FirstFit(q, step) \in 1..perStep
             /\ Total(length, SamplesOf(q, step)) \in Nat
             /\ Total(length, SamplesOf(q, step)) <= Most * FirstFit(q, step)
  <2>1. PICK S \in SUBSET (1..kept) :
            S = SamplesOf(q, step) /\ Cardinality(S) = perStep /\ S # {}
    BY SamplesFacts
  <2>2. FirstFit(q, step) = Len(Batches(S))  BY <2>1 DEF FirstFit, Batches
  <2>3. \A s \in 1..kept : length[s] \in Nat  BY <1>1
  <2>4. Len(Batches(S)) \in 1..Cardinality(S)  BY <1>1, <2>1, <2>3, FirstFitBound
  <2>5. Total(length, S) <= Most * Len(Batches(S))  BY <1>1, FirstFitTotal
  <2>6. Total(length, S) \in Nat
    <3>1. IsFiniteSet(S) /\ \A x \in S : length[x] \in Nat  BY <1>1, <2>3, FiniteItems
    <3> QED  BY <3>1, TotalFacts
  <2> QED  BY <2>1, <2>2, <2>4, <2>5, <2>6
<1> DEFINE F == {FirstFit(q, step) : q \in Rank}
<1>3. F \in SUBSET (0..perStep) /\ FirstFit(r, step) \in F /\ F \subseteq 1..perStep
  BY <1>1, <1>2
<1>4. Reduced(r, step) = Max(F)  BY DEF Reduced
<1> HIDE DEF F
<1>5. Max(F) \in F /\ FirstFit(r, step) <= Max(F)
  <2>1. F # {}  BY <1>3
  <2>2. Max(F) \in F /\ \A x \in F : x <= Max(F)  BY <1>1, <1>3, <2>1, Greatest
  <2> QED  BY <1>3, <2>2
<1>6. PICK n \in Nat \ {0}, f \in Nat :
          n = Reduced(r, step) /\ f = FirstFit(r, step) /\ f <= n
  <2>1. Max(F) \in 1..perStep  BY <1>3, <1>5
  <2> QED  BY <1>1, <1>2, <1>4, <1>5, <2>1
<1>7. PICK g \in Nat \ {0} : g = Grouped(n) /\ n <= job.vpp * g  BY <1>1, GroupedEnough
<1>8. PICK t \in Nat, m \in Nat, v \in Nat :
          /\ t = Total(length, SamplesOf(r, step)) /\ m = Most /\ v = job.vpp
          /\ t <= m * f /\ f <= v * g
  <2>1. job.vpp * g \in Nat  BY <1>1
  <2>2. f <= job.vpp * g  BY <1>6, <1>7, <2>1
  <2> QED  BY <1>1, <1>2, <1>6, <2>2
<1>9. t <= (v * m) * g
  <2>1. PICK p \in Nat : p = v * g  BY <1>8
  <2>2. m * f <= m * p  BY <1>8, <2>1
  <2>3. m * p = (v * m) * g  BY <2>1
  <2>4. m * f \in Nat /\ m * p \in Nat  BY <2>1
  <2> QED  BY <1>8, <2>2, <2>3, <2>4
<1> QED  BY <1>6, <1>7, <1>8, <1>9

\* A merged set knows its sum: it joins two sets with no sample in common.
LEMMA MergedSum ==
    ASSUME JobInv, NEW k \in Nat \ {0}, NEW A \in [1..k -> Bins], NEW B \in [1..k -> Bins],
           NEW t \in Ordered(Joined(A, B)),
           \A i, j \in 1..k : \A x \in A[i].items : x \notin B[j].items,
           \A i \in 1..k : /\ A[i].sum = Total(length, A[i].items)
                           /\ B[i].sum = Total(length, B[i].items)
    PROVE  \A i \in DOMAIN t : t[i].sum = Total(length, t[i].items)
<1> DEFINE M == Joined(A, B)
<1>1. /\ M \in [1..k -> Bins]
      /\ \A i \in 1..k :
            /\ k + 1 - i \in 1..k
            /\ M[i].sum = A[i].sum + B[k + 1 - i].sum
            /\ M[i].items = A[i].items \cup B[k + 1 - i].items
  <2>1. k \in Nat \ {0} /\ A \in [1..k -> Bins] /\ B \in [1..k -> Bins]  OBVIOUS
  <2> QED  BY ONLY <2>1, JoinedType
<1>2. t \in Ordered(M)  OBVIOUS
<1> HIDE DEF M
<1>3. t \in [1..k -> Bins] /\ \A i \in 1..k : \E j \in 1..k : t[i] = M[j]
  <2>1. k \in Nat \ {0} /\ M \in [1..k -> Bins]  BY <1>1
  <2> QED  BY ONLY <1>2, <2>1, OrderedType
<1>4. kept \in Nat /\ \A s \in 1..kept : length[s] \in Nat  BY MostFacts
<1>5. ASSUME NEW j \in 1..k
      PROVE  M[j].sum = Total(length, M[j].items)
  <2>1. PICK l \in 1..k : l = k + 1 - j  BY <1>1
  <2>2. PICK X \in SUBSET (1..kept), Y \in SUBSET (1..kept) : X = A[j].items /\ Y = B[l].items
    BY DEF Bins
  <2>3. IsFiniteSet(X) /\ IsFiniteSet(Y)  BY <1>4, FiniteItems
  <2>4. \A x \in Y : x \notin X  BY <2>2
  <2>5. \A x \in X \cup Y : length[x] \in Nat  BY <1>4
  <2>6. Total(length, X \cup Y) = Total(length, X) + Total(length, Y)
    BY <2>3, <2>4, <2>5, TotalOfBoth
  <2>7. M[j].sum = A[j].sum + B[l].sum /\ M[j].items = X \cup Y  BY <1>1, <2>1, <2>2
  <2> QED  BY <2>2, <2>6, <2>7
<1>6. ASSUME NEW i \in 1..k
      PROVE  t[i].sum = Total(length, t[i].items)
  <2>1. PICK j \in 1..k : t[i] = M[j]  BY <1>3
  <2> QED  BY <1>5, <2>1
<1> QED  BY <1>3, <1>6

\* The sum of one sample and of none.
LEMMA SmallSums ==
    ASSUME JobInv
    PROVE  /\ Empty.sum = Total(length, Empty.items)
           /\ \A s \in 1..kept : One(s).sum = Total(length, One(s).items)
<1>1. \A s \in 1..kept : length[s] \in Nat  BY MostFacts
<1>2. Total(length, {}) = 0
  <2>1. \A x \in {} : length[x] \in Nat  OBVIOUS
  <2> QED  BY <2>1, FS_EmptySet, TotalFacts
<1>3. ASSUME NEW s \in 1..kept
      PROVE  Total(length, {s}) = length[s]
  <2>1. IsFiniteSet({s}) /\ \A x \in {s} : length[x] \in Nat  BY <1>1, FS_Singleton
  <2>2. Total(length, {s}) = length[s] + Total(length, {s} \ {s})  BY <2>1, TotalFacts
  <2>3. {s} \ {s} = {}  OBVIOUS
  <2> QED  BY <1>1, <1>2, <2>2, <2>3
<1> QED  BY <1>2, <1>3 DEF Empty, One

LEMMA InitO == Init => OInv
  BY DEF Init, OInv, Summed, Roomy, Limited

LEMMA MergeO ==
    ASSUME IInv, SInv, Summed, Merge
    PROVE  Summed'
<1>1. PICK A, B, t :
          /\ A \in First(heap) /\ B \in First(heap \ {A}) /\ t \in Ordered(Joined(A, B))
          /\ heap' = (heap \ {A, B}) \cup {t} /\ length' = length
  BY DEF Merge
<1>2. A \in heap /\ B \in heap /\ A # B  BY <1>1 DEF First
<1>3. PICK k \in Nat \ {0} : A \in [1..k -> Bins] /\ B \in [1..k -> Bins]
  BY <1>2 DEF IInv, HeapInv, Good
<1>4. \A i, j \in 1..k : \A x \in A[i].items : x \notin B[j].items
  <2>1. \A i \in DOMAIN A, j \in DOMAIN B : \A x \in A[i].items : x \notin B[j].items
    BY <1>2 DEF SInv, Apart
  <2> QED  BY <1>3, <2>1
<1>5. \A i \in 1..k : /\ A[i].sum = Total(length, A[i].items)
                      /\ B[i].sum = Total(length, B[i].items)
  BY <1>2, <1>3 DEF Summed
<1>6. JobInv  BY DEF IInv
<1>7. \A i \in DOMAIN t : t[i].sum = Total(length, t[i].items)
  <2>1. t \in Ordered(Joined(A, B))  BY <1>1
  <2> QED  BY <1>3, <1>4, <1>5, <1>6, <2>1, MergedSum
<1> QED  BY <1>1, <1>7 DEF Summed

LEMMA SummedNext ==
    ASSUME IInv, SInv, Summed, [Next]_vars
    PROVE  Summed' /\ length' = length
<1>1. JobInv  BY DEF IInv
<1>2. kept \in Nat /\ \A s \in 1..kept : One(s).sum = Total(length, One(s).items)
  BY <1>1, MostFacts, SmallSums
<1>3. Empty.sum = Total(length, Empty.items)  BY <1>1, SmallSums
<1>4. ASSUME heap' = {}
      PROVE  Summed'
  BY <1>4 DEF Summed
<1>5. CASE Trim  BY <1>5 DEF Trim, Summed
<1>6. CASE Split
  <2>1. CASE job.balance
    <3>1. heap' = Chunks(job.dp) /\ length' = length  BY <1>6, <2>1 DEF Split
    <3>2. ASSUME NEW st \in Chunks(job.dp), NEW i \in DOMAIN st
          PROVE  st[i].sum = Total(length, st[i].items)
      <4>1. job.dp \in Nat \ {0}  BY <1>1, JobFacts
      <4>2. PICK k \in Nat \ {0} : k = job.dp  BY <4>1
      <4>3. PICK c \in 0..(kept \div k - 1) :
                st = [j \in 1..k |-> One(Ascending[c * k + k + 1 - j])]
        BY <4>2 DEF Chunks
      <4>4. i \in 1..k  BY <4>3
      <4>5. PICK p \in 1..kept : p = c * k + k + 1 - i  BY <1>2, <4>4, ChunkIndex
      <4>6. Ascending[p] \in 1..kept
        <5>1. \A s \in 1..kept : length[s] \in Nat  BY <1>1, MostFacts
        <5> QED  BY <1>2, <5>1, AscendingFacts
      <4>7. st[i] = One(Ascending[p])  BY <4>3, <4>4, <4>5
      <4> QED  BY <1>2, <4>6, <4>7
    <3> QED  BY <3>1, <3>2 DEF Summed
  <2>2. CASE ~job.balance
    <3>1. heap' = heap /\ length' = length  BY <1>6, <2>2 DEF Split
    <3> QED  BY <3>1 DEF Summed
  <2> QED  BY <2>1, <2>2
<1>7. CASE Merge  BY <1>7, MergeO DEF Merge
<1>8. CASE SplitEnd  BY <1>4, <1>8 DEF SplitEnd
<1>9. CASE Iterate  BY <1>9 DEF Iterate, Summed
<1>10. ASSUME NEW r \in Rank, NEW step \in 1..Steps, Pack(r, step), phase = "pack"
       PROVE  Summed' /\ length' = length
  <2>1. heap = {} /\ length' = length  BY <1>10 DEF Pack
  <2> DEFINE S == SamplesOf(r, step)
             k == count[r][step]
  <2>2. S \in SUBSET (1..kept)  BY <1>1, <1>10, SamplesFacts DEF SInv
  <2>3. heap' = Singles(S, k) \/ heap' = heap  BY <1>10 DEF Pack
  <2> HIDE DEF S, k
  <2>4. ASSUME NEW st \in Singles(S, k), NEW i \in DOMAIN st
        PROVE  st[i].sum = Total(length, st[i].items)
    <3>1. PICK s \in S : st = [j \in 1..k |-> IF j = 1 THEN One(s) ELSE Empty]
      BY DEF Singles
    <3>2. st[i] = One(s) \/ st[i] = Empty  BY <3>1
    <3> QED  BY <1>2, <1>3, <2>2, <3>2
  <2>5. CASE heap' = Singles(S, k)  BY <2>1, <2>4, <2>5 DEF Summed
  <2>6. CASE heap' = heap  BY <1>4, <2>1, <2>6
  <2> QED  BY <2>1, <2>3, <2>5, <2>6
<1>11. ASSUME NEW r \in Rank, NEW step \in 1..Steps, PackEnd(r, step)
       PROVE  Summed' /\ length' = length
  BY <1>4, <1>11 DEF PackEnd
<1>12. CASE UNCHANGED vars  BY <1>12 DEF vars, Summed
<1> QED  BY <1>5, <1>6, <1>7, <1>8, <1>9, <1>10, <1>11, <1>12 DEF Next

\* The sets of a state are within one sample of each other: if one of them were above the
\* limit, together they would hold more than the step.
LEMMA SetsLimited ==
    ASSUME JobInv, NEW k \in Nat \ {0}, NEW st \in [1..k -> Bins], Close(st),
           \A i \in 1..k : st[i].sum = Total(length, st[i].items),
           \A i, j \in 1..k : \A x \in st[i].items : x \in st[j].items => i = j,
           Total(length, UNION {st[i].items : i \in 1..k}) <= (job.vpp * Most) * k
    PROVE  \A i \in 1..k : Total(length, st[i].items) <= Limit
<1>1. PICK m \in Nat, l \in Nat : m = job.vpp * Most /\ l = job.longest /\ Limit = m + l
  <2>1. job.vpp \in Nat /\ Most \in Nat /\ job.longest \in Nat  BY MostFacts
  <2>2. job.vpp * Most \in Nat  BY ONLY <2>1
  <2>3. PICK m \in Nat : m = job.vpp * Most  BY <2>2
  <2>4. Limit = m + job.longest  BY <2>3 DEF Limit
  <2> QED  BY <2>1, <2>3, <2>4
<1>2. kept \in Nat /\ \A s \in 1..kept : length[s] \in Nat /\ length[s] <= l
  <2>1. /\ kept \in Nat /\ Most \in Nat
        /\ \A s \in 1..kept : length[s] \in 0..Most /\ length[s] <= job.longest
    BY ONLY JobInv, MostFacts
  <2>2. l = job.longest  BY <1>1
  <2> QED  BY ONLY <2>1, <2>2
<1> DEFINE B == [i \in 1..k |-> st[i].items]
<1>3. \A i \in 1..k : B[i] = st[i].items /\ B[i] \in SUBSET (1..kept)  BY DEF Bins
<1>4. UNION {B[i] : i \in 1..k} = UNION {st[i].items : i \in 1..k}  OBVIOUS
<1> HIDE DEF B
<1>5. ASSUME NEW i \in 1..k
      PROVE  /\ IsFiniteSet(B[i]) /\ \A x \in B[i] : length[x] \in Nat
             /\ Total(length, B[i]) \in Nat /\ st[i].sum = Total(length, B[i])
  <2>1. B[i] \in SUBSET (1..kept)  BY <1>3
  <2>2. IsFiniteSet(B[i])  BY <1>2, <2>1, FiniteItems
  <2>3. \A x \in B[i] : length[x] \in Nat  BY <1>2, <2>1
  <2>4. Total(length, B[i]) \in Nat  BY <2>2, <2>3, TotalFacts
  <2> QED  BY <1>3, <2>2, <2>3, <2>4
<1> SUFFICES ASSUME NEW e \in 1..k, ~(Total(length, B[e]) <= m + l)  PROVE FALSE
  BY <1>1, <1>3
<1>6. ASSUME NEW i \in 1..k
      PROVE  m + 1 <= Total(length, B[i])
  <2>1. PICK s \in 1..kept : st[e].sum - st[i].sum <= length[s]  BY DEF Close
  <2>2. PICK a \in Nat, b \in Nat, d \in Nat :
            a = Total(length, B[e]) /\ b = Total(length, B[i]) /\ d = length[s]
    BY <1>2, <1>5
  <2>3. a - b <= d /\ d <= l /\ a > m + l  BY <1>2, <1>5, <2>1, <2>2
  <2> QED  BY <2>2, <2>3
<1>7. \A i, j \in 1..k : \A x : x \in B[i] /\ x \in B[j] => i = j  BY <1>3
<1>8. (m + 1) * k <= Total(length, UNION {B[i] : i \in 1..k})
  <2>1. k \in Nat /\ m + 1 \in Nat  OBVIOUS
  <2>2. \A i \in 1..k : /\ IsFiniteSet(B[i]) /\ \A x \in B[i] : length[x] \in Nat
                        /\ m + 1 <= Total(length, B[i])
    BY <1>5, <1>6
  <2>3. PICK S : S = UNION {B[i] : i \in 1..k}  OBVIOUS
  <2>4. \A x : x \in S <=> \E i \in 1..k : x \in B[i]  BY <2>3
  <2>5. PICK d \in Nat : d = m + 1  BY <2>1
  <2>6. \A i \in 1..k : /\ IsFiniteSet(B[i]) /\ \A x \in B[i] : length[x] \in Nat
                        /\ d <= Total(length, B[i])
    BY <2>2, <2>5
  <2>7. d * k <= Total(length, S)  BY ONLY <1>7, <2>1, <2>4, <2>5, <2>6, TotalOfSets
  <2> QED  BY <2>3, <2>5, <2>7
<1>9. Total(length, UNION {B[i] : i \in 1..k}) <= m * k  BY <1>1, <1>4
<1>10. Total(length, UNION {B[i] : i \in 1..k}) \in Nat
  <2>1. UNION {B[i] : i \in 1..k} \in SUBSET (1..kept)  BY <1>3
  <2>2. IsFiniteSet(UNION {B[i] : i \in 1..k})  BY <1>2, <2>1, FiniteItems
  <2>3. \A x \in UNION {B[i] : i \in 1..k} : length[x] \in Nat  BY <1>2, <2>1
  <2> QED  BY <2>2, <2>3, TotalFacts
<1>11. PICK c \in Nat : c = m * k  OBVIOUS
<1>12. (m + 1) * k = c + k  BY <1>11
<1> QED  BY <1>8, <1>9, <1>10, <1>11, <1>12

\* Nothing changes what was agreed on while the ranks pack.
LEMMA RoomyNext ==
    ASSUME IInv, SInv, Roomy, [Next]_vars
    PROVE  Roomy'
<1>1. JobInv /\ Numbers /\ Parted  BY DEF IInv, SInv
<1>2. ASSUME job' = job, perStep' = perStep, parts' = parts, length' = length, count' = count,
             phase' \in {"pack", "done"} => phase \in {"pack", "done"}
      PROVE  Roomy'
  <2>1. /\ Rank' = Rank /\ Steps' = Steps
        /\ \A r, step : SamplesOf(r, step)' = SamplesOf(r, step)
    BY <1>2, SameParts
  <2> QED  BY <1>2, <2>1 DEF Roomy, Most
<1>3. ASSUME phase' \notin {"pack", "done"}
      PROVE  Roomy'
  BY <1>3 DEF Roomy
<1>4. CASE Trim  BY <1>3, <1>4 DEF Trim
<1>5. CASE Split  BY <1>3, <1>5 DEF Split
<1>6. CASE Merge  BY <1>2, <1>6 DEF Merge
<1>7. CASE SplitEnd  BY <1>3, <1>7 DEF SplitEnd
<1>8. CASE Iterate
  <2>1. /\ job' = job /\ length' = length /\ perStep' = perStep /\ parts' = parts
        /\ phase = "received"
    BY <1>8 DEF Iterate
  <2>2. /\ Rank' = Rank /\ Steps' = Steps
        /\ \A r, step : SamplesOf(r, step)' = SamplesOf(r, step)
    BY <2>1, SameParts
  <2>3. SUFFICES ASSUME job.tokens > 0, NEW r \in Rank, NEW step \in 1..Steps
                 PROVE  Total(length, SamplesOf(r, step)) <= (job.vpp * Most) * count'[r][step]
    BY <2>1, <2>2 DEF Roomy, Most
  <2>4. count' = [q \in Rank |-> [i \in 1..Steps |-> Grouped(Reduced(q, i))]]
    BY <1>8, <2>3 DEF Iterate
  <2>5. count'[r][step] = Grouped(Reduced(r, step))  BY <2>3, <2>4
  <2> QED  BY <1>1, <2>1, <2>3, <2>5, RoomyNow
<1>9. ASSUME NEW r \in Rank, NEW step \in 1..Steps, Pack(r, step), phase = "pack"
      PROVE  Roomy'
  BY <1>2, <1>9 DEF Pack
<1>10. ASSUME NEW r \in Rank, NEW step \in 1..Steps, PackEnd(r, step), phase = "pack"
       PROVE  Roomy'
  BY <1>2, <1>10 DEF PackEnd
<1>11. CASE UNCHANGED vars  BY <1>2, <1>11 DEF vars
<1> QED  BY <1>4, <1>5, <1>6, <1>7, <1>8, <1>9, <1>10, <1>11 DEF Next

LEMMA PackEndO ==
    ASSUME IInv, SInv, OInv, phase = "pack", NEW r \in Rank, NEW step \in 1..Steps,
           PackEnd(r, step)
    PROVE  Limited'
<1>1. /\ JobInv /\ Numbers /\ Parted /\ Agreed /\ Progress /\ Apart /\ PackingOne
      /\ job.tokens > 0 /\ Summed /\ Roomy /\ Limited
  BY DEF IInv, SInv, OInv, Progress
<1>2. job' = job /\ length' = length /\ Packing(r, step) /\ Rank' = Rank
  BY DEF PackEnd, Rank
<1>3. PICK st \in heap :
          /\ heap = {st}
          /\ batches' = [batches EXCEPT ![r] = @ \o [i \in DOMAIN st |-> st[i].items]]
  BY DEF PackEnd
<1>4. batches \in [Rank -> Seq(SUBSET (1..kept))]  BY <1>1 DEF Progress
<1>5. PICK k \in Nat \ {0} : st \in [1..k -> Bins] /\ Close(st)
  BY DEF IInv, HeapInv, Good
<1>6. DOMAIN st = 1..count[r][step] /\ Content(SamplesOf(r, step))
  BY <1>1, <1>2, <1>3 DEF PackingOne
<1>7. count[r][step] = k
  <2>1. PICK d \in Nat : d = count[r][step]
    <3>1. count[r] \in [1..Steps -> 1..perStep]  BY <1>1 DEF Agreed
    <3>2. count[r][step] \in 1..perStep  BY <3>1
    <3> QED  BY <3>2
  <2>2. 1..k = 1..d  BY <1>5, <1>6, <2>1
  <2>3. k \in 1..d  BY <2>2
  <2>4. d = k
    <3>1. d \in 1..k  BY <2>2, <2>3
    <3> QED  BY <2>3, <3>1
  <2> QED  BY <2>1, <2>4
<1>8. UNION {st[i].items : i \in 1..k} = SamplesOf(r, step)
  <2>1. SamplesOf(r, step) \in SUBSET (1..kept)  BY <1>1, SamplesFacts
  <2>2. \A i \in 1..k : st[i].items \in SUBSET (1..kept)  BY <1>5 DEF Bins
  <2>3. \A x \in 1..kept : x \in SamplesOf(r, step) <=> \E i \in 1..k : x \in st[i].items
    BY <1>3, <1>5, <1>6 DEF Content
  <2> QED  BY <2>1, <2>2, <2>3
<1>9. \A i \in 1..k : Total(length, st[i].items) <= Limit
  <2>1. \A i \in 1..k : st[i].sum = Total(length, st[i].items)
    BY <1>1, <1>5 DEF Summed
  <2>2. \A i, j \in 1..k : \A x \in st[i].items : x \in st[j].items => i = j
    <3>1. \A i, j \in DOMAIN st : \A x \in st[i].items : x \in st[j].items => i = j
      BY <1>1 DEF Apart
    <3> QED  BY <1>5, <3>1
  <2>3. Total(length, UNION {st[i].items : i \in 1..k}) <= (job.vpp * Most) * k
    BY <1>1, <1>7, <1>8 DEF Roomy
  <2> QED  BY <1>1, <1>5, <2>1, <2>2, <2>3, SetsLimited
<1> DEFINE F == [i \in DOMAIN st |-> st[i].items]
<1>10. F \in [1..k -> SUBSET (1..kept)] /\ \A i \in 1..k : F[i] = st[i].items
  BY <1>5 DEF Bins
<1>11. /\ batches'[r] = batches[r] \o F
       /\ \A q \in Rank : q # r => batches'[q] = batches[q]
  BY <1>3, <1>4
<1> HIDE DEF F
<1>12. \A q \in Rank : \A b \in DOMAIN batches[q] : Total(length, batches[q][b]) <= Limit
  BY <1>1 DEF Limited
<1>13. ASSUME NEW b \in DOMAIN batches'[r]
       PROVE  Total(length, batches'[r][b]) <= Limit
  <2>1. PICK C \in Seq(SUBSET (1..kept)), n \in Nat : C = batches[r] /\ n = Len(C)
    BY <1>4, LenProperties
  <2>2. F \in Seq(SUBSET (1..kept)) /\ Len(F) = k
    <3>1. F \in Seq(SUBSET (1..kept))  BY <1>10, SeqDef
    <3> QED  BY <1>10, LenOf
  <2>3. /\ C \o F \in Seq(SUBSET (1..kept)) /\ Len(C \o F) = n + k
        /\ \A i \in 1..(n + k) : (C \o F)[i] = IF i <= n THEN C[i] ELSE F[i - n]
    <3>1. C \in Seq(SUBSET (1..kept)) /\ F \in Seq(SUBSET (1..kept))  BY <2>2
    <3>2. /\ C \o F \in Seq(SUBSET (1..kept)) /\ Len(C \o F) = Len(C) + Len(F)
          /\ \A i \in 1..(Len(C) + Len(F)) :
                (C \o F)[i] = IF i <= Len(C) THEN C[i] ELSE F[i - Len(C)]
      BY ONLY <3>1, ConcatProperties
    <3> QED  BY <2>1, <2>2, <3>2
  <2>4. b \in 1..(n + k) /\ batches'[r][b] = (C \o F)[b]
    <3>1. DOMAIN (C \o F) = 1..Len(C \o F)  BY <2>3, LenProperties
    <3> QED  BY <1>11, <1>13, <2>1, <2>3, <3>1
  <2>5. CASE b <= n
    <3>1. b \in DOMAIN C /\ batches'[r][b] = C[b]
      <4>1. DOMAIN C = 1..n  BY <2>1, LenProperties
      <4> QED  BY <2>3, <2>4, <2>5, <4>1
    <3> QED  BY <1>12, <2>1, <3>1
  <2>6. CASE ~(b <= n)
    <3>1. b - n \in 1..k /\ batches'[r][b] = F[b - n]  BY <2>3, <2>4, <2>6
    <3> QED  BY <1>9, <1>10, <3>1
  <2> QED  BY <2>5, <2>6
<1>14. Limit' = Limit  BY <1>2 DEF Limit, Most
<1> QED  BY <1>2, <1>11, <1>12, <1>13, <1>14 DEF Limited

LEMMA LimitedNext ==
    ASSUME IInv, SInv, OInv, [Next]_vars
    PROVE  Limited'
<1>1. ASSUME job' = job, length' = length, batches' = batches,
             phase' \in {"pack", "done"} => phase \in {"pack", "done"}
      PROVE  Limited'
  BY <1>1 DEF OInv, Limited, Limit, Most, Rank
<1>2. ASSUME phase' \notin {"pack", "done"}
      PROVE  Limited'
  BY <1>2 DEF Limited
<1>3. CASE Trim  BY <1>2, <1>3 DEF Trim
<1>4. CASE Split  BY <1>2, <1>4 DEF Split
<1>5. CASE Merge  BY <1>1, <1>5 DEF Merge
<1>6. CASE SplitEnd  BY <1>2, <1>6 DEF SplitEnd
<1>7. CASE Iterate
  <2>1. /\ job' = job /\ phase = "received" /\ (job.tokens > 0 => batches' = batches)
        /\ batches = [r \in Rank |-> <<>>]
    BY <1>7 DEF Iterate, SInv, Fresh
  <2>2. Rank' = Rank /\ DOMAIN <<>> = {}  BY <2>1 DEF Rank
  <2> QED  BY <2>1, <2>2 DEF Limited
<1>8. ASSUME NEW r \in Rank, NEW step \in 1..Steps, Pack(r, step), phase = "pack"
      PROVE  Limited'
  BY <1>1, <1>8 DEF Pack
<1>9. ASSUME NEW r \in Rank, NEW step \in 1..Steps, PackEnd(r, step), phase = "pack"
      PROVE  Limited'
  BY <1>9, PackEndO
<1>10. CASE UNCHANGED vars  BY <1>1, <1>10 DEF vars
<1> QED  BY <1>3, <1>4, <1>5, <1>6, <1>7, <1>8, <1>9, <1>10 DEF Next

\* How far a micro-batch can exceed max_tokens_per_gpu: the ranks start to train with
\* micro-batches of at most the limit (or the longest sample, if that is more) and one
\* sample more, and with a virtual pipeline of groups of vpp with vpp times the limit.
OverrunBounded ==
    phase = "done" /\ job.tokens > 0 =>
        \A r \in Rank : \A b \in DOMAIN batches[r] :
            FoldFunctionOnSet(+, 0, length, batches[r][b])
                <= job.vpp * (IF job.tokens < job.longest THEN job.longest ELSE job.tokens)
                     + job.longest

\* get_data_iterator exceeds the limit by a bounded number of tokens, for any rollout, any
\* numbers of ranks and steps: first fit needs enough batches, the ranks agree on the
\* most any of them needs, and the differencing spreads the samples of a step over them
\* evenly.
THEOREM OverrunIsBounded == Spec => []OverrunBounded
<1>1. OInv => OverrunBounded
  BY DEF OInv, Limited, Limit, Most, OverrunBounded, Total
<1>2. Init => IInv /\ SInv /\ OInv  BY InitInv, InitS, InitO
<1>3. IInv /\ SInv /\ OInv /\ [Next]_vars => (IInv /\ SInv /\ OInv)'
  <2> SUFFICES ASSUME IInv, SInv, OInv, [Next]_vars  PROVE (IInv /\ SInv /\ OInv)'
    OBVIOUS
  <2>1. Summed' /\ Roomy'  BY SummedNext, RoomyNext DEF OInv
  <2> QED  BY <2>1, NextInv, NextS, LimitedNext DEF OInv
<1> QED  BY <1>1, <1>2, <1>3, PTL DEF Spec
=============================================================================
