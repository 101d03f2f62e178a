----------------------- MODULE RolloutGenerationProofs -----------------------
(***************************************************************************)
(* Theorems of RolloutGeneration for every batch size, oversampling size,  *)
(* group size and bound.                                                   *)
(***************************************************************************)
EXTENDS RolloutGeneration, FiniteSetTheorems, SequenceTheorems, TLAPS

-----------------------------------------------------------------------------
(* Facts about sequences without repetition. *)

\* Appending adds one element; a new one is no repetition.
LEMMA AppendElements ==
    ASSUME NEW S, NEW s \in Seq(S), NEW x \in S
    PROVE  /\ Append(s, x) \in Seq(S)
           /\ Elements(Append(s, x)) = Elements(s) \cup {x}
           /\ NoRepeats(s) /\ x \notin Elements(s) => NoRepeats(Append(s, x))
<1> DEFINE t == Append(s, x)
<1>1. /\ t \in Seq(S)
      /\ Len(t) = Len(s) + 1
      /\ \A i \in 1..Len(s) : t[i] = s[i]
      /\ t[Len(s) + 1] = x
      /\ DOMAIN t = 1..(Len(s) + 1) /\ DOMAIN s = 1..Len(s) /\ Len(s) \in Nat
  BY AppendProperties, LenProperties
<1>2. Elements(t) = Elements(s) \cup {x}
  <2>1. Elements(t) \subseteq Elements(s) \cup {x}
    BY <1>1 DEF Elements
  <2>2. \A i \in DOMAIN s : i \in DOMAIN t /\ t[i] = s[i]
    BY <1>1
  <2>3. Len(s) + 1 \in DOMAIN t
    BY <1>1
  <2>4. QED BY <2>1, <2>2, <2>3, <1>1 DEF Elements
<1>3. NoRepeats(s) /\ x \notin Elements(s) => NoRepeats(t)
  BY <1>1 DEF NoRepeats, Elements
<1>4. QED BY <1>1, <1>2, <1>3

\* Concatenation joins the elements; disjoint parts give no repetition.
LEMMA ConcatElements ==
    ASSUME NEW S, NEW s \in Seq(S), NEW t \in Seq(S)
    PROVE  /\ s \o t \in Seq(S)
           /\ Elements(s \o t) = Elements(s) \cup Elements(t)
           /\ NoRepeats(s) /\ NoRepeats(t) /\ Elements(s) \cap Elements(t) = {}
                => NoRepeats(s \o t)
<1> DEFINE u == s \o t
<1>1. /\ u \in Seq(S)
      /\ Len(u) = Len(s) + Len(t)
      /\ \A i \in 1..(Len(s) + Len(t)) :
            u[i] = IF i <= Len(s) THEN s[i] ELSE t[i - Len(s)]
      /\ DOMAIN u = 1..(Len(s) + Len(t)) /\ DOMAIN s = 1..Len(s) /\ DOMAIN t = 1..Len(t)
      /\ Len(s) \in Nat /\ Len(t) \in Nat
  BY ConcatProperties, LenProperties
<1>2. Elements(u) = Elements(s) \cup Elements(t)
  <2>1. \A i \in DOMAIN u : u[i] \in Elements(s) \cup Elements(t)
    BY <1>1 DEF Elements
  <2>2. \A i \in DOMAIN s : i \in DOMAIN u /\ u[i] = s[i]
    BY <1>1
  <2>3. \A i \in DOMAIN t : i + Len(s) \in DOMAIN u /\ u[i + Len(s)] = t[i]
    BY <1>1
  <2>4. Elements(u) \subseteq Elements(s) \cup Elements(t)
    BY <2>1 DEF Elements
  <2>5. \A x \in Elements(s) : x \in Elements(u)
    <3>1. SUFFICES ASSUME NEW i \in DOMAIN s PROVE s[i] \in Elements(u)
      BY DEF Elements
    <3>2. i \in DOMAIN u /\ u[i] = s[i]
      BY <2>2
    <3>3. QED BY <3>2 DEF Elements
  <2>6. \A x \in Elements(t) : x \in Elements(u)
    <3>1. SUFFICES ASSUME NEW i \in DOMAIN t PROVE t[i] \in Elements(u)
      BY DEF Elements
    <3>2. i + Len(s) \in DOMAIN u /\ u[i + Len(s)] = t[i]
      BY <2>3
    <3>3. QED BY <3>2 DEF Elements
  <2>7. QED BY <2>4, <2>5, <2>6
<1>3. ASSUME NoRepeats(s), NoRepeats(t), Elements(s) \cap Elements(t) = {}
      PROVE  NoRepeats(u)
  <2>1. \A i \in DOMAIN s, j \in DOMAIN t : s[i] # t[j]
    BY <1>3 DEF Elements
  <2>2. SUFFICES ASSUME NEW i \in DOMAIN u, NEW j \in DOMAIN u, u[i] = u[j]
                 PROVE  i = j
    BY DEF NoRepeats
  <2>3. CASE i <= Len(s) /\ j <= Len(s)
    BY <2>2, <2>3, <1>1, <1>3 DEF NoRepeats
  <2>4. CASE i > Len(s) /\ j > Len(s)
    <3>1. i - Len(s) \in DOMAIN t /\ j - Len(s) \in DOMAIN t
      BY <2>4, <1>1
    <3>2. t[i - Len(s)] = t[j - Len(s)]
      BY <2>2, <2>4, <1>1
    <3>3. i - Len(s) = j - Len(s)
      BY <3>1, <3>2, <1>3 DEF NoRepeats
    <3>4. QED BY <3>3, <1>1
  <2>5. CASE (i <= Len(s)) # (j <= Len(s))
    BY <2>1, <2>2, <2>5, <1>1
  <2>6. QED BY <2>3, <2>4, <2>5, <1>1
<1>4. QED BY <1>1, <1>2, <1>3

\* Popping the first k elements splits a sequence without repetition in two.
LEMMA PopElements ==
    ASSUME NEW S, NEW s \in Seq(S), NEW k \in 0..Len(s), NoRepeats(s)
    PROVE  /\ SubSeq(s, k + 1, Len(s)) \in Seq(S)
           /\ NoRepeats(SubSeq(s, k + 1, Len(s)))
           /\ Elements(SubSeq(s, 1, k)) \subseteq S
           /\ Elements(s) = Elements(SubSeq(s, 1, k)) \cup Elements(SubSeq(s, k + 1, Len(s)))
           /\ Elements(SubSeq(s, 1, k)) \cap Elements(SubSeq(s, k + 1, Len(s))) = {}
           /\ IsFiniteSet(Elements(SubSeq(s, 1, k)))
           /\ Cardinality(Elements(SubSeq(s, 1, k))) = k
<1> DEFINE front == {s[i] : i \in 1..k}
           rest  == SubSeq(s, k + 1, Len(s))
<1>1. /\ Len(s) \in Nat /\ DOMAIN s = 1..Len(s)
      /\ \A i \in 1..Len(s) : s[i] \in S
  BY LenProperties, ElementOfSeq
<1>2. /\ rest \in Seq(S)
      /\ Len(rest) = Len(s) - k
      /\ \A i \in 1..(Len(s) - k) : rest[i] = s[k + i]
      /\ DOMAIN rest = 1..(Len(s) - k)
  <2>1. SubSeq(s, k + 1, Len(s)) = [i \in 1..(Len(s) - k) |-> s[k + i]]
    BY <1>1
  <2>2. \A i \in 1..(Len(s) - k) : s[k + i] \in S
    BY <1>1
  <2>3. Len(s) - k \in Nat
    BY <1>1
  <2>4. rest \in Seq(S)
    BY <2>1, <2>2, <2>3, IsASeq
  <2>5. QED BY <2>1, <2>3, <2>4, LenProperties
<1> HIDE DEF rest
<1>3. NoRepeats(rest)
  <2>1. SUFFICES ASSUME NEW i \in DOMAIN rest, NEW j \in DOMAIN rest, rest[i] = rest[j]
                 PROVE  i = j
    BY DEF NoRepeats
  <2>2. k + i \in DOMAIN s /\ k + j \in DOMAIN s /\ s[k + i] = s[k + j]
    BY <1>1, <1>2, <2>1
  <2>3. QED BY <2>2, <1>2 DEF NoRepeats
<1>4. Elements(s) = front \cup Elements(rest)
  <2>1. \A i \in DOMAIN rest : k + i \in DOMAIN s /\ rest[i] = s[k + i]
    BY <1>1, <1>2
  <2>2. \A i \in DOMAIN s : i \in 1..k \/ (i - k \in DOMAIN rest /\ rest[i - k] = s[i])
    BY <1>1, <1>2
  <2>3. 1..k \subseteq DOMAIN s
    BY <1>1
  <2>4. QED BY <2>1, <2>2, <2>3 DEF Elements
<1>5. front \cap Elements(rest) = {}
  <2>1. SUFFICES ASSUME NEW i \in 1..k, NEW j \in DOMAIN rest, s[i] = rest[j]
                 PROVE  FALSE
    BY DEF Elements
  <2>2. i \in DOMAIN s /\ k + j \in DOMAIN s /\ s[i] = s[k + j] /\ i # k + j
    BY <2>1, <1>1, <1>2
  <2>3. QED BY <2>2 DEF NoRepeats
<1>6. IsFiniteSet(front) /\ Cardinality(front) = k
  <2> DEFINE f == [i \in 1..k |-> s[i]]
  <2>1. f \in Bijection(1..k, front)
    <3>1. \A i, j \in 1..k : s[i] = s[j] => i = j
      BY <1>1 DEF NoRepeats
    <3>2. f \in [1..k -> front]
      OBVIOUS
    <3>3. f \in Injection(1..k, front)
      BY <3>1, <3>2 DEF Injection, IsInjective
    <3>4. f \in Surjection(1..k, front)
      BY <3>2 DEF Surjection
    <3>5. QED BY <3>3, <3>4 DEF Bijection
  <2>2. IsFiniteSet(1..k) /\ Cardinality(1..k) = k
    BY FS_Interval, <1>1
  <2>3. ExistsBijection(1..k, front)
    BY <2>1 DEF ExistsBijection
  <2>4. QED BY <2>2, <2>3, FS_Bijection
<1>7. Elements(SubSeq(s, 1, k)) = front
  <2>1. \A i \in 1..k : s[i] \in S
    BY <1>1
  <2>2. /\ SubSeq(s, 1, k) \in Seq(S)
        /\ Len(SubSeq(s, 1, k)) = k
        /\ \A i \in 1..k : SubSeq(s, 1, k)[i] = s[i]
    BY <2>1, <1>1, SubSeqProperties
  <2>3. DOMAIN SubSeq(s, 1, k) = 1..k
    BY <2>2, LenProperties
  <2>4. QED BY <2>2, <2>3 DEF Elements
<1>8. front \subseteq S
  BY <1>1
<1>9. QED BY <1>2, <1>3, <1>4, <1>5, <1>6, <1>7, <1>8 DEF rest

-----------------------------------------------------------------------------
(* The inductive invariant: what remaining_batch_size counts, on top of the *)
(* types and of the conservation of groups.  The count needs conservation:  *)
(* a group submitted twice would be counted twice and awaited once.         *)

Counted ==
    /\ Cardinality(data) <= Target
    /\ phase = "collect" /\ Cardinality(data) < Target =>
          remaining = Cardinality(pendings) + Cardinality(data)
    /\ phase \in {"abort", "drain"} => Cardinality(data) = Target
    /\ phase = "idle" =>
          remaining = 0 /\ pendings = {} /\ data = {} /\ abortedSamples = <<>>

IInv == TypeOK /\ GroupsConserved /\ Counted

\* GroupsConserved, with its six places spelled out.
Apart(P, D, A, B, T, L) ==
    /\ P \cap D = {} /\ P \cap A = {} /\ P \cap B = {} /\ P \cap T = {} /\ P \cap L = {}
    /\ D \cap A = {} /\ D \cap B = {} /\ D \cap T = {} /\ D \cap L = {}
    /\ A \cap B = {} /\ A \cap T = {} /\ A \cap L = {}
    /\ B \cap T = {} /\ B \cap L = {}
    /\ T \cap L = {}

LEMMA ConservedSpelled ==
    GroupsConserved <=>
        /\ 1..(fresh - 1) = pendings \cup data \cup Elements(abortedSamples)
                               \cup Elements(buffer) \cup trained \cup Lost
        /\ Apart(pendings, data, Elements(abortedSamples), Elements(buffer), trained, Lost)
        /\ NoRepeats(buffer) /\ NoRepeats(abortedSamples)
<1> DEFINE A == Elements(abortedSamples)
           B == Elements(buffer)
           pl == <<pendings, data, A, B, trained, Lost>>
<1> HIDE DEF A, B
<1>1. UNION {pl[i] : i \in 1..6} = pendings \cup data \cup A \cup B \cup trained \cup Lost
  <2>1. 1..6 = {1, 2, 3, 4, 5, 6}
    OBVIOUS
  <2>2. {pl[i] : i \in {1, 2, 3, 4, 5, 6}} = {pendings, data, A, B, trained, Lost}
    OBVIOUS
  <2>3. QED BY <2>1, <2>2
<1>2. (\A i, j \in 1..6 : i # j => pl[i] \cap pl[j] = {}) <=>
          Apart(pendings, data, A, B, trained, Lost)
  <2>1. ASSUME \A i, j \in 1..6 : i # j => pl[i] \cap pl[j] = {}
        PROVE  Apart(pendings, data, A, B, trained, Lost)
    <3>1. \A i, j \in {1, 2, 3, 4, 5, 6} : i # j => pl[i] \cap pl[j] = {}
      BY <2>1
    <3>2. /\ pl[1] = pendings /\ pl[2] = data /\ pl[3] = A /\ pl[4] = B
          /\ pl[5] = trained /\ pl[6] = Lost
      OBVIOUS
    <3> HIDE DEF pl
    <3>3. QED BY <3>1, <3>2 DEF Apart
  <2>2. ASSUME Apart(pendings, data, A, B, trained, Lost), NEW i \in 1..6, NEW j \in 1..6, i # j
        PROVE  pl[i] \cap pl[j] = {}
    <3>1. i \in {1, 2, 3, 4, 5, 6} /\ j \in {1, 2, 3, 4, 5, 6}
      OBVIOUS
    <3>2. /\ pl[1] = pendings /\ pl[2] = data /\ pl[3] = A /\ pl[4] = B
          /\ pl[5] = trained /\ pl[6] = Lost
      OBVIOUS
    <3> HIDE DEF pl
    <3>3. QED BY <3>1, <3>2, <2>2 DEF Apart
  <2>3. QED BY <2>1, <2>2
<1>3. QED BY <1>1, <1>2 DEF GroupsConserved, Places, A, B
-----------------------------------------------------------------------------
(* Types *)

\* What the steps of groups and of samples leave alone: everything the
\* invariant speaks of but the types of the task variables.
taskFrame == <<partialRollout, sourceVars, stateVars, localVars, lostVars>>

LEMMA TaskStepFrame ==
    ASSUME \/ \E g \in Group : GroupStep(g)
           \/ \E s \in Sample : SampleStep(s)
    PROVE  UNCHANGED taskFrame
BY DEF GroupStep, SampleStep, StartGroup, JoinGroup, ScoreGroup, Acquire, Reply, Score,
       AfterGather, AfterReply, taskFrame

LEMMA TaskStepTypes ==
    ASSUME TypeOK,
           \/ \E g \in Group : GroupStep(g)
           \/ \E s \in Sample : SampleStep(s)
    PROVE  TypeOK'
<1>1. UNCHANGED taskFrame
  BY TaskStepFrame
<1>2. ASSUME NEW g \in Group, GroupStep(g)
      PROVE  /\ gtask' \in [Group -> {"none", "created", "running", "scoring", "finished"}]
             /\ pc' \in [Sample -> {"idle", "ready", "inflight", "scoring", "done"}]
             /\ status' \in [Sample -> {"PENDING", "COMPLETED", "TRUNCATED", "ABORTED"}]
             /\ reward' \in [Sample -> BOOLEAN]
  <2>1. CASE StartGroup(g)
    BY <2>1 DEF StartGroup, TypeOK
  <2>2. CASE JoinGroup(g)
    BY <2>2 DEF JoinGroup, TypeOK, AfterGather
  <2>3. CASE ScoreGroup(g)
    <3>1. reward' \in [Sample -> BOOLEAN]
      BY <2>3 DEF ScoreGroup
    <3>2. QED BY <2>3, <3>1 DEF ScoreGroup, TypeOK
  <2>4. QED BY <1>2, <2>1, <2>2, <2>3 DEF GroupStep
<1>3. ASSUME NEW s \in Sample, SampleStep(s)
      PROVE  /\ gtask' \in [Group -> {"none", "created", "running", "scoring", "finished"}]
             /\ pc' \in [Sample -> {"idle", "ready", "inflight", "scoring", "done"}]
             /\ status' \in [Sample -> {"PENDING", "COMPLETED", "TRUNCATED", "ABORTED"}]
             /\ reward' \in [Sample -> BOOLEAN]
  <2>1. CASE Acquire(s)
    BY <2>1 DEF Acquire, TypeOK
  <2>2. CASE Score(s)
    BY <2>2 DEF Score, TypeOK
  <2>3. ASSUME NEW o \in {"COMPLETED", "TRUNCATED", "ABORTED"}, Reply(s, o)
        PROVE  /\ gtask' = gtask /\ reward' = reward
               /\ pc' \in [Sample -> {"idle", "ready", "inflight", "scoring", "done"}]
               /\ status' \in [Sample -> {"PENDING", "COMPLETED", "TRUNCATED", "ABORTED"}]
    BY <2>3 DEF Reply, TypeOK, AfterReply
  <2>4. QED BY <1>3, <2>1, <2>2, <2>3 DEF SampleStep, TypeOK
<1>4. QED BY <1>1, <1>2, <1>3 DEF TypeOK, taskFrame, sourceVars, stateVars, localVars, lostVars

\* Finite sets of groups, and the groups a fetch takes.
LEMMA GroupsFinite ==
    ASSUME NEW S \in SUBSET Group
    PROVE  IsFiniteSet(S) /\ Cardinality(S) \in Nat
<1>1. IsFiniteSet(Group)
  BY BoundAssumption, FS_Interval DEF Group
<1>2. IsFiniteSet(S)
  BY <1>1, FS_Subset
<1>3. QED BY <1>2, FS_CardinalityType

LEMMA FetchTypes ==
    ASSUME TypeOK, Fetch
    PROVE  TypeOK'
<1>1. Len(buffer) \in Nat /\ FromBuffer \in 0..Len(buffer) /\ FromBuffer <= OverSampling
  BY LenProperties, BatchAssumption DEF TypeOK, FromBuffer, MinOf
<1>2. Popped \in SUBSET Group
  <2>1. buffer \in Seq(Group) /\ DOMAIN buffer = 1..Len(buffer)
    BY LenProperties DEF TypeOK
  <2>2. \A i \in 1..FromBuffer : buffer[i] \in Group
    BY <1>1, <2>1, ElementOfSeq
  <2>3. SubSeq(buffer, 1, FromBuffer) \in Seq(Group)
    BY <1>1, <2>2, SubSeqProperties
  <2>4. QED BY <2>3, LenProperties, ElementOfSeq DEF Popped, Elements
<1>3. NewGroups \in SUBSET Group
  BY <1>1, BatchAssumption, BoundAssumption DEF Fetch, TypeOK, NewGroups, Group, Rest
<1>4. fresh' \in 1..(MaxGroup + 1)
  BY <1>1, BatchAssumption, BoundAssumption DEF Fetch, TypeOK, Rest
<1>5. buffer' \in Seq(Group)
  <2>1. SubSeq(buffer, FromBuffer + 1, Len(buffer)) \in Seq(Group)
    BY <1>1, SubSeqProperties DEF TypeOK
  <2>2. QED BY <2>1 DEF Fetch, Rest
<1>6. remaining' \in Int
  BY BatchAssumption DEF Fetch, TypeOK, Rest
<1>7. gtask' \in [Group -> {"none", "created", "running", "scoring", "finished"}]
  BY DEF Fetch, TypeOK, Rest
<1>8. QED BY <1>2, <1>3, <1>4, <1>5, <1>6, <1>7 DEF Fetch, TypeOK, localVars, lostVars, Rest
-----------------------------------------------------------------------------
(* The steps of generate_rollout_async preserve the invariant. *)

\* What a fetch submits is new to the running tasks, and exactly OverSampling
\* groups: popped ones are distinct and were waiting, new ones never existed.
LEMMA Submitted ==
    ASSUME IInv, Fetch
    PROVE  LET sub == Popped \cup NewGroups
               rest == Elements(buffer')
           IN  /\ sub \in SUBSET Group /\ IsFiniteSet(sub) /\ Cardinality(sub) = OverSampling
               /\ NoRepeats(buffer')
               /\ Popped \cup rest = Elements(buffer) /\ Popped \cap rest = {}
               /\ 1..(fresh' - 1) = (1..(fresh - 1)) \cup NewGroups
               /\ (1..(fresh - 1)) \cap NewGroups = {}
<1> DEFINE sub == Popped \cup NewGroups
<1>1. Len(buffer) \in Nat /\ FromBuffer \in 0..Len(buffer) /\ FromBuffer <= OverSampling
  BY LenProperties, BatchAssumption DEF IInv, TypeOK, FromBuffer, MinOf
<1>2. /\ NoRepeats(buffer') /\ IsFiniteSet(Popped) /\ Cardinality(Popped) = FromBuffer
      /\ Popped \cup Elements(buffer') = Elements(buffer)
      /\ Popped \cap Elements(buffer') = {}
  <2>1. buffer \in Seq(Group) /\ NoRepeats(buffer)
    BY ConservedSpelled DEF IInv, TypeOK
  <2>2. buffer' = SubSeq(buffer, FromBuffer + 1, Len(buffer))
    BY DEF Fetch, Rest
  <2>3. FromBuffer \in 0..Len(buffer)
    BY <1>1
  <2>4. QED BY <2>1, <2>2, <2>3, PopElements DEF Popped
<1>3. /\ 1..(fresh' - 1) = (1..(fresh - 1)) \cup NewGroups
      /\ (1..(fresh - 1)) \cap NewGroups = {}
  BY <1>1, BatchAssumption DEF IInv, TypeOK, Fetch, NewGroups, Rest
<1>4. IsFiniteSet(NewGroups) /\ Cardinality(NewGroups) = OverSampling - FromBuffer
  <2>1. fresh \in Int /\ OverSampling \in Int /\ FromBuffer \in Int
    BY <1>1, BatchAssumption DEF IInv, TypeOK
  <2> DEFINE last == fresh + OverSampling - FromBuffer - 1
  <2>2. last \in Int
    BY <2>1
  <2>3. /\ IsFiniteSet(fresh..last)
        /\ Cardinality(fresh..last) = IF fresh > last THEN 0 ELSE last - fresh + 1
    <3> HIDE DEF last
    <3>1. QED BY <2>1, <2>2, FS_Interval
  <2>4. QED BY <1>1, <2>1, <2>3 DEF NewGroups
<1>5. Popped \subseteq 1..(fresh - 1)
  BY <1>2, ConservedSpelled DEF IInv
<1>6. Popped \cap NewGroups = {}
  BY <1>3, <1>5
<1>7. IsFiniteSet(sub) /\ Cardinality(sub) = OverSampling
  <2>1. /\ IsFiniteSet(sub)
        /\ Cardinality(sub) = Cardinality(Popped) + Cardinality(NewGroups)
                                - Cardinality(Popped \cap NewGroups)
    BY <1>2, <1>4, FS_Union
  <2>2. Cardinality(Popped \cap NewGroups) = 0
    BY <1>6, FS_EmptySet
  <2>3. QED BY <2>1, <2>2, <1>1, <1>2, <1>4, BatchAssumption
<1>8. sub \in SUBSET Group
  <2>1. Popped \in SUBSET Group
    BY <1>5, BoundAssumption DEF IInv, TypeOK, Group
  <2>2. NewGroups \in SUBSET Group
    BY <1>1, BatchAssumption, BoundAssumption DEF Fetch, IInv, TypeOK, NewGroups, Group, Rest
  <2>3. QED BY <2>1, <2>2
<1>9. QED BY <1>2, <1>3, <1>7, <1>8

LEMMA FetchInv ==
    ASSUME IInv, Fetch
    PROVE  IInv'
<1>1. TypeOK'
  BY FetchTypes DEF IInv
<1> DEFINE sub == Popped \cup NewGroups
<1>2. /\ sub \in SUBSET Group /\ IsFiniteSet(sub) /\ Cardinality(sub) = OverSampling
      /\ NoRepeats(buffer')
      /\ Popped \cup Elements(buffer') = Elements(buffer) /\ Popped \cap Elements(buffer') = {}
      /\ 1..(fresh' - 1) = (1..(fresh - 1)) \cup NewGroups
      /\ (1..(fresh - 1)) \cap NewGroups = {}
  BY Submitted
<1>3. /\ pendings' = pendings \cup Popped \cup NewGroups
      /\ remaining' = remaining + OverSampling
      /\ UNCHANGED <<data, abortedSamples, trained, Lost, phase>>
      /\ phase = "collect" /\ Cardinality(data) < Target
  BY DEF Fetch, localVars, lostVars, Lost, Rest
<1>4. /\ 1..(fresh - 1) = pendings \cup data \cup Elements(abortedSamples)
                               \cup Elements(buffer) \cup trained \cup Lost
      /\ Apart(pendings, data, Elements(abortedSamples), Elements(buffer), trained, Lost)
      /\ NoRepeats(abortedSamples)
  BY ConservedSpelled DEF IInv
<1>5. UNCHANGED <<Elements(abortedSamples), NoRepeats(abortedSamples)>>
  BY <1>3 DEF Elements, NoRepeats
<1>6. GroupsConserved'
  <2> HIDE DEF sub
  <2>1. 1..(fresh' - 1) = pendings' \cup data' \cup Elements(abortedSamples)'
                               \cup Elements(buffer)' \cup trained' \cup Lost'
    BY <1>2, <1>3, <1>4, <1>5 DEF Elements
  <2>2. Apart(pendings', data', Elements(abortedSamples)', Elements(buffer)', trained', Lost')
    BY <1>2, <1>3, <1>4, <1>5 DEF Elements, Apart
  <2>3. NoRepeats(buffer)' /\ NoRepeats(abortedSamples)'
    BY <1>2, <1>4, <1>5 DEF NoRepeats
  <2>4. ConservedSpelled!:'
    BY ConservedSpelled, PTL
  <2>5. QED BY <2>1, <2>2, <2>3, <2>4
<1>7. Cardinality(pendings') = Cardinality(pendings) + OverSampling
  <2>1. pendings \cap sub = {}
    BY <1>2, <1>4 DEF Apart
  <2>2. IsFiniteSet(pendings) /\ Cardinality(pendings) \in Nat
    BY GroupsFinite DEF IInv, TypeOK
  <2>3. Cardinality(pendings \cup sub) = Cardinality(pendings) + Cardinality(sub)
                                            - Cardinality(pendings \cap sub)
    BY <1>2, <2>2, FS_Union
  <2>4. pendings' = pendings \cup sub
    BY <1>3
  <2>5. Cardinality(pendings \cap sub) = 0
    BY <2>1, FS_EmptySet
  <2> HIDE DEF sub
  <2>6. QED BY <1>2, <2>2, <2>3, <2>4, <2>5, BatchAssumption
<1>8. Counted'
  <2>1. Cardinality(pendings) \in Nat /\ Cardinality(data) \in Nat
    BY GroupsFinite DEF IInv, TypeOK
  <2>2. QED BY <1>3, <1>7, <2>1, BatchAssumption DEF IInv, Counted
<1>9. QED BY <1>1, <1>6, <1>8 DEF IInv

\* A batch of finished tasks: what the filter keeps is taken as long as the
\* batch has room, so while it has room nothing kept is lost and the count
\* loses exactly the dropped groups.
LEMMA CollectInv ==
    ASSUME IInv, Collect
    PROVE  IInv'
<1>1. PICK keep \in SUBSET Finished, taken \in SUBSET Finished :
        /\ taken \subseteq keep
        /\ Cardinality(taken) = MinOf(Cardinality(keep), Target - Cardinality(data))
        /\ data' = data \cup taken
        /\ surplus' = surplus \cup (keep \ taken)
        /\ dropped' = dropped \cup (Finished \ keep)
        /\ remaining' = remaining - Cardinality(Finished \ keep)
  BY DEF Collect, Room, Uncount
<1>2. /\ pendings' = pendings \ Finished /\ Finished \subseteq pendings
      /\ phase = "collect" /\ Cardinality(data) < Target
      /\ UNCHANGED <<partialRollout, sourceVars, aborted, phase, rolloutId, abortedSamples,
                     abortSent, taskVars, discarded, trained>>
  BY DEF Collect, Finished, Room, Uncount
<1>3. TypeOK
  BY DEF IInv
<1> DEFINE done == Finished
<1> HIDE DEF done
<1>4. done \subseteq pendings /\ keep \subseteq done /\ taken \subseteq keep
  BY <1>1, <1>2 DEF done
<1>5. /\ IsFiniteSet(pendings) /\ IsFiniteSet(data) /\ IsFiniteSet(done)
      /\ IsFiniteSet(keep) /\ IsFiniteSet(taken) /\ IsFiniteSet(done \ keep)
      /\ Cardinality(pendings) \in Nat /\ Cardinality(data) \in Nat
      /\ Cardinality(done) \in Nat /\ Cardinality(keep) \in Nat
      /\ Cardinality(taken) \in Nat /\ Cardinality(done \ keep) \in Nat
  <2>1. /\ pendings \in SUBSET Group /\ data \in SUBSET Group /\ done \in SUBSET Group
        /\ keep \in SUBSET Group /\ taken \in SUBSET Group /\ (done \ keep) \in SUBSET Group
    BY <1>3, <1>4 DEF TypeOK
  <2>2. QED BY <2>1, GroupsFinite
<1>6. TypeOK'
  <2>1. remaining' \in Int
    BY <1>1, <1>3, <1>5 DEF TypeOK, done
  <2>2. /\ pendings' \in SUBSET Group /\ data' \in SUBSET Group
        /\ surplus' \in SUBSET Group /\ dropped' \in SUBSET Group
    BY <1>1, <1>2, <1>3 DEF TypeOK
  <2>3. QED BY <1>2, <1>3, <2>1, <2>2 DEF TypeOK, sourceVars, taskVars
<1>7. /\ 1..(fresh - 1) = pendings \cup data \cup Elements(abortedSamples)
                               \cup Elements(buffer) \cup trained \cup Lost
      /\ Apart(pendings, data, Elements(abortedSamples), Elements(buffer), trained, Lost)
      /\ NoRepeats(buffer) /\ NoRepeats(abortedSamples)
  BY ConservedSpelled DEF IInv
<1>8. GroupsConserved'
  <2>1. UNCHANGED <<Elements(abortedSamples), Elements(buffer), NoRepeats(buffer),
                    NoRepeats(abortedSamples), trained, fresh>>
    BY <1>2 DEF Elements, NoRepeats, sourceVars
  <2>2. Lost' = Lost \cup (keep \ taken) \cup (done \ keep)
    BY <1>1, <1>2 DEF Lost, done
  <2>3. data' = data \cup taken /\ pendings' = pendings \ done
    BY <1>1, <1>2 DEF done
  <2>4. 1..(fresh' - 1) = pendings' \cup data' \cup Elements(abortedSamples)'
                             \cup Elements(buffer)' \cup trained' \cup Lost'
    BY <1>4, <1>7, <2>1, <2>2, <2>3
  <2>5. Apart(pendings', data', Elements(abortedSamples)', Elements(buffer)', trained', Lost')
    BY <1>4, <1>7, <2>1, <2>2, <2>3 DEF Apart
  <2>6. ConservedSpelled!:'
    BY ConservedSpelled, PTL
  <2>7. QED BY <1>7, <2>1, <2>4, <2>5, <2>6
<1>9. Cardinality(data') = Cardinality(data) + Cardinality(taken)
  <2>1. data \cap taken = {}
    BY <1>4, <1>7 DEF Apart
  <2>2. Cardinality(data \cup taken) = Cardinality(data) + Cardinality(taken)
                                          - Cardinality(data \cap taken)
    BY <1>5, FS_Union
  <2>3. Cardinality(data \cap taken) = 0
    BY <2>1, FS_EmptySet
  <2>4. QED BY <1>1, <1>5, <2>2, <2>3
<1>10. /\ Cardinality(pendings \ done) = Cardinality(pendings) - Cardinality(done)
       /\ Cardinality(done \ keep) = Cardinality(done) - Cardinality(keep)
  <2>1. /\ Cardinality(pendings \ done) = Cardinality(pendings) - Cardinality(pendings \cap done)
        /\ Cardinality(done \ keep) = Cardinality(done) - Cardinality(done \cap keep)
    BY <1>5, FS_Difference
  <2>2. pendings \cap done = done /\ done \cap keep = keep
    BY <1>4
  <2>3. QED BY <2>1, <2>2
<1>11. Counted'
  <2>1. /\ remaining = Cardinality(pendings) + Cardinality(data)
        /\ Target \in Nat
    BY <1>2, BatchAssumption DEF IInv, Counted
  <2>2. Cardinality(data') <= Target
    BY <1>1, <1>5, <1>9, <1>2, <2>1 DEF MinOf
  <2>3. ASSUME Cardinality(data') < Target
        PROVE  remaining' = Cardinality(pendings') + Cardinality(data')
    <3>1. Cardinality(taken) = Cardinality(keep)
      BY <1>1, <1>5, <1>9, <2>1, <2>3 DEF MinOf
    <3>2. /\ remaining' = remaining - Cardinality(done \ keep)
          /\ Cardinality(pendings') = Cardinality(pendings \ done)
      BY <1>1, <1>2 DEF done
    <3>3. QED BY <3>1, <3>2, <1>5, <1>9, <1>10, <2>1
  <2>4. QED BY <1>2, <2>2, <2>3 DEF Counted
<1>12. QED BY <1>6, <1>8, <1>11 DEF IInv
\* A drained group moves to the aborted list or is thrown away.
LEMMA DrainInv ==
    ASSUME IInv, NEW g \in Group, Drain(g)
    PROVE  IInv'
<1>1. /\ phase = "drain" /\ g \in pendings /\ pendings' = pendings \ {g}
      /\ UNCHANGED <<partialRollout, sourceVars, remaining, aborted, phase, rolloutId, data,
                     abortSent, taskVars, dropped, surplus, trained>>
  BY DEF Drain, Finished
<1>2. TypeOK
  BY DEF IInv
<1>3. /\ 1..(fresh - 1) = pendings \cup data \cup Elements(abortedSamples)
                               \cup Elements(buffer) \cup trained \cup Lost
      /\ Apart(pendings, data, Elements(abortedSamples), Elements(buffer), trained, Lost)
      /\ NoRepeats(buffer) /\ NoRepeats(abortedSamples)
  BY ConservedSpelled DEF IInv
<1>4. g \notin Elements(abortedSamples)
  BY <1>1, <1>3 DEF Apart
<1>5. /\ abortedSamples' \in Seq(Group) /\ discarded' \in SUBSET Group
      /\ NoRepeats(abortedSamples')
      /\ \/ Elements(abortedSamples') = Elements(abortedSamples) \cup {g} /\ Lost' = Lost
         \/ Elements(abortedSamples') = Elements(abortedSamples) /\ Lost' = Lost \cup {g}
  <2>1. CASE partialRollout
    <3>1. abortedSamples' = Append(abortedSamples, g) /\ discarded' = discarded
      BY <2>1 DEF Drain
    <3>2. /\ Append(abortedSamples, g) \in Seq(Group)
          /\ Elements(Append(abortedSamples, g)) = Elements(abortedSamples) \cup {g}
          /\ NoRepeats(Append(abortedSamples, g))
      BY <1>2, <1>3, <1>4, AppendElements DEF TypeOK
    <3>3. QED BY <3>1, <3>2, <1>1, <1>2 DEF TypeOK, Lost
  <2>2. CASE ~partialRollout
    BY <2>2, <1>1, <1>2, <1>3 DEF Drain, TypeOK, Lost
  <2>3. QED BY <2>1, <2>2
<1>6. TypeOK'
  BY <1>1, <1>2, <1>5 DEF TypeOK, sourceVars, taskVars
<1>7. GroupsConserved'
  <2>1. UNCHANGED <<Elements(buffer), NoRepeats(buffer), trained, fresh, data>>
    BY <1>1 DEF Elements, NoRepeats, sourceVars
  <2>2. 1..(fresh' - 1) = pendings' \cup data' \cup Elements(abortedSamples')
                             \cup Elements(buffer)' \cup trained' \cup Lost'
    BY <1>1, <1>3, <1>5, <2>1
  <2>3. Apart(pendings', data', Elements(abortedSamples'), Elements(buffer)', trained', Lost')
    BY <1>1, <1>3, <1>4, <1>5, <2>1 DEF Apart
  <2>4. ConservedSpelled!:'
    BY ConservedSpelled, PTL
  <2>5. QED BY <1>3, <1>5, <2>1, <2>2, <2>3, <2>4
<1>8. Counted'
  BY <1>1 DEF IInv, Counted
<1>9. QED BY <1>6, <1>7, <1>8 DEF IInv

\* The end of a rollout: the aborted list joins the buffer, the batch leaves.
LEMMA FinishInv ==
    ASSUME IInv, FinishRollout
    PROVE  IInv'
<1>1. /\ phase = "drain" /\ pendings = {} /\ phase' = "idle"
      /\ remaining' = 0 /\ pendings' = {} /\ aborted' = FALSE
      /\ buffer' = buffer \o abortedSamples
      /\ trained' = trained \cup data
      /\ data' = {} /\ abortedSamples' = <<>>
      /\ UNCHANGED <<partialRollout, fresh, rolloutId, abortSent, taskVars, dropped, surplus,
                     discarded>>
  BY DEF FinishRollout, Reset, Returned
<1>2. TypeOK
  BY DEF IInv
<1>3. /\ 1..(fresh - 1) = pendings \cup data \cup Elements(abortedSamples)
                               \cup Elements(buffer) \cup trained \cup Lost
      /\ Apart(pendings, data, Elements(abortedSamples), Elements(buffer), trained, Lost)
      /\ NoRepeats(buffer) /\ NoRepeats(abortedSamples)
  BY ConservedSpelled DEF IInv
<1>4. /\ buffer' \in Seq(Group) /\ NoRepeats(buffer')
      /\ Elements(buffer') = Elements(buffer) \cup Elements(abortedSamples)
  <2>1. Elements(buffer) \cap Elements(abortedSamples) = {}
    BY <1>3 DEF Apart
  <2>2. buffer \in Seq(Group) /\ abortedSamples \in Seq(Group)
    BY <1>2 DEF TypeOK
  <2>3. QED BY <1>1, <1>3, <2>1, <2>2, ConcatElements
<1>5. /\ <<>> \in Seq(Group) /\ Elements(<<>>) = {} /\ NoRepeats(<<>>)
  BY EmptySeq DEF Elements, NoRepeats
<1>6. TypeOK'
  <2>1. /\ phase' \in {"idle", "collect", "abort", "drain"} /\ rolloutId' \in 0..MaxRollouts
        /\ fresh' \in 1..(MaxGroup + 1) /\ remaining' \in Int
    BY <1>1, <1>2 DEF TypeOK
  <2>5. aborted' \in BOOLEAN /\ abortSent' \in BOOLEAN
    BY <1>1, <1>2, Zenon DEF TypeOK
  <2>2. /\ buffer' \in Seq(Group) /\ abortedSamples' \in Seq(Group)
        /\ pendings' \in SUBSET Group /\ data' \in SUBSET Group
        /\ dropped' \in SUBSET Group /\ surplus' \in SUBSET Group
        /\ discarded' \in SUBSET Group /\ trained' \in SUBSET Group
    BY <1>1, <1>2, <1>4, <1>5 DEF TypeOK
  <2>3. UNCHANGED <<partialRollout, gtask, pc, status, reward>>
    BY <1>1 DEF taskVars
  <2>4. QED BY <2>1, <2>5, <2>2, <2>3, <1>2 DEF TypeOK
<1>7. GroupsConserved'
  <2>1. Lost' = Lost
    BY <1>1 DEF Lost
  <2>2. 1..(fresh' - 1) = pendings' \cup data' \cup Elements(abortedSamples')
                             \cup Elements(buffer') \cup trained' \cup Lost'
    BY <1>1, <1>3, <1>4, <1>5, <2>1
  <2>3. Apart(pendings', data', Elements(abortedSamples'), Elements(buffer'), trained', Lost')
    BY <1>1, <1>3, <1>4, <1>5, <2>1 DEF Apart
  <2>4. ConservedSpelled!:'
    BY ConservedSpelled, PTL
  <2>5. QED BY <1>1, <1>4, <1>5, <2>2, <2>3, <2>4
<1>8. Counted'
  BY <1>1, FS_EmptySet, BatchAssumption DEF Counted
<1>9. QED BY <1>6, <1>7, <1>8 DEF IInv

\* A step that leaves every group where it is preserves conservation.
LEMMA ConservedFrame ==
    ASSUME GroupsConserved,
           UNCHANGED <<fresh, buffer, pendings, data, abortedSamples, trained,
                       dropped, surplus, discarded>>
    PROVE  GroupsConserved'
BY DEF GroupsConserved, Places, Elements, NoRepeats, Lost

LEMMA BeginInv ==
    ASSUME IInv, BeginRollout
    PROVE  IInv'
<1>1. /\ phase = "idle" /\ rolloutId < MaxRollouts
      /\ phase' = "collect" /\ rolloutId' = rolloutId + 1
      /\ data' = {} /\ abortedSamples' = <<>> /\ abortSent' = FALSE
      /\ UNCHANGED <<partialRollout, sourceVars, stateVars, taskVars, lostVars>>
  BY DEF BeginRollout
<1>2. remaining = 0 /\ pendings = {} /\ data = {} /\ abortedSamples = <<>>
  BY <1>1 DEF IInv, Counted
<1>3. TypeOK'
  <2>1. UNCHANGED <<partialRollout, fresh, buffer, remaining, pendings, aborted, data,
                    abortedSamples,
                    gtask, pc, status, reward, dropped, surplus, discarded, trained>>
    BY <1>1, <1>2 DEF sourceVars, stateVars, taskVars, lostVars
  <2>2. rolloutId' \in 0..MaxRollouts
    BY <1>1, BoundAssumption DEF IInv, TypeOK
  <2>3. QED BY <1>1, <2>1, <2>2 DEF IInv, TypeOK
<1>4. GroupsConserved'
  BY <1>1, <1>2, ConservedFrame DEF IInv, sourceVars, stateVars, lostVars
<1>5. Counted'
  BY <1>1, <1>2, FS_EmptySet, BatchAssumption DEF Counted, stateVars
<1>6. QED BY <1>3, <1>4, <1>5 DEF IInv

LEMMA AbortInv ==
    ASSUME IInv, Abort \/ SendAbort
    PROVE  IInv'
<1>1. /\ phase \in {"collect", "abort"} /\ phase' \in {"abort", "drain"}
      /\ phase = "collect" => Cardinality(data) >= Target
      /\ aborted' \in BOOLEAN /\ abortSent' \in BOOLEAN
      /\ UNCHANGED <<partialRollout, sourceVars, remaining, pendings, rolloutId, data,
                     abortedSamples, taskVars, lostVars>>
  BY DEF Abort, SendAbort, stateVars, IInv, TypeOK
<1>2. TypeOK'
  BY <1>1 DEF IInv, TypeOK, sourceVars, taskVars, lostVars
<1>3. GroupsConserved'
  BY <1>1, ConservedFrame DEF IInv, sourceVars, lostVars
<1>4. Cardinality(data) \in Nat
  BY GroupsFinite DEF IInv, TypeOK
<1>5. Counted'
  BY <1>1, <1>4, BatchAssumption DEF IInv, Counted
<1>6. QED BY <1>2, <1>3, <1>5 DEF IInv

LEMMA TaskInv ==
    ASSUME IInv,
           \/ \E g \in Group : GroupStep(g)
           \/ \E s \in Sample : SampleStep(s)
    PROVE  IInv'
<1>1. TypeOK'
  BY TaskStepTypes DEF IInv
<1>2. UNCHANGED taskFrame
  BY TaskStepFrame
<1>3. GroupsConserved'
  BY <1>2, ConservedFrame DEF IInv, taskFrame, sourceVars, stateVars, localVars, lostVars
<1>4. Counted'
  BY <1>2 DEF IInv, Counted, taskFrame, stateVars, localVars
<1>5. QED BY <1>1, <1>3, <1>4 DEF IInv

LEMMA InitInv == Init => IInv
<1> SUFFICES ASSUME Init PROVE IInv
  OBVIOUS
<1>1. /\ <<>> \in Seq(Group) /\ Elements(<<>>) = {} /\ NoRepeats(<<>>)
  BY EmptySeq DEF Elements, NoRepeats
<1>2. TypeOK
  <2>1. /\ gtask \in [Group -> {"none", "created", "running", "scoring", "finished"}]
        /\ pc \in [Sample -> {"idle", "ready", "inflight", "scoring", "done"}]
        /\ status \in [Sample -> {"PENDING", "COMPLETED", "TRUNCATED", "ABORTED"}]
        /\ reward \in [Sample -> BOOLEAN]
    BY DEF Init
  <2>2. /\ fresh \in 1..(MaxGroup + 1) /\ rolloutId \in 0..MaxRollouts
        /\ buffer \in Seq(Group) /\ abortedSamples \in Seq(Group)
    BY <1>1, BoundAssumption DEF Init
  <2>3. /\ remaining \in Int /\ phase \in {"idle", "collect", "abort", "drain"}
        /\ pendings \in SUBSET Group /\ data \in SUBSET Group
        /\ dropped \in SUBSET Group /\ surplus \in SUBSET Group
        /\ discarded \in SUBSET Group /\ trained \in SUBSET Group
    BY DEF Init
  <2>4. partialRollout \in BOOLEAN /\ aborted \in BOOLEAN /\ abortSent \in BOOLEAN
    BY Zenon DEF Init
  <2>5. QED BY <2>1, <2>2, <2>3, <2>4 DEF TypeOK
<1>3. GroupsConserved
  <2>1. 1..(fresh - 1) = {}
    BY DEF Init
  <2>2. Lost = {}
    BY DEF Init, Lost
  <2>3. QED BY <1>1, <2>1, <2>2, ConservedSpelled DEF Init, Apart
<1>4. Counted
  BY FS_EmptySet, BatchAssumption DEF Init, Counted
<1>5. QED BY <1>2, <1>3, <1>4 DEF IInv

LEMMA NextInv == IInv /\ [Next]_vars => IInv'
<1> SUFFICES ASSUME IInv, [Next]_vars PROVE IInv'
  OBVIOUS
<1>1. CASE BeginRollout
  BY <1>1, BeginInv
<1>2. CASE Fetch
  BY <1>2, FetchInv
<1>3. CASE Collect
  BY <1>3, CollectInv
<1>4. CASE Abort \/ SendAbort
  BY <1>4, AbortInv
<1>5. CASE FinishRollout
  BY <1>5, FinishInv
<1>6. CASE \E g \in Group : Drain(g)
  BY <1>6, DrainInv
<1>7. CASE (\E g \in Group : GroupStep(g)) \/ (\E s \in Sample : SampleStep(s))
  BY <1>7, TaskInv
<1>8. CASE UNCHANGED vars
  <2>1. TypeOK'
    BY <1>8 DEF IInv, TypeOK, vars, sourceVars, stateVars, localVars, taskVars, lostVars
  <2>2. GroupsConserved'
    BY <1>8, ConservedFrame DEF IInv, vars, sourceVars, stateVars, localVars, lostVars
  <2>3. Counted'
    BY <1>8 DEF IInv, Counted, vars, stateVars, localVars
  <2>4. QED BY <2>1, <2>2, <2>3 DEF IInv
<1>9. QED BY <1>1, <1>2, <1>3, <1>4, <1>5, <1>6, <1>7, <1>8 DEF Next, RolloutStep, Stopped

LEMMA Inductive == Spec => []IInv
BY InitInv, NextInv, PTL DEF Spec
-----------------------------------------------------------------------------
(* The theorems *)

\* Every variable keeps the values its code gives it (for any number of groups).
THEOREM TypeCorrect == Spec => []TypeOK
BY Inductive, PTL DEF IInv

\* No group is trained on twice, resumed after it was trained on, or lost
\* without the filter, the full batch or the abort having decided so.
THEOREM NoGroupLostOrTwice == Spec => []GroupsConserved
BY Inductive, PTL DEF IInv

\* The collect loop never calls asyncio.wait on an empty set of tasks: the
\* arithmetic of remaining_batch_size is right for every over_sampling_batch_size
\* >= rollout_batch_size and every verdict of the dynamic filter.
THEOREM NeverWaitsForNothing == Spec => []WaitNeverEmpty
<1>1. IInv => WaitNeverEmpty
  <2> SUFFICES ASSUME IInv, phase = "collect", Cardinality(data) < Target,
                      remaining >= Target, pendings = {}
               PROVE  FALSE
    BY DEF WaitNeverEmpty
  <2>1. Cardinality(pendings) = 0
    BY FS_EmptySet
  <2>2. Cardinality(data) \in Nat
    BY GroupsFinite DEF IInv, TypeOK
  <2>3. remaining = Cardinality(pendings) + Cardinality(data)
    BY DEF IInv, Counted
  <2>4. QED BY <2>1, <2>2, <2>3, BatchAssumption
<1>2. QED BY <1>1, Inductive, PTL

\* The assertion before the sort holds: the batch has exactly rollout_batch_size
\* groups even when more tasks than needed finished together.
THEOREM BatchIsExact == Spec => []ExactBatch
<1>1. IInv => ExactBatch
  BY DEF IInv, Counted, ExactBatch
<1>2. QED BY <1>1, Inductive, PTL

-----------------------------------------------------------------------------
(* The samples of a group: what a task and its coroutines may be doing, by  *)
(* where the rollout is.  A kept group is whole because its samples moved   *)
(* only while the rollout was not aborted; nothing moves once no task is    *)
(* pending, and a sample completes only on its way to a reward.             *)

\* A task that can still run is one that abort() waits for.
ActiveAwaited ==
    \A g \in Group : gtask[g] \in {"created", "running", "scoring"} => g \in pendings

IdleUnlessRunning == \A s \in Sample : gtask[s[1]] # "running" => pc[s] = "idle"

AbortFlags ==
    /\ aborted <=> phase \in {"abort", "drain"}
    /\ abortSent => phase \in {"drain", "idle"}

ScoredOrScoring ==
    ~GroupRM => \A s \in Sample : Complete(s) => reward[s] \/ pc[s] = "scoring"

CollectSamples ==
    phase = "collect" => \A s \in Sample : pc[s] \in {"scoring", "done"} => Complete(s)

CollectGroups ==
    phase = "collect" => \A s \in Sample :
        /\ s[1] \in pendings /\ gtask[s[1]] \in {"scoring", "finished"} => Complete(s)
        /\ s[1] \in pendings /\ gtask[s[1]] = "finished" => reward[s]

KeptScored == \A s \in Sample : s[1] \in data \cup trained => Complete(s) /\ reward[s]

SInv ==
    /\ ActiveAwaited /\ IdleUnlessRunning /\ AbortFlags
    /\ ScoredOrScoring /\ CollectSamples /\ CollectGroups /\ KeptScored

\* Samples are named by their group and their number in it.
LEMMA SampleGroups ==
    /\ \A s \in Sample : s[1] \in Group /\ s \in SamplesOf(s[1])
    /\ \A g \in Group : \A s \in SamplesOf(g) : s \in Sample /\ s[1] = g
BY DEF Sample, SamplesOf

\* What the invariant speaks of besides the progress of tasks and samples.
LEMMA SFrame ==
    ASSUME SInv, UNCHANGED <<taskVars, phase, pendings, aborted, abortSent, data, trained>>
    PROVE  SInv'
BY DEF SInv, ActiveAwaited, IdleUnlessRunning, AbortFlags, ScoredOrScoring, CollectSamples,
       CollectGroups, KeptScored, Complete, taskVars

LEMMA FetchSamples ==
    ASSUME IInv, SInv, Fetch
    PROVE  SInv'
<1> DEFINE sub == Popped \cup NewGroups
<1>1. /\ phase = "collect" /\ pendings' = pendings \cup sub
      /\ gtask' = [g \in Group |-> IF g \in sub THEN "created" ELSE gtask[g]]
      /\ UNCHANGED <<phase, aborted, abortSent, data, trained, pc, status, reward>>
  BY DEF Fetch, localVars, lostVars, Rest
<1>2. sub \cap pendings = {} /\ sub \subseteq Group
  <2>1. /\ sub \in SUBSET Group
        /\ Popped \subseteq Elements(buffer) /\ (1..(fresh - 1)) \cap NewGroups = {}
    BY Submitted
  <2>2. pendings \cap Elements(buffer) = {} /\ pendings \subseteq 1..(fresh - 1)
    BY ConservedSpelled DEF IInv, Apart
  <2>3. QED BY <2>1, <2>2
<1> HIDE DEF sub
<1>3. ActiveAwaited'
  BY <1>1 DEF SInv, ActiveAwaited
<1>4. IdleUnlessRunning'
  <2>1. \A s \in Sample : s[1] \in sub => gtask[s[1]] # "running"
    BY <1>2, SampleGroups DEF SInv, ActiveAwaited
  <2>2. QED BY <1>1, <2>1, SampleGroups DEF SInv, IdleUnlessRunning
<1>5. CollectGroups'
  <2>1. SUFFICES ASSUME NEW s \in Sample, s[1] \in pendings',
                        gtask'[s[1]] \in {"scoring", "finished"}
                 PROVE  Complete(s)' /\ (gtask'[s[1]] = "finished" => reward'[s])
    BY DEF CollectGroups
  <2>2. s[1] \in pendings /\ gtask'[s[1]] = gtask[s[1]]
    BY <1>1, <2>1, SampleGroups
  <2>3. QED BY <1>1, <2>1, <2>2 DEF SInv, CollectGroups, Complete
<1>6. /\ AbortFlags' /\ ScoredOrScoring' /\ CollectSamples' /\ KeptScored'
  BY <1>1 DEF SInv, AbortFlags, ScoredOrScoring, CollectSamples, KeptScored, Complete
<1>7. QED BY <1>3, <1>4, <1>5, <1>6 DEF SInv

LEMMA CollectSInv ==
    ASSUME IInv, SInv, Collect
    PROVE  SInv'
<1>1. PICK taken \in SUBSET Finished : data' = data \cup taken
  BY DEF Collect, Room, Uncount
<1>2. /\ phase = "collect" /\ pendings' = pendings \ Finished
      /\ UNCHANGED <<phase, aborted, abortSent, trained, gtask, pc, status, reward>>
  BY DEF Collect, taskVars, Room, Uncount
<1>3. ActiveAwaited'
  BY <1>2 DEF SInv, ActiveAwaited, Finished
<1>4. KeptScored'
  <2>1. SUFFICES ASSUME NEW s \in Sample, s[1] \in data' \cup trained'
                 PROVE  (Complete(s) /\ reward[s])'
    BY DEF KeptScored
  <2>2. CASE s[1] \in taken
    <3>1. s[1] \in pendings /\ gtask[s[1]] = "finished"
      BY <1>1, <2>2 DEF Finished
    <3>2. QED BY <1>2, <3>1 DEF SInv, CollectGroups, Complete
  <2>3. CASE s[1] \notin taken
    BY <1>1, <1>2, <2>1, <2>3 DEF SInv, KeptScored, Complete
  <2>4. QED BY <2>2, <2>3
<1>5. CollectGroups'
  BY <1>2 DEF SInv, CollectGroups, Complete
<1>6. IdleUnlessRunning' /\ AbortFlags' /\ ScoredOrScoring' /\ CollectSamples'
  BY <1>2 DEF SInv, IdleUnlessRunning, AbortFlags, ScoredOrScoring, CollectSamples, Complete
<1>7. QED BY <1>3, <1>4, <1>5, <1>6 DEF SInv

\* The steps outside the collect loop: no batch grows but by what was kept.
LEMMA OuterSInv ==
    ASSUME IInv, SInv,
           BeginRollout \/ Abort \/ SendAbort \/ FinishRollout \/ \E g \in Group : Drain(g)
    PROVE  SInv'
<1>1. /\ UNCHANGED <<gtask, pc, status, reward>>
      /\ data' \cup trained' \subseteq data \cup trained
  BY DEF BeginRollout, Abort, SendAbort, FinishRollout, Drain, taskVars, lostVars
<1>2. /\ ScoredOrScoring' /\ IdleUnlessRunning' /\ KeptScored'
  BY <1>1 DEF SInv, ScoredOrScoring, IdleUnlessRunning, KeptScored, Complete
<1>3. ActiveAwaited'
  <2>1. CASE \E g \in Group : Drain(g)
    BY <1>1, <2>1 DEF Drain, Finished, SInv, ActiveAwaited
  <2>2. CASE FinishRollout
    BY <1>1, <2>2 DEF FinishRollout, Reset, SInv, ActiveAwaited
  <2>3. CASE BeginRollout \/ Abort \/ SendAbort
    BY <1>1, <2>3 DEF BeginRollout, Abort, SendAbort, stateVars, SInv, ActiveAwaited
  <2>4. QED BY <2>1, <2>2, <2>3
<1>4. AbortFlags'
  <2>1. CASE BeginRollout
    BY <2>1 DEF BeginRollout, stateVars, SInv, AbortFlags
  <2>2. CASE Abort
    BY <2>2 DEF Abort, SInv, AbortFlags
  <2>3. CASE SendAbort
    BY <2>3 DEF SendAbort, stateVars, SInv, AbortFlags
  <2>4. CASE FinishRollout
    BY <2>4 DEF FinishRollout, Reset, SInv, AbortFlags
  <2>5. CASE \E g \in Group : Drain(g)
    BY <2>5 DEF Drain, SInv, AbortFlags
  <2>6. QED BY <2>1, <2>2, <2>3, <2>4, <2>5
<1>5. CollectSamples' /\ CollectGroups'
  <2>1. CASE BeginRollout
    <3>1. pendings = {} /\ pendings' = {}
      BY <2>1 DEF BeginRollout, stateVars, IInv, Counted
    <3>2. \A s \in Sample : pc[s] = "idle"
      <4>1. \A s \in Sample : gtask[s[1]] # "running"
        BY <3>1, SampleGroups DEF SInv, ActiveAwaited
      <4>2. QED BY <4>1 DEF SInv, IdleUnlessRunning
    <3>3. CollectSamples'
      BY <1>1, <3>2 DEF CollectSamples
    <3>4. CollectGroups'
      BY <3>1 DEF CollectGroups
    <3>5. QED BY <3>3, <3>4
  <2>2. CASE Abort \/ SendAbort \/ FinishRollout \/ \E g \in Group : Drain(g)
    <3>1. phase' # "collect"
      BY <2>2 DEF Abort, SendAbort, FinishRollout, Drain
    <3>2. QED BY <3>1 DEF CollectSamples, CollectGroups
  <2>3. QED BY <2>1, <2>2
<1>6. QED BY <1>2, <1>3, <1>4, <1>5 DEF SInv

\* What a step of a task or of a sample leaves alone.
LEMMA GroupStepSInv ==
    ASSUME IInv, SInv, NEW g \in Group, GroupStep(g)
    PROVE  SInv'
<1>1. UNCHANGED <<phase, pendings, aborted, abortSent, data, trained, status>>
  BY DEF GroupStep, StartGroup, JoinGroup, ScoreGroup, stateVars, localVars, lostVars
<1>2. AbortFlags'
  BY <1>1 DEF SInv, AbortFlags
<1>3. /\ gtask \in [Group -> {"none", "created", "running", "scoring", "finished"}]
      /\ pc \in [Sample -> {"idle", "ready", "inflight", "scoring", "done"}]
      /\ reward \in [Sample -> BOOLEAN]
  BY DEF IInv, TypeOK
<1>4. g \in pendings /\ g \notin data \cup trained
  <2>1. g \in pendings
    BY DEF GroupStep, StartGroup, JoinGroup, ScoreGroup, SInv, ActiveAwaited
  <2>2. pendings \cap data = {} /\ pendings \cap trained = {}
    BY ConservedSpelled DEF IInv, Apart
  <2>3. QED BY <2>1, <2>2
<1>5. \A s \in Sample : s \in SamplesOf(g) <=> s[1] = g
  BY SampleGroups
<1>6. \A s \in Sample : s[1] \in Group
  BY SampleGroups
<1>7. CASE StartGroup(g) /\ aborted
  <2>1. /\ gtask[g] = "created" /\ gtask' = [gtask EXCEPT ![g] = "finished"]
        /\ UNCHANGED <<pc, reward>>
    BY <1>7 DEF StartGroup
  <2>2. phase' # "collect"
    BY <1>1, <1>7 DEF SInv, AbortFlags
  <2>3. ActiveAwaited'
    BY <1>1, <1>3, <2>1 DEF SInv, ActiveAwaited
  <2>4. IdleUnlessRunning'
    BY <1>3, <1>6, <2>1 DEF SInv, IdleUnlessRunning
  <2>5. CollectSamples' /\ CollectGroups'
    BY <2>2 DEF CollectSamples, CollectGroups
  <2>6. ScoredOrScoring' /\ KeptScored'
    BY <1>1, <2>1 DEF SInv, ScoredOrScoring, KeptScored, Complete
  <2>7. QED BY <1>2, <2>3, <2>4, <2>5, <2>6 DEF SInv
<1>8. CASE StartGroup(g) /\ ~aborted
  <2>1. /\ gtask[g] = "created" /\ gtask' = [gtask EXCEPT ![g] = "running"]
        /\ reward' = reward
        /\ pc' = [s \in Sample |-> IF s \notin SamplesOf(g) THEN pc[s]
                                   ELSE IF Complete(s) THEN "done" ELSE "ready"]
    BY <1>8 DEF StartGroup
  <2>2. \A s \in Sample : s[1] # g => pc'[s] = pc[s]
    BY <1>5, <2>1
  <2>3. \A s \in Sample : s[1] = g => pc[s] = "idle" /\ pc'[s] # "idle"
                                      /\ pc'[s] # "scoring" /\ (pc'[s] = "done" => Complete(s))
    BY <1>5, <2>1 DEF SInv, IdleUnlessRunning
  <2>4. ActiveAwaited'
    BY <1>1, <1>3, <1>4, <2>1 DEF SInv, ActiveAwaited
  <2>5. IdleUnlessRunning'
    BY <1>3, <1>6, <2>1, <2>2 DEF SInv, IdleUnlessRunning
  <2>6. ScoredOrScoring'
    BY <1>1, <2>1, <2>2, <2>3 DEF SInv, ScoredOrScoring, Complete
  <2>7. CollectSamples'
    BY <1>1, <2>2, <2>3 DEF SInv, CollectSamples, Complete
  <2>8. CollectGroups'
    BY <1>1, <1>3, <1>6, <2>1 DEF SInv, CollectGroups, Complete
  <2>9. KeptScored'
    BY <1>1, <2>1 DEF SInv, KeptScored, Complete
  <2>10. QED BY <1>2, <2>4, <2>5, <2>6, <2>7, <2>8, <2>9 DEF SInv
<1>9. CASE JoinGroup(g)
  <2>1. /\ gtask[g] = "running" /\ \A s \in SamplesOf(g) : pc[s] = "done"
        /\ gtask' = [gtask EXCEPT ![g] = AfterGather]
        /\ reward' = reward
        /\ pc' = [s \in Sample |-> IF s \in SamplesOf(g) THEN "idle" ELSE pc[s]]
    BY <1>9 DEF JoinGroup
  <2>2. /\ \A s \in Sample : s[1] # g => pc'[s] = pc[s]
        /\ \A s \in Sample : s[1] = g => pc[s] = "done" /\ pc'[s] = "idle"
    BY <1>5, <2>1
  <2>3. AfterGather \in {"scoring", "finished"}
        /\ (~aborted /\ AfterGather = "finished" => ~GroupRM)
    BY DEF AfterGather
  <2>4. gtask'[g] = AfterGather /\ \A h \in Group : h # g => gtask'[h] = gtask[h]
    BY <1>3, <2>1
  <2>5. ActiveAwaited'
    BY <1>1, <1>4, <2>4 DEF SInv, ActiveAwaited
  <2>6. IdleUnlessRunning'
    BY <1>6, <2>2, <2>4 DEF SInv, IdleUnlessRunning
  <2>7. ScoredOrScoring'
    BY <1>1, <2>1, <2>2 DEF SInv, ScoredOrScoring, Complete
  <2>8. CollectSamples'
    BY <1>1, <2>2 DEF SInv, CollectSamples, Complete
  <2>9. CollectGroups'
    <3>1. SUFFICES ASSUME phase = "collect", NEW s \in Sample, s[1] \in pendings,
                          gtask'[s[1]] \in {"scoring", "finished"}
                   PROVE  Complete(s) /\ (gtask'[s[1]] = "finished" => reward[s])
      BY <1>1, <2>1 DEF CollectGroups, Complete
    <3>2. CASE s[1] # g
      BY <1>6, <2>4, <3>1, <3>2 DEF SInv, CollectGroups
    <3>3. CASE s[1] = g
      <4>1. Complete(s)
        BY <2>2, <3>1, <3>3 DEF SInv, CollectSamples
      <4>2. ~aborted
        BY <3>1 DEF SInv, AbortFlags
      <4>3. gtask'[s[1]] = "finished" => ~GroupRM
        BY <2>3, <2>4, <3>3, <4>2
      <4>4. ~GroupRM => reward[s]
        BY <2>2, <3>3, <4>1 DEF SInv, ScoredOrScoring
      <4>5. QED BY <4>1, <4>3, <4>4
    <3>4. QED BY <3>2, <3>3
  <2>10. KeptScored'
    BY <1>1, <2>1 DEF SInv, KeptScored, Complete
  <2>11. QED BY <1>2, <2>5, <2>6, <2>7, <2>8, <2>9, <2>10 DEF SInv
<1>10. CASE ScoreGroup(g)
  <2>1. /\ gtask[g] = "scoring" /\ gtask' = [gtask EXCEPT ![g] = "finished"]
        /\ pc' = pc
        /\ reward' = [s \in Sample |-> s \in SamplesOf(g) \/ reward[s]]
    BY <1>10 DEF ScoreGroup
  <2>2. gtask'[g] = "finished" /\ \A h \in Group : h # g => gtask'[h] = gtask[h]
    BY <1>3, <2>1
  <2>3. \A s \in Sample : (reward[s] => reward'[s]) /\ (s[1] = g => reward'[s])
    BY <1>5, <2>1
  <2>4. ActiveAwaited'
    BY <1>1, <2>2 DEF SInv, ActiveAwaited
  <2>5. IdleUnlessRunning'
    BY <1>6, <2>1, <2>2 DEF SInv, IdleUnlessRunning
  <2>6. ScoredOrScoring' /\ KeptScored'
    BY <1>1, <2>1, <2>3 DEF SInv, ScoredOrScoring, KeptScored, Complete
  <2>7. CollectSamples'
    BY <1>1, <2>1 DEF SInv, CollectSamples, Complete
  <2>8. CollectGroups'
    <3>1. SUFFICES ASSUME phase = "collect", NEW s \in Sample, s[1] \in pendings,
                          gtask'[s[1]] \in {"scoring", "finished"}
                   PROVE  Complete(s) /\ (gtask'[s[1]] = "finished" => reward'[s])
      BY <1>1 DEF CollectGroups, Complete
    <3>2. gtask[s[1]] \in {"scoring", "finished"}
      BY <1>6, <2>1, <2>2, <3>1
    <3>3. Complete(s)
      BY <3>1, <3>2 DEF SInv, CollectGroups
    <3>4. gtask'[s[1]] = "finished" => reward'[s]
      BY <1>6, <2>2, <2>3, <3>1 DEF SInv, CollectGroups
    <3>5. QED BY <3>3, <3>4
  <2>9. QED BY <1>2, <2>4, <2>5, <2>6, <2>7, <2>8 DEF SInv
<1>11. QED BY <1>7, <1>8, <1>9, <1>10 DEF GroupStep

\* A sample moves only while its group's task runs, so it is in no batch.
LEMMA SampleStepSInv ==
    ASSUME IInv, SInv, NEW s \in Sample, SampleStep(s)
    PROVE  SInv'
<1>1. UNCHANGED <<phase, pendings, aborted, abortSent, data, trained, gtask>>
  BY DEF SampleStep, Acquire, Score, Reply, stateVars, localVars, lostVars
<1>2. /\ pc \in [Sample -> {"idle", "ready", "inflight", "scoring", "done"}]
      /\ status \in [Sample -> {"PENDING", "COMPLETED", "TRUNCATED", "ABORTED"}]
      /\ reward \in [Sample -> BOOLEAN]
  BY DEF IInv, TypeOK
<1>3. pc[s] # "idle"
  BY DEF SampleStep, Acquire, Score, Reply
<1>4. gtask[s[1]] = "running"
  BY <1>3 DEF SInv, IdleUnlessRunning
<1>5. s[1] \notin data \cup trained
  <2>1. s[1] \in pendings
    BY <1>4, SampleGroups DEF SInv, ActiveAwaited
  <2>2. pendings \cap data = {} /\ pendings \cap trained = {}
    BY ConservedSpelled DEF IInv, Apart
  <2>3. QED BY <2>1, <2>2
<1>6. \A t \in Sample : t # s =>
          pc'[t] = pc[t] /\ status'[t] = status[t] /\ reward'[t] = reward[t]
  <2>1. CASE Acquire(s)
    BY <1>2, <2>1 DEF Acquire
  <2>2. CASE Score(s)
    BY <1>2, <2>2 DEF Score
  <2>3. CASE \E o \in {"COMPLETED", "TRUNCATED", "ABORTED"} : Reply(s, o)
    BY <1>2, <2>3 DEF Reply
  <2>4. QED BY <2>1, <2>2, <2>3 DEF SampleStep
\* The sample itself: it completes on its way to a reward, and in the collect
\* loop nothing else ends it.
<1>7. /\ ~GroupRM => (Complete(s)' => reward'[s] \/ pc'[s] = "scoring")
      /\ phase = "collect" => (pc'[s] \in {"scoring", "done"} => Complete(s)')
  <2>1. CASE Acquire(s)
    <3>1. CASE aborted
      <4>1. status' = [status EXCEPT ![s] = "ABORTED"]
        BY <2>1, <3>1 DEF Acquire
      <4>2. status'[s] = "ABORTED" /\ phase # "collect"
        BY <1>2, <3>1, <4>1 DEF SInv, AbortFlags
      <4>3. QED BY <4>2 DEF Complete
    <3>2. CASE ~aborted
      <4>1. pc' = [pc EXCEPT ![s] = "inflight"] /\ pc[s] = "ready"
            /\ status' = status /\ reward' = reward
        BY <2>1, <3>2 DEF Acquire
      <4>2. pc'[s] = "inflight"
        BY <1>2, <4>1
      <4>3. QED BY <4>1, <4>2 DEF SInv, ScoredOrScoring, Complete
    <3>3. QED BY <3>1, <3>2
  <2>2. CASE Score(s)
    <3>1. pc[s] = "scoring" /\ reward' = [reward EXCEPT ![s] = TRUE] /\ status' = status
      BY <2>2 DEF Score
    <3>2. reward'[s] = TRUE
      BY <1>2, <3>1
    <3>3. QED BY <3>1, <3>2 DEF SInv, CollectSamples, Complete
  <2>3. ASSUME NEW o \in {"COMPLETED", "TRUNCATED", "ABORTED"}, Reply(s, o)
        PROVE  /\ ~GroupRM => (Complete(s)' => reward'[s] \/ pc'[s] = "scoring")
               /\ phase = "collect" => (pc'[s] \in {"scoring", "done"} => Complete(s)')
    <3>1. /\ o = "ABORTED" => abortSent
          /\ status' = [status EXCEPT ![s] = o] /\ reward' = reward
          /\ pc' = [pc EXCEPT ![s] = AfterReply(s, o)]
      BY <2>3 DEF Reply
    <3>2. status'[s] = o /\ pc'[s] = AfterReply(s, o)
      BY <1>2, <3>1
    <3>3. ~GroupRM /\ o # "ABORTED" => reward[s] \/ AfterReply(s, o) = "scoring"
      BY DEF AfterReply
    <3>4. phase = "collect" => o # "ABORTED"
      BY <3>1 DEF SInv, AbortFlags
    <3>5. Complete(s)' <=> o # "ABORTED"
      BY <3>2 DEF Complete
    <3>6. QED BY <3>1, <3>2, <3>3, <3>4, <3>5
  <2>4. QED BY <2>1, <2>2, <2>3 DEF SampleStep
<1>8. ActiveAwaited' /\ AbortFlags'
  BY <1>1 DEF SInv, ActiveAwaited, AbortFlags
<1>9. IdleUnlessRunning'
  BY <1>1, <1>4, <1>6 DEF SInv, IdleUnlessRunning
<1>10. ScoredOrScoring'
  BY <1>6, <1>7 DEF SInv, ScoredOrScoring, Complete
<1>11. CollectSamples'
  BY <1>1, <1>6, <1>7 DEF SInv, CollectSamples, Complete
<1>12. CollectGroups'
  BY <1>1, <1>4, <1>6 DEF SInv, CollectGroups, Complete
<1>13. KeptScored'
  BY <1>1, <1>5, <1>6 DEF SInv, KeptScored, Complete
<1>14. QED BY <1>8, <1>9, <1>10, <1>11, <1>12, <1>13 DEF SInv

LEMMA InitSInv == Init => SInv
<1> SUFFICES ASSUME Init PROVE SInv
  OBVIOUS
<1>1. /\ \A g \in Group : gtask[g] = "none"
      /\ \A s \in Sample : pc[s] = "idle" /\ status[s] = "PENDING"
      /\ phase = "idle" /\ aborted = FALSE /\ data = {} /\ trained = {}
  BY DEF Init
<1>2. QED
  BY <1>1 DEF SInv, ActiveAwaited, IdleUnlessRunning, AbortFlags, ScoredOrScoring,
              CollectSamples, CollectGroups, KeptScored, Complete

LEMMA NextSInv == IInv /\ SInv /\ [Next]_vars => SInv'
<1> SUFFICES ASSUME IInv, SInv, [Next]_vars PROVE SInv'
  OBVIOUS
<1>1. CASE Fetch
  BY <1>1, FetchSamples
<1>2. CASE Collect
  BY <1>2, CollectSInv
<1>3. CASE BeginRollout \/ Abort \/ SendAbort \/ FinishRollout \/ \E g \in Group : Drain(g)
  BY <1>3, OuterSInv
<1>4. CASE \E g \in Group : GroupStep(g)
  BY <1>4, GroupStepSInv
<1>5. CASE \E s \in Sample : SampleStep(s)
  BY <1>5, SampleStepSInv
<1>6. CASE UNCHANGED vars
  BY <1>6, SFrame DEF vars, stateVars, localVars, lostVars
<1>7. QED BY <1>1, <1>2, <1>3, <1>4, <1>5, <1>6 DEF Next, RolloutStep, Stopped

LEMMA SInductive == Spec => [](IInv /\ SInv)
<1>1. Init => IInv /\ SInv
  BY InitInv, InitSInv
<1>2. IInv /\ SInv /\ [Next]_vars => (IInv /\ SInv)'
  BY NextInv, NextSInv
<1>3. QED BY <1>1, <1>2, PTL DEF Spec

\* A batch holds whole groups: every sample ended by itself and has a reward,
\* for any number of samples, oversampling and rollouts a group was resumed in.
THEOREM BatchIsScored == Spec => []BatchScored
<1>1. IInv /\ SInv => BatchScored
  <2>1. SUFFICES ASSUME IInv, SInv, NEW g \in data \cup trained, NEW s \in SamplesOf(g)
                 PROVE  Complete(s) /\ reward[s]
    BY DEF BatchScored
  <2>2. g \in Group
    BY <2>1 DEF IInv, TypeOK
  <2>3. s \in Sample /\ s[1] = g
    BY <2>2, SampleGroups
  <2>4. QED BY <2>1, <2>3 DEF SInv, KeptScored
<1>2. QED BY <1>1, SInductive, PTL

\* A sample that completed while its rollout was aborted has its reward when its
\* group is handed back, which generate_and_rm asserts when the group is resumed.
THEOREM ResumedIsScored == Spec => []ResumedScored
<1>1. IInv /\ SInv => ResumedScored
  <2>1. SUFFICES ASSUME IInv, SInv, ~GroupRM,
                        NEW g \in Elements(buffer) \cup Elements(abortedSamples),
                        NEW s \in SamplesOf(g), Complete(s)
                 PROVE  reward[s]
    BY DEF ResumedScored
  <2>2. g \in Group /\ g \notin pendings
    <3>1. /\ 1..(fresh - 1) = pendings \cup data \cup Elements(abortedSamples)
                                 \cup Elements(buffer) \cup trained \cup Lost
          /\ Apart(pendings, data, Elements(abortedSamples), Elements(buffer), trained, Lost)
      BY <2>1, ConservedSpelled DEF IInv
    <3>2. g \in 1..(fresh - 1)
      BY <2>1, <3>1
    <3>3. fresh \in 1..(MaxGroup + 1)
      BY <2>1 DEF IInv, TypeOK
    <3>4. g \in Group
      BY <3>2, <3>3, BoundAssumption DEF Group
    <3>5. g \notin pendings
      BY <2>1, <3>1 DEF Apart
    <3>6. QED BY <3>4, <3>5
  <2>3. s \in Sample /\ s[1] = g
    BY <2>2, SampleGroups
  <2>4. gtask[g] # "running"
    BY <2>1, <2>2 DEF SInv, ActiveAwaited
  <2>5. pc[s] = "idle"
    BY <2>1, <2>3, <2>4 DEF SInv, IdleUnlessRunning
  <2>6. QED BY <2>1, <2>3, <2>5 DEF SInv, ScoredOrScoring
<1>2. QED BY <1>1, SInductive, PTL

\* No sample is at an engine, and GenerateState is as new, when a rollout has
\* returned: the weights can be updated and the engines offloaded.
THEOREM IdleIsQuiescent == Spec => []QuiescentWhenIdle
<1>1. IInv /\ SInv => QuiescentWhenIdle
  <2>1. SUFFICES ASSUME IInv, SInv, phase = "idle"
                 PROVE  /\ remaining = 0 /\ pendings = {} /\ ~aborted
                        /\ \A s \in Sample : pc[s] = "idle"
    BY DEF QuiescentWhenIdle
  <2>2. remaining = 0 /\ pendings = {}
    BY <2>1 DEF IInv, Counted
  <2>3. ~aborted
    BY <2>1 DEF SInv, AbortFlags
  <2>4. \A s \in Sample : gtask[s[1]] # "running"
    BY <2>1, <2>2, SampleGroups DEF SInv, ActiveAwaited
  <2>5. QED BY <2>1, <2>2, <2>3, <2>4 DEF SInv, IdleUnlessRunning
<1>2. QED BY <1>1, SInductive, PTL

-----------------------------------------------------------------------------
(* Rollout generation implements the ledger of groups. *)

runningGroups == pendings \cup data \cup Elements(abortedSamples)

\* The parts of conservation a step of the ledger rests on.
LEMMA LedgerParts ==
    ASSUME IInv
    PROVE  /\ 1..(fresh - 1) = runningGroups \cup Elements(buffer) \cup trained \cup Lost
           /\ runningGroups \cap Elements(buffer) = {} /\ runningGroups \cap trained = {}
           /\ runningGroups \cap Lost = {} /\ Elements(buffer) \cap (trained \cup Lost) = {}
           /\ data \cap trained = {} /\ data \cap pendings = {}
           /\ data \cap Elements(abortedSamples) = {}
BY ConservedSpelled DEF IInv, Apart, runningGroups

\* A fetch starts waiting groups and groups never seen.
LEMMA FetchStarts ==
    ASSUME IInv, Fetch
    PROVE  Ledger!Start
<1>1. /\ Popped \cup Elements(buffer') = Elements(buffer) /\ Popped \cap Elements(buffer') = {}
      /\ (1..(fresh - 1)) \cap NewGroups = {}
  BY Submitted
<1>2. /\ pendings' = pendings \cup Popped \cup NewGroups
      /\ UNCHANGED <<data, abortedSamples, trained, Lost>>
  BY DEF Fetch, localVars, lostVars, Lost, Rest
<1>3. runningGroups' = runningGroups \cup Popped \cup NewGroups
  BY <1>2 DEF runningGroups, Elements
<1>4. Elements(buffer)' = Elements(buffer')
  BY DEF Elements
<1>5. QED
  BY <1>1, <1>2, <1>3, <1>4, LedgerParts DEF Ledger!Start, runningGroups

\* Collecting rejects groups or finds them superfluous; the rest stays running.
LEMMA CollectLoses ==
    ASSUME IInv, Collect
    PROVE  Ledger!Lose
<1>1. PICK keep \in SUBSET Finished : \E taken \in SUBSET keep :
         /\ data' = data \cup taken
         /\ surplus' = surplus \cup (keep \ taken)
         /\ dropped' = dropped \cup (Finished \ keep)
  BY DEF Collect, Room, Uncount
<1>2. PICK taken \in SUBSET keep :
         /\ data' = data \cup taken
         /\ surplus' = surplus \cup (keep \ taken)
         /\ dropped' = dropped \cup (Finished \ keep)
  BY <1>1
<1>3. /\ pendings' = pendings \ Finished
      /\ UNCHANGED <<buffer, abortedSamples, trained, discarded>>
  BY DEF Collect, sourceVars, Room, Uncount
<1>4. Finished \subseteq pendings
  BY DEF Finished
<1>5. Lost' = Lost \cup (Finished \ taken)
  BY <1>2, <1>3 DEF Lost
<1>6. runningGroups' = runningGroups \ (Finished \ taken)
  <2>1. runningGroups' = (pendings \ Finished) \cup data \cup taken \cup Elements(abortedSamples)
    BY <1>2, <1>3 DEF runningGroups, Elements
  <2>2. Finished \cap data = {} /\ Finished \cap Elements(abortedSamples) = {}
    BY <1>4, ConservedSpelled DEF IInv, Apart
  <2> HIDE DEF Finished
  <2>3. QED BY <1>2, <1>4, <2>1, <2>2 DEF runningGroups
<1>7. Elements(buffer)' = Elements(buffer) /\ trained' = trained
  BY <1>3 DEF Elements
<1>8. Finished \ taken \subseteq runningGroups
  BY <1>4 DEF runningGroups
<1>9. runningGroups \cap Lost = {}
  BY LedgerParts
<1> HIDE DEF Finished
<1>10. /\ Lost \subseteq Lost' /\ Lost' \ Lost \subseteq runningGroups
       /\ runningGroups' = runningGroups \ Lost'
  BY <1>5, <1>6, <1>8, <1>9
<1>11. QED BY <1>7, <1>10 DEF Ledger!Lose, runningGroups

\* A drained group stays running until the rollout ends, or is thrown away.
LEMMA DrainLosesOrStutters ==
    ASSUME IInv, NEW g \in Group, Drain(g)
    PROVE  Ledger!Lose \/ UNCHANGED Ledger!ledger
<1>1. /\ g \in pendings /\ pendings' = pendings \ {g}
      /\ UNCHANGED <<buffer, data, trained, dropped, surplus>>
  BY DEF Drain, Finished, sourceVars
<1>2. Elements(buffer)' = Elements(buffer)
  BY <1>1 DEF Elements
<1>3. g \notin data /\ g \notin Elements(abortedSamples) /\ g \notin Lost
  BY <1>1, ConservedSpelled DEF IInv, Apart
<1>4. CASE partialRollout
  <2>1. abortedSamples' = Append(abortedSamples, g) /\ discarded' = discarded
    BY <1>4 DEF Drain
  <2>2. Elements(Append(abortedSamples, g)) = Elements(abortedSamples) \cup {g}
    BY AppendElements DEF IInv, TypeOK
  <2>3. Elements(abortedSamples)' = Elements(abortedSamples) \cup {g}
    BY <2>1, <2>2 DEF Elements
  <2>4. runningGroups' = runningGroups
    BY <1>1, <2>3 DEF runningGroups
  <2>5. Lost' = Lost
    BY <1>1, <2>1 DEF Lost
  <2>6. QED BY <1>1, <1>2, <2>4, <2>5 DEF Ledger!ledger, runningGroups
<1>5. CASE ~partialRollout
  <2>1. discarded' = discarded \cup {g} /\ abortedSamples' = abortedSamples
    BY <1>5 DEF Drain
  <2>2. Lost' = Lost \cup {g}
    BY <1>1, <2>1 DEF Lost
  <2>3. runningGroups' = runningGroups \ {g}
    BY <1>1, <1>3, <2>1 DEF runningGroups, Elements
  <2>4. g \in runningGroups
    BY <1>1 DEF runningGroups
  <2>5. runningGroups \cap Lost = {}
    BY LedgerParts
  <2>6. /\ Lost \subseteq Lost' /\ Lost' \ Lost \subseteq runningGroups
        /\ runningGroups' = runningGroups \ Lost'
    BY <2>2, <2>3, <2>4, <2>5
  <2>7. QED BY <1>1, <1>2, <2>6 DEF Ledger!Lose, runningGroups
<1>6. QED BY <1>4, <1>5

\* The end of a rollout delivers its batch; everything else running waits again.
LEMMA FinishDelivers ==
    ASSUME IInv, FinishRollout
    PROVE  Ledger!Deliver
<1>1. /\ phase = "drain" /\ pendings = {} /\ pendings' = {}
      /\ buffer' = buffer \o abortedSamples
      /\ trained' = trained \cup data
      /\ data' = {} /\ abortedSamples' = <<>>
      /\ UNCHANGED <<dropped, surplus, discarded>>
  BY DEF FinishRollout, Reset, Returned
<1>2. Elements(buffer') = Elements(buffer) \cup Elements(abortedSamples)
  BY <1>1, ConcatElements DEF IInv, TypeOK
<1>3. trained' \ trained = data /\ Cardinality(data) = Target
  BY <1>1, LedgerParts DEF IInv, Counted
<1>4. runningGroups' = {}
  BY <1>1 DEF runningGroups, Elements
<1>5. runningGroups \ data = Elements(abortedSamples)
  BY <1>1, LedgerParts DEF runningGroups
<1>6. Elements(buffer)' = Elements(buffer) \cup (runningGroups \ data)
  BY <1>2, <1>5 DEF Elements
<1>7. Lost' = Lost
  BY <1>1 DEF Lost
<1>8. trained \subseteq trained' /\ data \subseteq runningGroups
  BY <1>1 DEF runningGroups
<1>9. /\ trained' \ trained \subseteq runningGroups
      /\ Cardinality(trained' \ trained) = Target
      /\ Elements(buffer)' = Elements(buffer) \cup (runningGroups \ (trained' \ trained))
  BY <1>3, <1>6, <1>8
<1>10. Ledger!Cardinality(trained' \ trained) = Cardinality(trained' \ trained)
  BY DEF Ledger!Cardinality, Cardinality
<1>11. QED BY <1>10, <1>4, <1>7, <1>8, <1>9, Zenon DEF Ledger!Deliver, runningGroups

\* The other steps leave every group where it is.
LEMMA OthersStutter ==
    ASSUME IInv,
           \/ BeginRollout \/ Abort \/ SendAbort \/ UNCHANGED vars
           \/ \E g \in Group : GroupStep(g)
           \/ \E s \in Sample : SampleStep(s)
    PROVE  UNCHANGED Ledger!ledger
<1>1. UNCHANGED <<buffer, pendings, data, abortedSamples, trained, dropped, surplus, discarded>>
  <2>1. CASE BeginRollout
    <3>1. data = {} /\ abortedSamples = <<>>
      BY <2>1 DEF BeginRollout, IInv, Counted
    <3>2. QED BY <2>1, <3>1 DEF BeginRollout, sourceVars, stateVars, lostVars
  <2>2. CASE Abort \/ SendAbort
    BY <2>2 DEF Abort, SendAbort, sourceVars, stateVars, lostVars
  <2>3. CASE UNCHANGED vars
    BY <2>3 DEF vars, sourceVars, stateVars, localVars, lostVars
  <2>4. CASE (\E g \in Group : GroupStep(g)) \/ (\E s \in Sample : SampleStep(s))
    BY <2>4, TaskStepFrame DEF taskFrame, sourceVars, stateVars, localVars, lostVars
  <2>5. QED BY <2>1, <2>2, <2>3, <2>4
<1>2. QED BY <1>1 DEF Ledger!ledger, Elements, Lost

LEMMA LedgerStep ==
    IInv /\ [Next]_vars => [Ledger!Start \/ Ledger!Lose \/ Ledger!Deliver]_(Ledger!ledger)
<1> SUFFICES ASSUME IInv, [Next]_vars
             PROVE  [Ledger!Start \/ Ledger!Lose \/ Ledger!Deliver]_(Ledger!ledger)
  OBVIOUS
<1>1. CASE Fetch
  BY <1>1, FetchStarts
<1>2. CASE Collect
  BY <1>2, CollectLoses
<1>3. CASE \E g \in Group : Drain(g)
  BY <1>3, DrainLosesOrStutters
<1>4. CASE FinishRollout
  BY <1>4, FinishDelivers
<1>5. CASE \/ BeginRollout \/ Abort \/ SendAbort \/ UNCHANGED vars
           \/ \E g \in Group : GroupStep(g)
           \/ \E s \in Sample : SampleStep(s)
  BY <1>5, OthersStutter
<1>6. QED BY <1>1, <1>2, <1>3, <1>4, <1>5 DEF Next, RolloutStep, Stopped

\* generate_rollout implements the ledger: a group leaves it at most once, in a
\* full batch or lost, and unfinished groups wait in the buffer for a later one.
THEOREM ImplementsLedger == Spec => KeepsLedger
<1>1. Init => Ledger!LedgerInit
  BY DEF Init, Ledger!LedgerInit, Elements, Lost
<1>2. QED BY <1>1, LedgerStep, Inductive, PTL DEF Spec, KeepsLedger, Ledger!LedgerSpec
=============================================================================
