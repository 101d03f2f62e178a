-------------------------- MODULE FullyAsyncProofs --------------------------
(***************************************************************************)
(* Theorems of FullyAsync for every batch size, queue size and number of   *)
(* groups.                                                                 *)
(***************************************************************************)
EXTENDS FullyAsync, FiniteSetTheorems, SequenceTheorems, TLAPS

\* A sequence holds no group twice.
NoRepeats(s) == \A i, j \in DOMAIN s : s[i] = s[j] => i = j

Running == TasksIn("running")
Updated == trainer = "updated"

\* A group is in one place, once.
Apart(B, R, C, Q, D, A) ==
    /\ B \cap R = {} /\ B \cap C = {} /\ B \cap Q = {} /\ B \cap D = {} /\ B \cap A = {}
    /\ R \cap C = {} /\ R \cap Q = {} /\ R \cap D = {} /\ R \cap A = {}
    /\ C \cap Q = {} /\ C \cap D = {} /\ C \cap A = {}
    /\ Q \cap D = {} /\ Q \cap A = {} /\ D \cap A = {}

PlaceInv ==
    /\ buffer \in Seq(Group) /\ callbacks \in Seq(Group)
    /\ queue \in Seq(Group) /\ completed \in Seq(Group)
    /\ NoRepeats(buffer) /\ NoRepeats(callbacks) /\ NoRepeats(queue) /\ NoRepeats(completed)
    /\ Apart(Elements(buffer), Running, Elements(callbacks), Elements(queue),
             Elements(completed), data)

\* The worker has no more than Target groups that run or wait to be put.
LimitInv ==
    /\ Len(callbacks) + Cardinality(Running) <= Target
    /\ Cardinality(data) <= Target
    /\ call = "idle" => data = {} /\ completed = <<>>

\* How long the results have waited on their way into a batch.
Soon(g, n, m) == (g \notin late => waited[g] <= n) /\ waited[g] <= m

SoonInv ==
    /\ late \subseteq Pending \cup data
    /\ \A g \in Elements(callbacks) : Soon(g, 0, IF Updated THEN 2 ELSE 1)
    /\ \A g \in Elements(queue) :
          Soon(g, IF Updated /\ call # "process" THEN 1 ELSE 0, IF Updated THEN 2 ELSE 1)
    /\ \A g \in Elements(completed) \cup data : Soon(g, 1, 2)
    /\ \A g \in data : result[g] = "complete"

\* A group that has waited in a callback at an update is not overtaken by a whole batch: the
\* worker starts no task before it is put, and had no more than Target.
Waiting(n) == \E g \in Elements(callbacks) : waited[g] >= n
Drained    == ~Updated \/ call = "process"
Working    == Len(queue) + Len(callbacks) + Cardinality(Running)
Taken      == Cardinality(data) + Len(completed)

CountInv ==
    /\ Drained /\ Waiting(1) => Working <= Target
    /\ \A i \in DOMAIN queue : Drained /\ waited[queue[i]] >= 1 => i <= Target
    /\ Waiting(2) => Taken + Working <= Target
    /\ \A i \in DOMAIN queue : waited[queue[i]] >= 2 => Taken + i <= Target
    /\ \A i \in DOMAIN completed : waited[completed[i]] >= 2 => Cardinality(data) + i <= Target

IInv == TypeOK /\ PlaceInv /\ LimitInv /\ SoonInv /\ CountInv

-----------------------------------------------------------------------------
(* Facts about sequences without repetition, and about the groups.          *)

LEMMA GroupsFinite ==
    ASSUME NEW S \in SUBSET Group
    PROVE  IsFiniteSet(S) /\ Cardinality(S) \in Nat
<1>1. IsFiniteSet(Group)
  BY AsyncAssumption, FS_Interval DEF Group
<1>2. IsFiniteSet(S)
  BY <1>1, FS_Subset
<1>3. QED BY <1>2, FS_CardinalityType


\* Appending adds one element; a new one is no repetition.
LEMMA AppendElements ==
    ASSUME NEW S, NEW s \in Seq(S), NEW x \in S
    PROVE  /\ Append(s, x) \in Seq(S)
           /\ Elements(Append(s, x)) = Elements(s) \cup {x}
           /\ NoRepeats(s) /\ x \notin Elements(s) => NoRepeats(Append(s, x))
<1> DEFINE t == Append(s, x)
<1>1. /\ t \in Seq(S)
      /\ Len(t) = Len(s) + 1
      /\ \A i \in 1..Len(s) : t[i] = s[i]
      /\ t[Len(s) + 1] = x
      /\ DOMAIN t = 1..(Len(s) + 1) /\ DOMAIN s = 1..Len(s) /\ Len(s) \in Nat
  BY AppendProperties, LenProperties
<1>2. Elements(t) = Elements(s) \cup {x}
  <2>1. Elements(t) \subseteq Elements(s) \cup {x}
    BY <1>1 DEF Elements
  <2>2. \A i \in DOMAIN s : i \in DOMAIN t /\ t[i] = s[i]
    BY <1>1
  <2>3. Len(s) + 1 \in DOMAIN t
    BY <1>1
  <2>4. QED BY <2>1, <2>2, <2>3, <1>1 DEF Elements
<1>3. NoRepeats(s) /\ x \notin Elements(s) => NoRepeats(t)
  BY <1>1 DEF NoRepeats, Elements
<1>4. QED BY <1>1, <1>2, <1>3


\* Popping the first k elements splits a sequence without repetition in two.
LEMMA PopElements ==
    ASSUME NEW S, NEW s \in Seq(S), NEW k \in 0..Len(s), NoRepeats(s)
    PROVE  /\ SubSeq(s, k + 1, Len(s)) \in Seq(S)
           /\ NoRepeats(SubSeq(s, k + 1, Len(s)))
           /\ Elements(SubSeq(s, 1, k)) \subseteq S
           /\ Elements(s) = Elements(SubSeq(s, 1, k)) \cup Elements(SubSeq(s, k + 1, Len(s)))
           /\ Elements(SubSeq(s, 1, k)) \cap Elements(SubSeq(s, k + 1, Len(s))) = {}
           /\ IsFiniteSet(Elements(SubSeq(s, 1, k)))
           /\ Cardinality(Elements(SubSeq(s, 1, k))) = k
<1> DEFINE front == {s[i] : i \in 1..k}
           rest  == SubSeq(s, k + 1, Len(s))
<1>1. /\ Len(s) \in Nat /\ DOMAIN s = 1..Len(s)
      /\ \A i \in 1..Len(s) : s[i] \in S
  BY LenProperties, ElementOfSeq
<1>2. /\ rest \in Seq(S)
      /\ Len(rest) = Len(s) - k
      /\ \A i \in 1..(Len(s) - k) : rest[i] = s[k + i]
      /\ DOMAIN rest = 1..(Len(s) - k)
  <2>1. SubSeq(s, k + 1, Len(s)) = [i \in 1..(Len(s) - k) |-> s[k + i]]
    BY <1>1
  <2>2. \A i \in 1..(Len(s) - k) : s[k + i] \in S
    BY <1>1
  <2>3. Len(s) - k \in Nat
    BY <1>1
  <2>4. rest \in Seq(S)
    BY <2>1, <2>2, <2>3, IsASeq
  <2>5. QED BY <2>1, <2>3, <2>4, LenProperties
<1> HIDE DEF rest
<1>3. NoRepeats(rest)
  <2>1. SUFFICES ASSUME NEW i \in DOMAIN rest, NEW j \in DOMAIN rest, rest[i] = rest[j]
                 PROVE  i = j
    BY DEF NoRepeats
  <2>2. k + i \in DOMAIN s /\ k + j \in DOMAIN s /\ s[k + i] = s[k + j]
    BY <1>1, <1>2, <2>1
  <2>3. QED BY <2>2, <1>2 DEF NoRepeats
<1>4. Elements(s) = front \cup Elements(rest)
  <2>1. \A i \in DOMAIN rest : k + i \in DOMAIN s /\ rest[i] = s[k + i]
    BY <1>1, <1>2
  <2>2. \A i \in DOMAIN s : i \in 1..k \/ (i - k \in DOMAIN rest /\ rest[i - k] = s[i])
    BY <1>1, <1>2
  <2>3. 1..k \subseteq DOMAIN s
    BY <1>1
  <2>4. QED BY <2>1, <2>2, <2>3 DEF Elements
<1>5. front \cap Elements(rest) = {}
  <2>1. SUFFICES ASSUME NEW i \in 1..k, NEW j \in DOMAIN rest, s[i] = rest[j]
                 PROVE  FALSE
    BY DEF Elements
  <2>2. i \in DOMAIN s /\ k + j \in DOMAIN s /\ s[i] = s[k + j] /\ i # k + j
    BY <2>1, <1>1, <1>2
  <2>3. QED BY <2>2 DEF NoRepeats
<1>6. IsFiniteSet(front) /\ Cardinality(front) = k
  <2> DEFINE f == [i \in 1..k |-> s[i]]
  <2>1. f \in Bijection(1..k, front)
    <3>1. \A i, j \in 1..k : s[i] = s[j] => i = j
      BY <1>1 DEF NoRepeats
    <3>2. f \in [1..k -> front]
      OBVIOUS
    <3>3. f \in Injection(1..k, front)
      BY <3>1, <3>2 DEF Injection, IsInjective
    <3>4. f \in Surjection(1..k, front)
      BY <3>2 DEF Surjection
    <3>5. QED BY <3>3, <3>4 DEF Bijection
  <2>2. IsFiniteSet(1..k) /\ Cardinality(1..k) = k
    BY FS_Interval, <1>1
  <2>3. ExistsBijection(1..k, front)
    BY <2>1 DEF ExistsBijection
  <2>4. QED BY <2>2, <2>3, FS_Bijection
<1>7. Elements(SubSeq(s, 1, k)) = front
  <2>1. \A i \in 1..k : s[i] \in S
    BY <1>1
  <2>2. /\ SubSeq(s, 1, k) \in Seq(S)
        /\ Len(SubSeq(s, 1, k)) = k
        /\ \A i \in 1..k : SubSeq(s, 1, k)[i] = s[i]
    BY <2>1, <1>1, SubSeqProperties
  <2>3. DOMAIN SubSeq(s, 1, k) = 1..k
    BY <2>2, LenProperties
  <2>4. QED BY <2>2, <2>3 DEF Elements
<1>8. front \subseteq S
  BY <1>1
<1>9. QED BY <1>2, <1>3, <1>4, <1>5, <1>6, <1>7, <1>8 DEF rest

\* Taking the head off.
LEMMA TailElements ==
    ASSUME NEW S, NEW s \in Seq(S), s # <<>>, NoRepeats(s)
    PROVE  /\ Tail(s) \in Seq(S) /\ NoRepeats(Tail(s))
           /\ Len(s) \in Nat \ {0} /\ Len(Tail(s)) = Len(s) - 1
           /\ \A i \in DOMAIN Tail(s) :
                 i \in 1..(Len(s) - 1) /\ i + 1 \in DOMAIN s /\ Tail(s)[i] = s[i + 1]
           /\ 1 \in DOMAIN s /\ Head(s) = s[1] /\ Head(s) \in S /\ Head(s) \in Elements(s)
           /\ Elements(Tail(s)) = Elements(s) \ {Head(s)}
<1> DEFINE t == Tail(s)
<1>1. /\ Len(s) \in Nat \ {0} /\ DOMAIN s = 1..Len(s) /\ Head(s) = s[1] /\ Head(s) \in S
      /\ t \in Seq(S) /\ Len(t) = Len(s) - 1
      /\ \A i \in 1..(Len(s) - 1) : t[i] = s[i + 1]
  BY HeadTailProperties, LenProperties, EmptySeq
<1>2. DOMAIN t = 1..(Len(s) - 1)  BY <1>1, LenProperties
<1> HIDE DEF t
<1>3. \A i \in DOMAIN t : i \in 1..(Len(s) - 1) /\ i + 1 \in DOMAIN s /\ t[i] = s[i + 1]
  BY <1>1, <1>2
<1>4. NoRepeats(t)
  <2> SUFFICES ASSUME NEW i \in DOMAIN t, NEW j \in DOMAIN t, t[i] = t[j]  PROVE i = j
    BY DEF NoRepeats
  <2>1. i + 1 = j + 1  BY <1>3 DEF NoRepeats
  <2> QED  BY <1>3, <2>1
<1>5. 1 \in DOMAIN s  BY <1>1
<1>6. Elements(t) = Elements(s) \ {Head(s)}
  <2>1. Elements(t) \subseteq Elements(s)  BY <1>3 DEF Elements
  <2>2. Head(s) \notin Elements(t)
    <3> SUFFICES ASSUME NEW i \in DOMAIN t, t[i] = Head(s)  PROVE FALSE
      BY DEF Elements
    <3>1. i + 1 = 1  BY <1>1, <1>3, <1>5 DEF NoRepeats
    <3> QED  BY <1>3, <3>1
  <2>3. \A i \in DOMAIN s : i = 1 \/ (i - 1 \in DOMAIN t /\ t[i - 1] = s[i])
    BY <1>1, <1>2
  <2>4. ASSUME NEW x \in Elements(s), x # Head(s)  PROVE x \in Elements(t)
    BY <1>1, <2>3, <2>4 DEF Elements
  <2> QED  BY <2>1, <2>2, <2>4
<1> QED  BY <1>1, <1>3, <1>4, <1>5, <1>6 DEF t, Elements

\* A sequence without repetition has as many elements as its length says.
LEMMA LenElements ==
    ASSUME NEW S, NEW s \in Seq(S), NoRepeats(s)
    PROVE  /\ Len(s) \in Nat /\ Elements(s) \subseteq S
           /\ IsFiniteSet(Elements(s)) /\ Cardinality(Elements(s)) = Len(s)
<1>1. Len(s) \in Nat /\ DOMAIN s = 1..Len(s)  BY LenProperties
<1>2. Elements(s) \subseteq S  BY <1>1, ElementOfSeq DEF Elements
<1>3. s \in Bijection(1..Len(s), Elements(s))
  <2>1. s \in [1..Len(s) -> Elements(s)]
    <3>1. s = [i \in 1..Len(s) |-> s[i]]  BY <1>1, SeqDef
    <3>2. \A i \in 1..Len(s) : s[i] \in Elements(s)  BY <1>1 DEF Elements
    <3> QED  BY <3>1, <3>2
  <2>2. s \in Injection(1..Len(s), Elements(s))
    BY <1>1, <2>1 DEF NoRepeats, Injection, IsInjective
  <2>3. s \in Surjection(1..Len(s), Elements(s))
    BY <1>1, <2>1 DEF Surjection, Elements
  <2> QED  BY <2>2, <2>3 DEF Bijection
<1>4. IsFiniteSet(1..Len(s)) /\ Cardinality(1..Len(s)) = Len(s)
  BY <1>1, FS_Interval
<1>5. ExistsBijection(1..Len(s), Elements(s))  BY <1>3 DEF ExistsBijection
<1> QED  BY <1>1, <1>2, <1>4, <1>5, FS_Bijection

\* The n smallest numbers of a set are n at most.
LEMMA SmallestFew ==
    ASSUME NEW U \in SUBSET Group, NEW n \in Nat, NEW P \in SUBSET U,
           \A g \in P : Cardinality({h \in U : h < g}) < n
    PROVE  IsFiniteSet(P) /\ Cardinality(P) <= n
<1> DEFINE Below(g) == {h \in U : h < g}
           f == [g \in P |-> Cardinality(Below(g))]
<1>1. \A g \in P : Cardinality(Below(g)) \in 0..(n - 1)
  <2> TAKE g \in P
  <2>1. Below(g) \in SUBSET Group  OBVIOUS
  <2>2. Cardinality(Below(g)) \in Nat  BY <2>1, GroupsFinite
  <2> QED  BY <2>2
<1>2. ASSUME NEW g \in P, NEW k \in P, g < k
      PROVE  Cardinality(Below(g)) # Cardinality(Below(k))
  <2>1. Below(k) \in SUBSET Group  OBVIOUS
  <2>2. Below(g) \in SUBSET Below(k) /\ g \in Below(k) /\ g \notin Below(g)
    <3>1. g \in U /\ g < k /\ ~(g < g)  BY <1>2 DEF Group
    <3>2. \A h \in U : h < g => h < k  BY <1>2 DEF Group
    <3> QED  BY <3>1, <3>2
  <2>3. IsFiniteSet(Below(k))  BY <2>1, GroupsFinite
  <2> HIDE DEF Below
  <2>4. Cardinality(Below(k)) = Cardinality(Below(g)) => Below(k) = Below(g)
    BY <2>2, <2>3, FS_Subset
  <2> QED  BY <2>2, <2>4
<1>3. f \in Injection(P, 0..(n - 1))
  <2>1. f \in [P -> 0..(n - 1)]  BY <1>1
  <2>2. ASSUME NEW g \in P, NEW k \in P, f[g] = f[k]  PROVE g = k
    <3>1. ~(g < k) /\ ~(k < g)  BY <1>2, <2>2
    <3> QED  BY <3>1 DEF Group
  <2> QED  BY <2>1, <2>2 DEF Injection, IsInjective
<1>4. IsFiniteSet(0..(n - 1)) /\ Cardinality(0..(n - 1)) = n
  BY FS_Interval
<1> QED  BY <1>3, <1>4, FS_Injection

-----------------------------------------------------------------------------
(* One lemma for each action.                                               *)

LEMMA Sizes ==
    ASSUME TypeOK, PlaceInv
    PROVE  /\ {Len(buffer), Len(callbacks), Len(queue), Len(completed)} \subseteq Nat
           /\ Cardinality(Running) \in Nat /\ Cardinality(data) \in Nat /\ Target \in Nat \ {0}
           /\ DOMAIN queue = 1..Len(queue) /\ DOMAIN completed = 1..Len(completed)
           /\ \A g \in Group : waited[g] \in Nat
           /\ Elements(buffer) \subseteq Group /\ Elements(callbacks) \subseteq Group
           /\ Elements(queue) \subseteq Group /\ Elements(completed) \subseteq Group
           /\ data \subseteq Group /\ Running \subseteq Group /\ IsFiniteSet(data)
           /\ \A i \in DOMAIN queue : queue[i] \in Elements(queue)
           /\ \A i \in DOMAIN completed : completed[i] \in Elements(completed)
<1>1. Running \in SUBSET Group /\ data \in SUBSET Group
  BY DEF Running, TasksIn, TypeOK
<1>2. \A g \in Group : waited[g] \in Nat
  BY AsyncAssumption DEF TypeOK
<1>3. IsFiniteSet(data) /\ Cardinality(data) \in Nat /\ Cardinality(Running) \in Nat
  BY <1>1, GroupsFinite
<1>4. /\ {Len(buffer), Len(callbacks), Len(queue), Len(completed)} \subseteq Nat
      /\ DOMAIN queue = 1..Len(queue) /\ DOMAIN completed = 1..Len(completed)
  BY LenProperties DEF PlaceInv
<1>5. /\ Elements(buffer) \subseteq Group /\ Elements(callbacks) \subseteq Group
      /\ Elements(queue) \subseteq Group /\ Elements(completed) \subseteq Group
  BY DEF TypeOK
<1>6. /\ \A i \in DOMAIN queue : queue[i] \in Elements(queue)
      /\ \A i \in DOMAIN completed : completed[i] \in Elements(completed)
  BY DEF Elements
<1> QED  BY <1>1, <1>2, <1>3, <1>4, <1>5, <1>6, AsyncAssumption

LEMMA InitInv == Init => IInv
<1> SUFFICES ASSUME Init  PROVE IInv
  OBVIOUS
<1>1. /\ Len(<<>>) = 0 /\ DOMAIN <<>> = {} /\ <<>> \in Seq(Group)
  BY EmptySeq
<1>2. Elements(<<>>) = {} /\ NoRepeats(<<>>)
  BY <1>1 DEF Elements, NoRepeats
<1>3. Running = {}  BY DEF Init, Running, TasksIn
<1>4. Cardinality({}) = 0  BY FS_EmptySet
<1>5. TypeOK
  <2>1. 0 \in 0..MaxWaited /\ 0 \in 0..MaxFails /\ 0 <= QueueSize /\ 0 <= Target
    BY AsyncAssumption
  <2>2. Cardinality(TasksIn("running")) <= Target  BY <1>3, <1>4, <2>1 DEF Running
  <2>3. Len(queue) <= QueueSize  BY <1>1, <2>1 DEF Init
  <2> QED  BY <1>2, <2>1, <2>2, <2>3 DEF Init, TypeOK
<1>6. PlaceInv  BY <1>1, <1>2, <1>3 DEF Init, PlaceInv, Apart
<1>7. LimitInv  BY <1>1, <1>3, <1>4, AsyncAssumption DEF Init, LimitInv
<1>8. SoonInv  BY <1>2 DEF Init, SoonInv
<1>9. CountInv  BY <1>1, <1>2 DEF Init, CountInv, Waiting
<1> QED  BY <1>5, <1>6, <1>7, <1>8, <1>9 DEF IInv

\* The new tasks fill the room there is, with the first groups of the buffer and new ones.
LEMMA SubmitInv ==
    ASSUME IInv, Submit
    PROVE  IInv'
<1> DEFINE n == FromBuffer
           front == Elements(SubSeq(buffer, 1, n))
           begun == Prompts \cup front
<1>1. TypeOK /\ PlaceInv /\ LimitInv /\ SoonInv /\ CountInv  BY DEF IInv
<1>2. /\ callbacks = <<>> /\ callbacks' = callbacks /\ buffer' = Rest
      /\ task' = [g \in Group |-> IF g \in begun THEN "running"
                                  ELSE IF g \in Cleaned THEN task[g] ELSE "none"]
      /\ UNCHANGED <<queue, exposed, stuck, fails, resultVars, collectVars, trainer>>
  BY DEF Submit
<1>3. Len(callbacks) = 0 /\ Elements(callbacks) = {}
  BY <1>2, EmptySeq DEF Elements
<1>4. Room \in Nat /\ Room = Target - Cardinality(Running) /\ n \in 0..Len(buffer)
      /\ Room - n \in Nat
  BY <1>1, <1>3, Sizes DEF LimitInv, Room, Cleaned, Running, FromBuffer, MinOf
<1>5. /\ Rest \in Seq(Group) /\ NoRepeats(Rest) /\ front \subseteq Group
      /\ Elements(buffer) = front \cup Elements(Rest) /\ front \cap Elements(Rest) = {}
      /\ IsFiniteSet(front) /\ Cardinality(front) = n
  <2>1. buffer \in Seq(Group) /\ NoRepeats(buffer)  BY <1>1 DEF PlaceInv
  <2> QED  BY <1>4, <2>1, PopElements DEF Rest
<1>6. IsFiniteSet(Prompts) /\ Cardinality(Prompts) <= Room - n
      /\ Prompts \subseteq Unread /\ Unread \subseteq Group
  <2>1. Prompts \in SUBSET Unread /\ Unread \in SUBSET Group  BY DEF Prompts, Unread
  <2>2. \A g \in Prompts : Cardinality({h \in Unread : h < g}) < Room - n
    BY DEF Prompts
  <2> QED  BY <1>4, <2>1, <2>2, SmallestFew
<1>7. Running' = Running \cup begun
  BY <1>2, <1>5, <1>6 DEF Running, TasksIn, Cleaned
<1>8. Apart(Elements(buffer'), Running', Elements(callbacks'), Elements(queue'),
            Elements(completed'), data')
  <2>1. Unread \cap (Elements(buffer) \cup Running \cup Elements(queue) \cup
                     Elements(completed) \cup data) = {}
    BY DEF Unread, Kept, Running
  <2>2. Apart(Elements(buffer), Running, Elements(callbacks), Elements(queue),
              Elements(completed), data)
    BY <1>1 DEF PlaceInv
  <2> QED  BY <1>2, <1>3, <1>5, <1>6, <1>7, <2>1, <2>2 DEF Apart, collectVars
<1>9. Cardinality(Running') <= Target /\ Cardinality(Running') \in Nat
  <2>1. IsFiniteSet(Running)  BY GroupsFinite DEF Running, TasksIn
  <2>2. /\ IsFiniteSet(begun)
        /\ Cardinality(begun) = Cardinality(Prompts) + n - Cardinality(Prompts \cap front)
    BY <1>5, <1>6, FS_Union
  <2>3. Cardinality(Running') = Cardinality(Running) + Cardinality(begun)
                                - Cardinality(Running \cap begun)
    BY <1>7, <2>1, <2>2, FS_Union
  <2>4. /\ Cardinality(Running \cap begun) \in Nat /\ Cardinality(Prompts \cap front) \in Nat
        /\ Cardinality(Prompts) \in Nat /\ Cardinality(begun) \in Nat
    BY <1>6, <2>1, <2>2, FS_Intersection, FS_CardinalityType
  <2>5. Cardinality(Running) \in Nat /\ Target \in Nat /\ n \in Nat  BY <1>1, <1>4, Sizes
  <2>6. Cardinality(Running') <= Target
    <3> DEFINE p == Cardinality(Prompts)  b == Cardinality(begun)  r == Cardinality(Running)
               k == Cardinality(Prompts \cap front)  l == Cardinality(Running \cap begun)
               q == Cardinality(Running')
    <3>1. {p, b, r, k, l, n, Target, Room} \subseteq Nat  BY <1>4, <2>4, <2>5
    <3>2. p <= Room - n /\ b = p + n - k /\ q = r + b - l /\ Room = Target - r
      BY <1>4, <1>6, <2>2, <2>3
    <3> HIDE DEF p, b, r, k, l, q, n
    <3>3. q <= Target  BY <3>1, <3>2
    <3> QED  BY <3>3 DEF q
  <2>7. IsFiniteSet(Running')  BY <1>7, <2>1, <2>2, FS_Union
  <2> QED  BY <2>6, <2>7, FS_CardinalityType
<1>10. TypeOK'
  <2>1. Elements(buffer') \subseteq Group  BY <1>1, <1>2, <1>5, Sizes
  <2>2. task' \in [Group -> {"none", "running", "done"}]
    BY <1>1, <1>2 DEF TypeOK
  <2>3. Cardinality(TasksIn("running")') <= Target  BY <1>9 DEF Running
  <2> QED  BY <1>1, <1>2, <2>1, <2>2, <2>3 DEF TypeOK, resultVars, collectVars
<1>11. PlaceInv'
  BY <1>1, <1>2, <1>5, <1>8 DEF PlaceInv, collectVars
<1>12. LimitInv'
  <2>1. Len(callbacks') + Cardinality(Running') <= Target
    BY <1>2, <1>3, <1>9
  <2> QED  BY <1>1, <1>2, <2>1 DEF LimitInv, collectVars
<1>13. SoonInv'
  BY <1>1, <1>2 DEF SoonInv, Soon, Pending, Updated, resultVars, collectVars
<1>14. CountInv'
  BY <1>1, <1>2, <1>3
  DEF CountInv, Waiting, Drained, Updated, Taken, resultVars, collectVars
<1> QED  BY <1>10, <1>11, <1>12, <1>13, <1>14 DEF IInv

\* A task that returns is among the callbacks, with a new group in the case of Finish.
LEMMA FinishInv ==
    ASSUME IInv, NEW g \in Group, Finish(g)
    PROVE  IInv'
<1>1. TypeOK /\ PlaceInv /\ LimitInv /\ SoonInv /\ CountInv  BY DEF IInv
<1>2. /\ g \in Running /\ task' = [task EXCEPT ![g] = "done"]
      /\ callbacks' = Append(callbacks, g) /\ waited' = [waited EXCEPT ![g] = 0]
      /\ exposed' = exposed \ {g}
      /\ UNCHANGED <<buffer, queue, stuck, fails, late, collectVars, trainer>>
  BY DEF Finish, Running, TasksIn
<1>3. PICK r \in {"aborted", "complete"} : result' = [result EXCEPT ![g] = r]
  BY DEF Finish
<1>4. Apart(Elements(buffer), Running, Elements(callbacks), Elements(queue),
            Elements(completed), data)
  BY <1>1 DEF PlaceInv
<1>5. g \notin Elements(callbacks) \cup Elements(queue) \cup Elements(completed) \cup data
  BY <1>2, <1>4 DEF Apart
<1>6. /\ callbacks' \in Seq(Group) /\ Elements(callbacks') = Elements(callbacks) \cup {g}
      /\ NoRepeats(callbacks') /\ Len(callbacks') = Len(callbacks) + 1
  <2>1. callbacks \in Seq(Group) /\ NoRepeats(callbacks)  BY <1>1 DEF PlaceInv
  <2> QED  BY <1>2, <1>5, <2>1, AppendElements, AppendProperties
<1>7. Running' = Running \ {g}
  BY <1>1, <1>2 DEF Running, TasksIn, TypeOK
<1>8. Cardinality(Running') = Cardinality(Running) - 1
  <2>1. IsFiniteSet(Running)  BY GroupsFinite DEF Running, TasksIn
  <2> QED  BY <1>2, <1>7, <2>1, FS_RemoveElement
<1>9. waited'[g] = 0 /\ \A h \in Group \ {g} : waited'[h] = waited[h] /\ result'[h] = result[h]
  BY <1>1, <1>2, <1>3 DEF TypeOK
<1>10. TypeOK'
  <2>1. Elements(callbacks') \subseteq Group  BY <1>1, <1>6, Sizes
  <2>2. task' \in [Group -> {"none", "running", "done"}]
    BY <1>1, <1>2 DEF TypeOK
  <2>3. Cardinality(TasksIn("running")') <= Target
    BY <1>1, <1>8, Sizes DEF Running, TypeOK
  <2>4. waited' \in [Group -> 0..MaxWaited]  BY <1>1, <1>2, AsyncAssumption DEF TypeOK
  <2>5. result' \in [Group -> {"complete", "aborted"}]  BY <1>1, <1>3 DEF TypeOK
  <2> QED  BY <1>1, <1>2, <2>1, <2>2, <2>3, <2>4, <2>5 DEF TypeOK, collectVars
<1>11. PlaceInv'
  <2>1. Apart(Elements(buffer'), Running', Elements(callbacks'), Elements(queue'),
              Elements(completed'), data')
    BY <1>2, <1>4, <1>6, <1>7 DEF Apart, collectVars
  <2> QED  BY <1>1, <1>2, <1>6, <2>1 DEF PlaceInv, collectVars
<1>12. LimitInv'
  BY <1>1, <1>2, <1>6, <1>8, Sizes DEF LimitInv, collectVars
<1>13. SoonInv'
  <2>1. \A h \in Elements(queue) \cup Elements(completed) \cup data :
            waited'[h] = waited[h] /\ result'[h] = result[h]
    BY <1>1, <1>5, <1>9, Sizes
  <2>2. late' \subseteq Pending' \cup data'
    BY <1>1, <1>2, <1>6 DEF SoonInv, Pending, collectVars
  <2>3. \A h \in Elements(callbacks') : Soon(h, 0, IF Updated THEN 2 ELSE 1)'
    <3>1. \A h \in Elements(callbacks) : waited'[h] = waited[h]  BY <1>1, <1>5, <1>9, Sizes
    <3>2. \A h \in Elements(callbacks) : Soon(h, 0, IF Updated THEN 2 ELSE 1)'
      BY <1>1, <1>2, <3>1 DEF SoonInv, Soon, Updated
    <3>3. Soon(g, 0, IF Updated THEN 2 ELSE 1)'  BY <1>9 DEF Soon
    <3> QED  BY <1>6, <3>2, <3>3
  <2> QED  BY <1>1, <1>2, <2>1, <2>2, <2>3 DEF SoonInv, Soon, Updated, collectVars
<1>14. CountInv'
  <2>1. Working' = Working  BY <1>1, <1>2, <1>6, <1>8, Sizes DEF Working
  <2>2. Taken' = Taken /\ Drained' = Drained
    BY <1>2 DEF Taken, Drained, Updated, collectVars
  <2>3. \A m \in {1, 2} : Waiting(m)' => Waiting(m)
    <3>1. \A h \in Elements(callbacks) : waited'[h] = waited[h]  BY <1>1, <1>5, <1>9, Sizes
    <3> QED  BY <1>6, <1>9, <3>1 DEF Waiting
  <2>4. /\ \A i \in DOMAIN queue : waited'[queue[i]] = waited[queue[i]]
        /\ \A i \in DOMAIN completed : waited'[completed[i]] = waited[completed[i]]
    BY <1>1, <1>5, <1>9, Sizes
  <2> QED  BY <1>1, <1>2, <2>1, <2>2, <2>3, <2>4 DEF CountInv, collectVars
<1> QED  BY <1>10, <1>11, <1>12, <1>13, <1>14 DEF IInv

LEMMA FailInv ==
    ASSUME IInv, NEW g \in Group, Fail(g)
    PROVE  IInv'
<1>1. TypeOK /\ PlaceInv /\ LimitInv /\ SoonInv /\ CountInv  BY DEF IInv
<1>2. /\ g \in Running /\ task' = [task EXCEPT ![g] = "done"]
      /\ fails < MaxFails /\ fails' = fails + 1 /\ exposed' = exposed \ {g}
      /\ UNCHANGED <<buffer, queue, callbacks, stuck, resultVars, collectVars, trainer>>
  BY DEF Fail, Running, TasksIn
<1>3. Running' = Running \ {g}
  BY <1>1, <1>2 DEF Running, TasksIn, TypeOK
<1>4. Cardinality(Running') = Cardinality(Running) - 1
  <2>1. IsFiniteSet(Running)  BY GroupsFinite DEF Running, TasksIn
  <2> QED  BY <1>2, <1>3, <2>1, FS_RemoveElement
<1>5. TypeOK'
  <2>1. task' \in [Group -> {"none", "running", "done"}]
    BY <1>1, <1>2 DEF TypeOK
  <2>2. Cardinality(TasksIn("running")') <= Target
    BY <1>1, <1>4, Sizes DEF Running, TypeOK
  <2>3. fails' \in 0..MaxFails  BY <1>1, <1>2, AsyncAssumption DEF TypeOK
  <2> QED  BY <1>1, <1>2, <2>1, <2>2, <2>3 DEF TypeOK, resultVars, collectVars
<1>6. PlaceInv'
  BY <1>1, <1>2, <1>3 DEF PlaceInv, Apart, collectVars
<1>7. LimitInv'
  BY <1>1, <1>2, <1>4, Sizes DEF LimitInv, collectVars
<1>8. SoonInv'
  BY <1>1, <1>2 DEF SoonInv, Soon, Pending, Updated, resultVars, collectVars
<1>9. CountInv'
  <2>1. Working' = Working - 1 /\ Working \in Nat /\ Taken \in Nat
    BY <1>1, <1>2, <1>4, Sizes DEF Working, Taken
  <2>2. Taken' = Taken /\ Drained' = Drained
    BY <1>2 DEF Taken, Drained, Updated, collectVars
  <2>3. \A m \in {1, 2} : Waiting(m)' = Waiting(m)  BY <1>2 DEF Waiting, resultVars
  <2> QED  BY <1>1, <1>2, <2>1, <2>2, <2>3, Sizes DEF CountInv, resultVars, collectVars
<1> QED  BY <1>5, <1>6, <1>7, <1>8, <1>9 DEF IInv

\* What a callback puts is not preceded by more than the worker had in hand.
LEMMA PutInv ==
    ASSUME IInv, Put
    PROVE  IInv'
<1> DEFINE h == Head(callbacks)
<1>1. TypeOK /\ PlaceInv /\ LimitInv /\ SoonInv /\ CountInv  BY DEF IInv
<1>2. /\ callbacks # <<>> /\ Len(queue) < QueueSize
      /\ queue' = Append(queue, h) /\ callbacks' = Tail(callbacks) /\ stuck' = FALSE
      /\ UNCHANGED <<buffer, task, exposed, fails, resultVars, collectVars, trainer>>
  BY DEF Put
<1>3. /\ callbacks' \in Seq(Group) /\ NoRepeats(callbacks')
      /\ Len(callbacks) \in Nat \ {0} /\ Len(callbacks') = Len(callbacks) - 1
      /\ h \in Group /\ h \in Elements(callbacks)
      /\ Elements(callbacks') = Elements(callbacks) \ {h}
  <2>1. callbacks \in Seq(Group) /\ NoRepeats(callbacks)  BY <1>1 DEF PlaceInv
  <2> QED  BY <1>2, <2>1, TailElements
<1>4. Apart(Elements(buffer), Running, Elements(callbacks), Elements(queue),
            Elements(completed), data)
  BY <1>1 DEF PlaceInv
<1>5. /\ queue' \in Seq(Group) /\ Elements(queue') = Elements(queue) \cup {h}
      /\ NoRepeats(queue') /\ Len(queue') = Len(queue) + 1 /\ DOMAIN queue' = 1..(Len(queue) + 1)
      /\ \A i \in DOMAIN queue : queue'[i] = queue[i]
      /\ queue'[Len(queue) + 1] = h
  <2>1. queue \in Seq(Group) /\ NoRepeats(queue)  BY <1>1 DEF PlaceInv
  <2>2. h \notin Elements(queue)  BY <1>3, <1>4 DEF Apart
  <2> QED  BY <1>2, <1>3, <2>1, <2>2, AppendElements, AppendProperties, LenProperties
<1> HIDE DEF h
<1>6. Running' = Running  BY <1>2 DEF Running, TasksIn
<1>7. TypeOK'
  <2>1. Elements(callbacks') \subseteq Group /\ Elements(queue') \subseteq Group
    BY <1>1, <1>3, <1>5, Sizes
  <2>2. Len(queue') <= QueueSize  BY <1>1, <1>2, <1>5, Sizes, AsyncAssumption
  <2>3. TasksIn("running")' = TasksIn("running")  BY <1>6 DEF Running
  <2> QED  BY <1>1, <1>2, <2>1, <2>2, <2>3 DEF TypeOK, resultVars, collectVars
<1>8. PlaceInv'
  <2>1. Apart(Elements(buffer'), Running', Elements(callbacks'), Elements(queue'),
              Elements(completed'), data')
    BY <1>2, <1>3, <1>4, <1>5, <1>6 DEF Apart, collectVars
  <2> QED  BY <1>1, <1>2, <1>3, <1>5, <2>1 DEF PlaceInv, collectVars
<1>9. LimitInv'
  BY <1>1, <1>2, <1>3, <1>6, Sizes DEF LimitInv, collectVars
<1>10. SoonInv'
  <2>1. late' \subseteq Pending' \cup data'
    BY <1>1, <1>2, <1>3, <1>5 DEF SoonInv, Pending, resultVars, collectVars
  <2>2. Soon(h, 0, IF Updated THEN 2 ELSE 1)  BY <1>1, <1>3 DEF SoonInv
  <2>3. Soon(h, IF Updated /\ call # "process" THEN 1 ELSE 0, IF Updated THEN 2 ELSE 1)
    BY <1>1, <1>3, <2>2, Sizes DEF Soon
  <2> QED
    BY <1>1, <1>2, <1>3, <1>5, <2>1, <2>3 DEF SoonInv, Soon, Updated, resultVars, collectVars
<1>11. CountInv'
  <2>1. Working' = Working /\ Len(queue) + 1 <= Working /\ Working \in Nat
    BY <1>1, <1>3, <1>5, <1>6, Sizes DEF Working
  <2>2. Taken' = Taken /\ Drained' = Drained /\ Taken \in Nat
    BY <1>1, <1>2, Sizes DEF Taken, Drained, Updated, collectVars
  <2>3. \A m \in {1, 2} : Waiting(m)' => Waiting(m)
    BY <1>2, <1>3 DEF Waiting, resultVars
  <2>4. \A m \in {1, 2} : waited[h] >= m => Waiting(m)
    BY <1>3 DEF Waiting
  <2>5. ASSUME NEW i \in DOMAIN queue', Drained, waited[queue'[i]] >= 1  PROVE i <= Target
    <3>1. CASE i \in DOMAIN queue  BY <1>1, <1>5, <2>5, <3>1 DEF CountInv
    <3>2. CASE i = Len(queue) + 1
      <4>1. Working <= Target  BY <1>1, <1>5, <2>4, <2>5, <3>2 DEF CountInv
      <4> QED  BY <1>1, <2>1, <3>2, <4>1, Sizes
    <3> QED  BY <1>1, <1>5, <3>1, <3>2, Sizes
  <2>6. ASSUME NEW i \in DOMAIN queue', waited[queue'[i]] >= 2  PROVE Taken + i <= Target
    <3>1. CASE i \in DOMAIN queue  BY <1>1, <1>5, <2>6, <3>1 DEF CountInv
    <3>2. CASE i = Len(queue) + 1
      <4>1. Taken + Working <= Target  BY <1>1, <1>5, <2>4, <2>6, <3>2 DEF CountInv
      <4> QED  BY <1>1, <2>1, <2>2, <3>2, <4>1, Sizes
    <3> QED  BY <1>1, <1>5, <3>1, <3>2, Sizes
  <2> QED
    BY <1>1, <1>2, <2>1, <2>2, <2>3, <2>5, <2>6 DEF CountInv, resultVars, collectVars
<1> QED  BY <1>7, <1>8, <1>9, <1>10, <1>11 DEF IInv

\* The steps that move no group.
LEMMA StillInv ==
    ASSUME IInv, Block \/ Begin \/ Empty \/ Again \/ UNCHANGED vars
    PROVE  IInv'
<1>1. TypeOK /\ PlaceInv /\ LimitInv /\ SoonInv /\ CountInv  BY DEF IInv
<1>2. UNCHANGED <<buffer, queue, task, exposed, callbacks, fails, resultVars, completed, data,
                  trainer>>
  BY DEF Block, Begin, Empty, Again, vars, workerVars, collectVars
<1>3. TypeOK'
  <2>1. stuck' \in BOOLEAN /\ call' \in {"idle", "collect", "process"}
    BY <1>1 DEF TypeOK, Block, Begin, Empty, Again, vars, workerVars, collectVars
  <2>2. TasksIn("running")' = TasksIn("running")  BY <1>2 DEF TasksIn
  <2> QED  BY <1>1, <1>2, <2>1, <2>2 DEF TypeOK, resultVars
<1>4. Running' = Running /\ Working' = Working /\ Taken' = Taken
  BY <1>2 DEF Running, TasksIn, Working, Taken
<1>5. PlaceInv'  BY <1>1, <1>2, <1>4 DEF PlaceInv, Apart
<1>6. \A m \in {1, 2} : Waiting(m)' = Waiting(m)  BY <1>2 DEF Waiting, resultVars
<1>7. CASE Empty
  <2>1. queue = <<>> /\ call' = "process"  BY <1>7 DEF Empty
  <2>2. Len(queue) = 0 /\ DOMAIN queue = {} /\ Elements(queue) = {}
    BY <2>1, EmptySeq DEF Elements
  <2>3. LimitInv'  BY <1>1, <1>2, <1>4, <2>1 DEF LimitInv
  <2>4. SoonInv'
    BY <1>1, <1>2, <2>2 DEF SoonInv, Soon, Pending, Updated, resultVars
  <2>5. Working <= Target  BY <1>1, <2>2, Sizes DEF LimitInv, Working
  <2>6. CountInv'
    BY <1>1, <1>2, <1>4, <1>6, <2>2, <2>5 DEF CountInv, resultVars
  <2> QED  BY <1>3, <1>5, <2>3, <2>4, <2>6 DEF IInv
<1>8. CASE ~Empty
  <2>1. /\ call' # call => call' = "collect"
        /\ call' = "idle" => call = "idle"
    BY <1>8 DEF Block, Begin, Again, vars, collectVars
  <2>2. LimitInv'  BY <1>1, <1>2, <1>4, <2>1 DEF LimitInv
  <2>3. Drained' => Drained  BY <1>2, <2>1 DEF Drained, Updated
  <2>4. \A g \in Elements(queue) :
            Soon(g, IF Updated /\ call # "process" THEN 1 ELSE 0, IF Updated THEN 2 ELSE 1)'
    <3> SUFFICES ASSUME NEW g \in Elements(queue)
                 PROVE  Soon(g, IF Updated /\ call # "process" THEN 1 ELSE 0,
                                 IF Updated THEN 2 ELSE 1)'
      BY <1>2
    <3>1. Soon(g, IF Updated /\ call # "process" THEN 1 ELSE 0, IF Updated THEN 2 ELSE 1)
      BY <1>1 DEF SoonInv
    <3>2. waited[g] \in Nat  BY <1>1, Sizes
    <3> QED  BY <1>2, <2>1, <3>1, <3>2 DEF Soon, Updated, resultVars
  <2>5. SoonInv'
    BY <1>1, <1>2, <2>4 DEF SoonInv, Soon, Pending, Updated, resultVars
  <2>6. CountInv'
    BY <1>1, <1>2, <1>4, <1>6, <2>3 DEF CountInv, resultVars
  <2> QED  BY <1>3, <1>5, <2>2, <2>5, <2>6 DEF IInv
<1> QED  BY <1>7, <1>8

LEMMA GetInv ==
    ASSUME IInv, Get
    PROVE  IInv'
<1> DEFINE h == Head(queue)
<1>1. TypeOK /\ PlaceInv /\ LimitInv /\ SoonInv /\ CountInv  BY DEF IInv
<1>2. /\ call = "collect" /\ queue # <<>>
      /\ completed' = Append(completed, h) /\ queue' = Tail(queue)
      /\ UNCHANGED <<buffer, workerVars, resultVars, call, data, trainer>>
  BY DEF Get
<1>3. /\ queue' \in Seq(Group) /\ NoRepeats(queue')
      /\ Len(queue) \in Nat \ {0} /\ Len(queue') = Len(queue) - 1
      /\ \A i \in DOMAIN queue' :
            i \in 1..(Len(queue) - 1) /\ i + 1 \in DOMAIN queue /\ queue'[i] = queue[i + 1]
      /\ 1 \in DOMAIN queue /\ h = queue[1] /\ h \in Group /\ h \in Elements(queue)
      /\ Elements(queue') = Elements(queue) \ {h}
  <2>1. queue \in Seq(Group) /\ NoRepeats(queue)  BY <1>1 DEF PlaceInv
  <2> QED  BY <1>2, <2>1, TailElements
<1>4. Apart(Elements(buffer), Running, Elements(callbacks), Elements(queue),
            Elements(completed), data)
  BY <1>1 DEF PlaceInv
<1>5. /\ completed' \in Seq(Group) /\ Elements(completed') = Elements(completed) \cup {h}
      /\ NoRepeats(completed') /\ Len(completed') = Len(completed) + 1
      /\ DOMAIN completed' = 1..(Len(completed) + 1)
      /\ \A i \in DOMAIN completed : completed'[i] = completed[i]
      /\ completed'[Len(completed) + 1] = h
  <2>1. completed \in Seq(Group) /\ NoRepeats(completed)  BY <1>1 DEF PlaceInv
  <2>2. h \notin Elements(completed)  BY <1>3, <1>4 DEF Apart
  <2> QED  BY <1>2, <1>3, <2>1, <2>2, AppendElements, AppendProperties, LenProperties
<1> HIDE DEF h
<1>6. Running' = Running  BY <1>2 DEF Running, TasksIn, workerVars
<1>7. TypeOK'
  <2>1. Elements(completed') \subseteq Group /\ Elements(queue') \subseteq Group
    BY <1>1, <1>3, <1>5, Sizes
  <2>2. Len(queue') <= QueueSize  BY <1>1, <1>3, AsyncAssumption DEF TypeOK
  <2>3. TasksIn("running")' = TasksIn("running")  BY <1>6 DEF Running
  <2> QED  BY <1>1, <1>2, <2>1, <2>2, <2>3 DEF TypeOK, workerVars, resultVars
<1>8. PlaceInv'
  <2>1. Apart(Elements(buffer'), Running', Elements(callbacks'), Elements(queue'),
              Elements(completed'), data')
    BY <1>2, <1>3, <1>4, <1>5, <1>6 DEF Apart, workerVars
  <2> QED  BY <1>1, <1>2, <1>3, <1>5, <2>1 DEF PlaceInv, workerVars
<1>9. LimitInv'
  BY <1>1, <1>2, <1>6, Sizes DEF LimitInv, workerVars
<1>10. SoonInv'
  <2>1. late' \subseteq Pending' \cup data'
    BY <1>1, <1>2, <1>3, <1>5 DEF SoonInv, Pending, resultVars, workerVars
  <2>2. Soon(h, IF Updated /\ call # "process" THEN 1 ELSE 0, IF Updated THEN 2 ELSE 1)
    BY <1>1, <1>3 DEF SoonInv
  <2>3. Soon(h, 1, 2)  BY <1>1, <1>3, <2>2, Sizes DEF Soon
  <2> QED
    BY <1>1, <1>2, <1>3, <1>5, <2>1, <2>3 DEF SoonInv, Soon, Updated, resultVars, workerVars
<1>11. CountInv'
  <2>1. Working' = Working - 1 /\ Working \in Nat
    BY <1>1, <1>2, <1>3, <1>6, Sizes DEF Working, workerVars
  <2>2. Taken' = Taken + 1 /\ Drained' = Drained /\ Taken \in Nat
    <3>1. Drained' = Drained  BY <1>2 DEF Drained, Updated
    <3>2. data' = data  BY <1>2
    <3>3. Len(completed) \in Nat /\ Cardinality(data) \in Nat  BY <1>1, Sizes
    <3>4. Len(completed') = Len(completed) + 1  BY <1>5
    <3>5. Taken' = Taken + 1 /\ Taken \in Nat  BY <3>2, <3>3, <3>4 DEF Taken
    <3> QED  BY <3>1, <3>5
  <2>3. \A m \in {1, 2} : Waiting(m)' = Waiting(m)
    BY <1>2 DEF Waiting, resultVars, workerVars
  <2>4. /\ Drained /\ Waiting(1) => Working' <= Target
        /\ Waiting(2) => Taken' + Working' <= Target
    BY <1>1, <2>1, <2>2, Sizes DEF CountInv
  <2>5. ASSUME NEW i \in DOMAIN queue', Drained, waited[queue'[i]] >= 1  PROVE i <= Target
    <3>1. i + 1 <= Target  BY <1>1, <1>3, <2>5 DEF CountInv
    <3> QED  BY <1>1, <1>3, <3>1, Sizes
  <2>6. ASSUME NEW i \in DOMAIN queue', waited[queue'[i]] >= 2  PROVE Taken' + i <= Target
    <3>1. Taken + (i + 1) <= Target  BY <1>1, <1>3, <2>6 DEF CountInv
    <3>2. i \in Int /\ Target \in Int  BY <1>1, <1>3, Sizes
    <3> QED  BY <2>2, <3>1, <3>2
  <2>7. ASSUME NEW i \in DOMAIN completed', waited[completed'[i]] >= 2
        PROVE  Cardinality(data) + i <= Target
    <3>1. CASE i \in DOMAIN completed  BY <1>1, <1>5, <2>7, <3>1 DEF CountInv
    <3>2. CASE i = Len(completed) + 1
      <4>1. Taken + 1 <= Target  BY <1>1, <1>3, <1>5, <2>7, <3>2 DEF CountInv
      <4> QED  BY <1>1, <3>2, <4>1, Sizes DEF Taken
    <3> QED  BY <1>1, <1>5, <3>1, <3>2, Sizes
  <2> QED
    BY <1>2, <2>2, <2>3, <2>4, <2>5, <2>6, <2>7 DEF CountInv, resultVars
<1> QED  BY <1>7, <1>8, <1>9, <1>10, <1>11 DEF IInv

\* Forgetting leaves all other groups alone.
LEMMA Forgotten ==
    ASSUME TypeOK, NEW G \in SUBSET Group, Forget(G)
    PROVE  /\ result' \in [Group -> {"complete", "aborted"}]
           /\ waited' \in [Group -> 0..MaxWaited] /\ late' = late \ G
           /\ \A g \in Group \ G : waited'[g] = waited[g] /\ result'[g] = result[g]
<1>1. 0 \in 0..MaxWaited  BY AsyncAssumption
<1> QED  BY <1>1 DEF TypeOK, Forget

\* The first of the collected groups leaves them.
LEMMA ProcessInv ==
    ASSUME IInv, Process
    PROVE  IInv'
<1> DEFINE h == Head(completed)
<1>1. TypeOK /\ PlaceInv /\ LimitInv /\ SoonInv /\ CountInv  BY DEF IInv
<1>2. /\ call = "process" /\ completed # <<>> /\ Cardinality(data) < Target
      /\ completed' = Tail(completed)
      /\ UNCHANGED <<queue, workerVars, call, trainer>>
  BY DEF Process
<1>3. /\ completed' \in Seq(Group) /\ NoRepeats(completed')
      /\ Len(completed) \in Nat \ {0} /\ Len(completed') = Len(completed) - 1
      /\ \A i \in DOMAIN completed' : i \in 1..(Len(completed) - 1) /\ i + 1 \in DOMAIN completed
                                      /\ completed'[i] = completed[i + 1]
      /\ h \in Group /\ h \in Elements(completed)
      /\ Elements(completed') = Elements(completed) \ {h}
  <2>1. completed \in Seq(Group) /\ NoRepeats(completed)  BY <1>1 DEF PlaceInv
  <2> QED  BY <1>2, <2>1, TailElements
<1>4. \/ /\ Rejected(h) /\ buffer' = Append(buffer, h) /\ Forget({h}) /\ data' = data
      \/ ~Rejected(h) /\ data' = data \cup {h} /\ UNCHANGED <<buffer, resultVars>>
  BY DEF Process
<1>5. Apart(Elements(buffer), Running, Elements(callbacks), Elements(queue),
            Elements(completed), data)
  BY <1>1 DEF PlaceInv
<1>6. \A i \in DOMAIN completed' : completed'[i] \in Elements(completed')
  BY DEF Elements
<1> HIDE DEF h
<1>7. Running' = Running /\ Drained' = Drained /\ Working' = Working /\ Updated' = Updated
  BY <1>2 DEF Running, TasksIn, Drained, Updated, Working, workerVars
<1>8. /\ IsFiniteSet(data) /\ Cardinality(data) \in Nat /\ Target \in Nat
      /\ Elements(completed') \subseteq Group
  BY <1>1, <1>3, Sizes
<1>9. TasksIn("running")' = TasksIn("running")  BY <1>7 DEF Running
<1>10. CASE Rejected(h)
  <2>1. buffer' = Append(buffer, h) /\ Forget({h}) /\ data' = data  BY <1>4, <1>10
  <2>2. /\ buffer' \in Seq(Group) /\ NoRepeats(buffer')
        /\ Elements(buffer') = Elements(buffer) \cup {h}
    <3>1. buffer \in Seq(Group) /\ NoRepeats(buffer)  BY <1>1 DEF PlaceInv
    <3>2. h \notin Elements(buffer)  BY <1>3, <1>5 DEF Apart
    <3> QED  BY <1>3, <2>1, <3>1, <3>2, AppendElements
  <2>3. /\ result' \in [Group -> {"complete", "aborted"}]
        /\ waited' \in [Group -> 0..MaxWaited] /\ late' = late \ {h}
        /\ \A g \in Group \ {h} : waited'[g] = waited[g] /\ result'[g] = result[g]
    BY <1>1, <1>3, <2>1, Forgotten
  <2>4. \A g \in Elements(callbacks) \cup Elements(queue) \cup Elements(completed') \cup data :
            waited'[g] = waited[g] /\ result'[g] = result[g]
    <3>1. h \notin Elements(callbacks) \cup Elements(queue) \cup Elements(completed') \cup data
      BY <1>3, <1>5 DEF Apart
    <3> QED  BY <1>1, <1>8, <2>3, <3>1, Sizes
  <2>5. TypeOK'
    <3>1. Elements(buffer') \subseteq Group  BY <1>1, <1>3, <2>2, Sizes
    <3> QED  BY <1>1, <1>2, <1>8, <1>9, <2>1, <2>3, <3>1 DEF TypeOK, workerVars
  <2>6. PlaceInv'
    <3>1. Apart(Elements(buffer'), Running', Elements(callbacks'), Elements(queue'),
                Elements(completed'), data')
      BY <1>2, <1>3, <1>5, <1>7, <2>1, <2>2 DEF Apart, workerVars
    <3> QED  BY <1>1, <1>2, <1>3, <2>2, <3>1 DEF PlaceInv, workerVars
  <2>7. LimitInv'
    BY <1>1, <1>2, <1>7, <2>1 DEF LimitInv, workerVars
  <2>8. SoonInv'
    <3>1. late' \subseteq Pending' \cup data'
      BY <1>1, <1>2, <1>3, <2>1, <2>3 DEF SoonInv, Pending, workerVars
    <3>2. \A g \in Elements(callbacks) \cup Elements(queue) \cup Elements(completed') \cup data :
              g \in Group /\ g # h /\ (g \in late' <=> g \in late)
      BY <1>1, <1>3, <1>5, <1>8, <2>3, Sizes DEF Apart
    <3> QED
      BY <1>1, <1>2, <1>3, <2>1, <2>4, <3>1, <3>2 DEF SoonInv, Soon, Updated, workerVars
  <2>9. CountInv'
    <3>1. Taken' = Taken - 1 /\ Taken \in Nat /\ Working \in Nat
      <4>1. data' = data  BY <2>1
      <4>2. Len(completed) \in Nat /\ Len(completed') = Len(completed) - 1  BY <1>3
      <4>3. Taken' = Taken - 1 /\ Taken \in Nat  BY <1>8, <4>1, <4>2 DEF Taken
      <4>4. Working \in Nat  BY <1>1, Sizes DEF Working
      <4> QED  BY <4>3, <4>4
    <3>2. \A m \in {1, 2} : Waiting(m)' => Waiting(m)
      BY <1>2, <2>4 DEF Waiting, workerVars
    <3>3. \A i \in DOMAIN queue : waited'[queue[i]] = waited[queue[i]]
      BY <1>1, <2>4, Sizes
    <3>4. /\ Drained /\ Waiting(1)' => Working <= Target
          /\ Waiting(2)' => Taken' + Working <= Target
      BY <1>1, <1>8, <3>1, <3>2 DEF CountInv
    <3>5. ASSUME NEW i \in DOMAIN queue, waited'[queue[i]] >= 2  PROVE Taken' + i <= Target
      <4>1. Taken + i <= Target  BY <1>1, <3>3, <3>5 DEF CountInv
      <4> QED  BY <1>1, <1>8, <3>1, <4>1, Sizes
    <3>6. ASSUME NEW i \in DOMAIN completed', waited'[completed'[i]] >= 2
          PROVE  Cardinality(data) + i <= Target
      <4>1. waited[completed[i + 1]] >= 2  BY <1>3, <1>6, <2>4, <3>6
      <4>2. Cardinality(data) + (i + 1) <= Target  BY <1>1, <1>3, <4>1 DEF CountInv
      <4> QED  BY <1>3, <1>8, <4>2
    <3> QED
      BY <1>1, <1>2, <1>7, <2>1, <3>3, <3>4, <3>5, <3>6 DEF CountInv
  <2> QED  BY <2>5, <2>6, <2>7, <2>8, <2>9 DEF IInv
<1>11. CASE ~Rejected(h)
  <2>1. data' = data \cup {h} /\ UNCHANGED <<buffer, resultVars>>  BY <1>4, <1>11
  <2>2. Cardinality(data') = Cardinality(data) + 1
    <3>1. h \notin data  BY <1>3, <1>5 DEF Apart
    <3> QED  BY <1>8, <2>1, <3>1, FS_AddElement
  <2>3. result[h] = "complete"  BY <1>1, <1>3, <1>11 DEF TypeOK, Rejected
  <2>4. TypeOK'
    BY <1>1, <1>2, <1>3, <1>8, <1>9, <2>1 DEF TypeOK, workerVars, resultVars
  <2>5. PlaceInv'
    <3>1. Apart(Elements(buffer'), Running', Elements(callbacks'), Elements(queue'),
                Elements(completed'), data')
      BY <1>2, <1>3, <1>5, <1>7, <2>1 DEF Apart, workerVars
    <3> QED  BY <1>1, <1>2, <1>3, <2>1, <3>1 DEF PlaceInv, workerVars
  <2>6. LimitInv'
    BY <1>1, <1>2, <1>7, <1>8, <2>2 DEF LimitInv, workerVars
  <2>7. SoonInv'
    <3>1. late' \subseteq Pending' \cup data'
      BY <1>1, <1>2, <1>3, <2>1 DEF SoonInv, Pending, workerVars, resultVars
    <3>2. Soon(h, 1, 2)  BY <1>1, <1>3 DEF SoonInv
    <3> QED
      BY <1>1, <1>2, <1>3, <2>1, <2>3, <3>1, <3>2
      DEF SoonInv, Soon, Updated, workerVars, resultVars
  <2>8. CountInv'
    <3>1. Taken' = Taken  BY <1>1, <1>3, <1>8, <2>2, Sizes DEF Taken
    <3>2. \A m \in {1, 2} : Waiting(m)' = Waiting(m)
      BY <1>2, <2>1 DEF Waiting, workerVars, resultVars
    <3>3. ASSUME NEW i \in DOMAIN completed', waited[completed'[i]] >= 2
          PROVE  Cardinality(data') + i <= Target
      <4>1. Cardinality(data) + (i + 1) <= Target  BY <1>1, <1>3, <3>3 DEF CountInv
      <4> QED  BY <1>3, <1>8, <2>2, <4>1
    <3> QED
      BY <1>1, <1>2, <1>7, <2>1, <3>1, <3>2, <3>3 DEF CountInv, resultVars
  <2> QED  BY <2>4, <2>5, <2>6, <2>7, <2>8 DEF IInv
<1> QED  BY <1>10, <1>11

\* A whole batch is taken; what still waits has not waited for too many updates.
LEMMA ReturnInv ==
    ASSUME IInv, Return
    PROVE  IInv'
<1> DEFINE G == data \cup Elements(completed)
<1>1. TypeOK /\ PlaceInv /\ LimitInv /\ SoonInv /\ CountInv  BY DEF IInv
<1>2. Len(<<>>) = 0 /\ DOMAIN <<>> = {} /\ <<>> \in Seq(Group) /\ Cardinality({}) = 0
  BY EmptySeq, FS_EmptySet
<1>3. Elements(<<>>) = {} /\ NoRepeats(<<>>)  BY <1>2 DEF Elements, NoRepeats
<1>4. /\ call = "process" /\ Cardinality(data) = Target
      /\ call' = "idle" /\ data' = {} /\ completed' = <<>> /\ trainer' = "idle" /\ Forget(G)
      /\ UNCHANGED <<buffer, queue, workerVars>>
  BY <1>3 DEF Return, Leftover
<1>5. /\ result' \in [Group -> {"complete", "aborted"}]
      /\ waited' \in [Group -> 0..MaxWaited] /\ late' = late \ G
      /\ \A g \in Group \ G : waited'[g] = waited[g] /\ result'[g] = result[g]
  <2>1. G \in SUBSET Group  BY <1>1, Sizes
  <2> HIDE DEF G
  <2> QED  BY <1>1, <1>4, <2>1, Forgotten
<1>6. \A g \in Elements(callbacks) \cup Elements(queue) :
          g \in Group /\ waited'[g] = waited[g] /\ (g \in late' <=> g \in late)
  <2>1. \A g \in Elements(callbacks) \cup Elements(queue) : g \in Group /\ g \notin G
    BY <1>1, Sizes DEF PlaceInv, Apart
  <2> QED  BY <1>5, <2>1
<1>7. Running' = Running /\ Working' = Working /\ Drained
  BY <1>4 DEF Running, TasksIn, Working, Drained, workerVars
<1>8. ~Waiting(2) /\ \A i \in DOMAIN queue : ~(waited[queue[i]] >= 2)
  <2>1. Taken >= Target /\ Taken \in Nat /\ Working \in Nat
    BY <1>1, <1>4, Sizes DEF Taken, Working
  <2>2. ASSUME Waiting(2)  PROVE FALSE
    <3>1. callbacks \in Seq(Group) /\ callbacks # <<>>
      BY <1>1, <1>3, <2>2 DEF Waiting, PlaceInv
    <3>2. Len(callbacks) # 0  BY <3>1, EmptySeq
    <3>3. Working >= 1  BY <1>1, <3>2, Sizes DEF Working
    <3> QED  BY <1>1, <2>1, <2>2, <3>3, Sizes DEF CountInv
  <2>3. ASSUME NEW i \in DOMAIN queue, waited[queue[i]] >= 2  PROVE FALSE
    <3>1. Taken + i <= Target  BY <1>1, <2>3 DEF CountInv
    <3> QED  BY <1>1, <2>1, <3>1, Sizes
  <2> QED  BY <2>2, <2>3
<1>9. TypeOK'
  <2>1. TasksIn("running")' = TasksIn("running")  BY <1>7 DEF Running
  <2> QED  BY <1>1, <1>3, <1>4, <1>5, <2>1 DEF TypeOK, workerVars
<1>10. PlaceInv'
  BY <1>1, <1>2, <1>3, <1>4, <1>7 DEF PlaceInv, Apart, workerVars
<1>11. LimitInv'
  BY <1>1, <1>2, <1>4, <1>7, Sizes DEF LimitInv, workerVars
<1>12. SoonInv'
  <2>1. late' \subseteq Pending' \cup data'
    BY <1>1, <1>4, <1>5 DEF SoonInv, Pending, workerVars
  <2>2. \A g \in Elements(callbacks) : Soon(g, 0, 1)'
    <3>1. \A g \in Elements(callbacks) : waited[g] <= 1 /\ (g \notin late => waited[g] <= 0)
      BY <1>1, <1>6, <1>8, Sizes DEF SoonInv, Soon, Waiting
    <3> QED  BY <1>6, <3>1 DEF Soon
  <2>3. \A g \in Elements(queue) : Soon(g, 0, 1)'
    <3>1. \A g \in Elements(queue) : ~(waited[g] >= 2)  BY <1>8 DEF Elements
    <3>2. \A g \in Elements(queue) : waited[g] <= 1 /\ (g \notin late => waited[g] <= 0)
      BY <1>1, <1>4, <3>1, Sizes DEF SoonInv, Soon
    <3> QED  BY <1>6, <3>2 DEF Soon
  <2>4. ~Updated' /\ data' = {} /\ Elements(completed') = {} /\ UNCHANGED <<callbacks, queue>>
    BY <1>3, <1>4 DEF Updated, workerVars
  <2> QED  BY <2>1, <2>2, <2>3, <2>4 DEF SoonInv
<1>13. CountInv'
  <2>1. \A m \in {1, 2} : Waiting(m)' => Waiting(m)
    BY <1>4, <1>6 DEF Waiting, workerVars
  <2>2. \A i \in DOMAIN queue : waited'[queue[i]] = waited[queue[i]]
    BY <1>1, <1>6, Sizes
  <2>3. UNCHANGED queue /\ DOMAIN completed' = {}  BY <1>2, <1>4
  <2> QED  BY <1>1, <1>7, <1>8, <2>1, <2>2, <2>3 DEF CountInv
<1> QED  BY <1>9, <1>10, <1>11, <1>12, <1>13 DEF IInv

\* The results that wait have waited for one more update.
LEMMA UpdateInv ==
    ASSUME IInv, Update
    PROVE  IInv'
<1>1. TypeOK /\ PlaceInv /\ LimitInv /\ SoonInv /\ CountInv  BY DEF IInv
<1>2. /\ call = "idle" /\ trainer = "idle" /\ trainer' = "updated"
      /\ exposed' = TasksIn("running") /\ late' = late \cup Elements(callbacks)
      /\ waited' = [g \in Group |->
                     IF g \in Pending THEN MinOf(waited[g] + 1, MaxWaited) ELSE waited[g]]
      /\ UNCHANGED <<buffer, queue, task, callbacks, stuck, fails, result, collectVars>>
  BY DEF Update
<1>3. data = {} /\ completed = <<>> /\ Elements(completed) = {} /\ DOMAIN completed = {}
  <2>1. data = {} /\ completed = <<>>  BY <1>1, <1>2 DEF LimitInv
  <2> QED  BY <2>1, EmptySeq DEF Elements
<1>4. waited' \in [Group -> 0..MaxWaited] /\ \A g \in Group : waited'[g] <= waited[g] + 1
  BY <1>1, <1>2, AsyncAssumption DEF TypeOK, MinOf
<1>5. Running' = Running /\ Working' = Working /\ Taken' = Taken /\ Taken = 0
  <2>1. Running' = Running /\ Working' = Working /\ Taken' = Taken
    BY <1>2 DEF Running, TasksIn, Working, Taken, collectVars
  <2>2. Taken = 0  BY <1>3, EmptySeq, FS_EmptySet DEF Taken
  <2> QED  BY <2>1, <2>2
<1>6. ~Updated /\ Drained /\ Updated' /\ ~Drained'
  BY <1>2 DEF Updated, Drained, collectVars
<1>7. TypeOK'
  <2>1. TasksIn("running")' = TasksIn("running")  BY <1>5 DEF Running
  <2>2. late' \subseteq Group /\ exposed' \subseteq Group
    BY <1>1, <1>2 DEF TypeOK, TasksIn
  <2> QED  BY <1>1, <1>2, <1>4, <2>1, <2>2 DEF TypeOK, collectVars
<1>8. PlaceInv'
  BY <1>1, <1>2, <1>5 DEF PlaceInv, Apart, collectVars
<1>9. LimitInv'
  BY <1>1, <1>2, <1>5 DEF LimitInv, collectVars
<1>10. SoonInv'
  <2>1. late' \subseteq Pending' \cup data'
    BY <1>1, <1>2 DEF SoonInv, Pending, collectVars
  <2>2. \A g \in Elements(callbacks) : g \in late' /\ waited'[g] <= 2
    <3>1. \A g \in Elements(callbacks) : waited[g] <= 1  BY <1>1, <1>6 DEF SoonInv, Soon
    <3> QED  BY <1>1, <1>2, <1>4, <3>1, Sizes
  <2>3. \A g \in Elements(queue) : (g \notin late' => waited'[g] <= 1) /\ waited'[g] <= 2
    <3>1. \A g \in Elements(queue) : (g \notin late => waited[g] <= 0) /\ waited[g] <= 1
      BY <1>1, <1>6 DEF SoonInv, Soon
    <3> QED  BY <1>1, <1>2, <1>4, <3>1, Sizes
  <2>4. call' # "process"  BY <1>2 DEF collectVars
  <2> QED
    BY <1>2, <1>3, <1>6, <2>1, <2>2, <2>3, <2>4 DEF SoonInv, Soon, collectVars
<1>11. CountInv'
  <2>1. \A g \in Group : waited'[g] >= 2 => waited[g] >= 1  BY <1>1, <1>4, Sizes
  <2>2. Waiting(2)' => Waiting(1)  BY <1>1, <1>2, <2>1, Sizes DEF Waiting
  <2>3. Waiting(2)' => Taken + Working <= Target
    BY <1>1, <1>5, <1>6, <2>2, Sizes DEF CountInv, Working
  <2>4. ASSUME NEW i \in DOMAIN queue, waited'[queue[i]] >= 2  PROVE Taken + i <= Target
    <3>1. waited[queue[i]] >= 1  BY <1>1, <2>1, <2>4, Sizes
    <3>2. i <= Target  BY <1>1, <1>6, <3>1 DEF CountInv
    <3> QED  BY <1>1, <1>5, <3>2, Sizes
  <2> QED  BY <1>2, <1>3, <1>5, <1>6, <2>3, <2>4 DEF CountInv, collectVars
<1> QED  BY <1>7, <1>8, <1>9, <1>10, <1>11 DEF IInv

LEMMA NextInv == IInv /\ [Next]_vars => IInv'
<1> SUFFICES ASSUME IInv, [Next]_vars  PROVE IInv'
  OBVIOUS
<1>1. CASE Worker  BY <1>1, SubmitInv, PutInv, StillInv DEF Worker
<1>2. CASE Collect  BY <1>2, GetInv, ProcessInv, ReturnInv, StillInv DEF Collect
<1>3. CASE Begin \/ UNCHANGED vars  BY <1>3, StillInv
<1>4. CASE Update  BY <1>4, UpdateInv
<1>5. ASSUME NEW g \in Group, Finish(g) \/ Fail(g)  PROVE IInv'
  BY <1>5, FinishInv, FailInv
<1> QED  BY <1>1, <1>2, <1>3, <1>4, <1>5 DEF Next

LEMMA Invariance == Spec => []IInv
  BY InitInv, NextInv, PTL DEF Spec

-----------------------------------------------------------------------------
\* Type correctness, and the limits of the queue and of the tasks in generation.
THEOREM TypeCorrect == Spec => []TypeOK
  BY Invariance, PTL DEF IInv

\* Worker and rollout function take prompts from the data source and hand groups to each
\* other without ever having one group twice, whatever fails, is aborted or waits.
THEOREM OnePlace == Spec => []OneOwner
<1>1. ASSUME IInv  PROVE OneOwner
  <2> DEFINE B == Elements(buffer)  C == Elements(callbacks)
             Q == Elements(queue)   D == Elements(completed)
  <2>1. TypeOK /\ PlaceInv  BY <1>1 DEF IInv
  <2>2. /\ IsFiniteSet(B) /\ Cardinality(B) = Len(buffer)
        /\ IsFiniteSet(C) /\ Cardinality(C) = Len(callbacks)
        /\ IsFiniteSet(Q) /\ Cardinality(Q) = Len(queue)
        /\ IsFiniteSet(D) /\ Cardinality(D) = Len(completed)
    BY <2>1, LenElements DEF PlaceInv
  <2>3. IsFiniteSet(Running) /\ IsFiniteSet(data)
    BY <2>1, GroupsFinite, Sizes
  <2>4. Apart(B, Running, C, Q, D, data)  BY <2>1 DEF PlaceInv
  <2>5. Kept = B \cup Running \cup C \cup Q \cup D \cup data  BY DEF Kept, Running
  <2> HIDE DEF B, C, Q, D
  <2>6. \A S, T : IsFiniteSet(S) /\ IsFiniteSet(T) /\ S \cap T = {}
            => IsFiniteSet(S \cup T) /\ Cardinality(S \cup T) = Cardinality(S) + Cardinality(T)
    <3> SUFFICES ASSUME NEW S, NEW T, IsFiniteSet(S), IsFiniteSet(T), S \cap T = {}
                 PROVE  /\ IsFiniteSet(S \cup T)
                        /\ Cardinality(S \cup T) = Cardinality(S) + Cardinality(T)
      OBVIOUS
    <3>1. /\ IsFiniteSet(S \cup T)
          /\ Cardinality(S \cup T) = Cardinality(S) + Cardinality(T) - Cardinality(S \cap T)
      BY FS_Union
    <3>2. Cardinality(S \cap T) = 0  BY FS_EmptySet
    <3>3. Cardinality(S) \in Nat /\ Cardinality(T) \in Nat  BY FS_CardinalityType
    <3> QED  BY <3>1, <3>2, <3>3
  <2>7. /\ B \cap Running = {} /\ (B \cup Running) \cap C = {}
        /\ (B \cup Running \cup C) \cap Q = {} /\ (B \cup Running \cup C \cup Q) \cap D = {}
        /\ (B \cup Running \cup C \cup Q \cup D) \cap data = {}
    BY <2>4 DEF Apart
  <2>8. /\ IsFiniteSet(B \cup Running)
        /\ Cardinality(B \cup Running) = Cardinality(B) + Cardinality(Running)
    BY <2>2, <2>3, <2>6, <2>7
  <2>9. /\ IsFiniteSet(B \cup Running \cup C)
        /\ Cardinality(B \cup Running \cup C) = Cardinality(B \cup Running) + Cardinality(C)
    BY <2>2, <2>6, <2>7, <2>8
  <2>10. /\ IsFiniteSet(B \cup Running \cup C \cup Q)
         /\ Cardinality(B \cup Running \cup C \cup Q)
              = Cardinality(B \cup Running \cup C) + Cardinality(Q)
    BY <2>2, <2>6, <2>7, <2>9
  <2>11. /\ IsFiniteSet(B \cup Running \cup C \cup Q \cup D)
         /\ Cardinality(B \cup Running \cup C \cup Q \cup D)
              = Cardinality(B \cup Running \cup C \cup Q) + Cardinality(D)
    BY <2>2, <2>6, <2>7, <2>10
  <2>12. Cardinality(Kept) = Cardinality(B \cup Running \cup C \cup Q \cup D)
                             + Cardinality(data)
    BY <2>3, <2>5, <2>6, <2>7, <2>11
  <2> QED  BY <2>2, <2>8, <2>9, <2>10, <2>11, <2>12 DEF OneOwner, Running
<1> QED  BY <1>1, Invariance, PTL

\* A result waits in the queue over one update at most, and over a second one only if it
\* could not be put there before the first, for every size of the queue and of the batch.
THEOREM TakenSoon == Spec => []ResultsTakenSoon
<1>1. ASSUME IInv  PROVE ResultsTakenSoon
  <2>1. \A g \in data : /\ result[g] = "complete" /\ waited[g] <= 2
                        /\ g \notin late => waited[g] <= 1
    BY <1>1 DEF IInv, SoonInv, Soon
  <2> QED  BY <2>1 DEF ResultsTakenSoon
<1> QED  BY <1>1, Invariance, PTL
=============================================================================
