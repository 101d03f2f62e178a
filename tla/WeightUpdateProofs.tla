------------------------- MODULE WeightUpdateProofs -------------------------
(* Proofs about WeightUpdate: its types, and that the Lock keeps the engines' calls *)
(* in one order, for any number of stages, buckets, engines and requests. *)
EXTENDS WeightUpdate, SequenceTheorems, TLAPS

Place == {"pause", "flush", "lock", "send", "release", "resume", "barrier"}

Sending(p) == rank[p] \in {"send", "release"}

\* One rank at a time is between acquire and release, and _locked says so.
OneSender == \A p, q \in Rank : Sending(p) /\ Sending(q) => p = q

LockHeld == ~FromTensor /\ (\E p \in Rank : Sending(p)) => locked

\* An engine has no call, or the one of the rank that sends.
OneCall ==
    \A e \in Engine :
        inbox[e] # <<>> =>
            \E p \in Rank : rank[p] = "send" /\ inbox[e] = <<p>> /\ e \notin coming[p]

IdleAtBarrier == stage = "idle" => AtBarrier

\* A rank that sends has something to send.
SomeLeft == \A p \in Rank : rank[p] \in {"lock", "send", "release"} => left[p] >= 1

IInv == TypeOK /\ OneSender /\ LockHeld /\ OneCall /\ IdleAtBarrier /\ SomeLeft

----------------------------------------------------------------------------
\* The ranks and parts of a job.
LEMMA RankType ==
    /\ 0 \in Rank
    /\ FromTensor => Rank = {0}
  BY UpdateAssumption DEF Rank

LEMMA SameJob ==
    ASSUME job' = job
    PROVE  /\ Rank' = Rank /\ Part' = Part /\ FromTensor' = FromTensor
  BY DEF Rank, Part, Kind, FromTensor

LEMMA InitInv == Init => IInv
<1> SUFFICES ASSUME Init  PROVE IInv
  OBVIOUS
<1>1. TypeOK
  <2>1. {} \subseteq Engine /\ 0 \in 0..NumBuckets /\ 0 \in Version /\ <<>> \in Seq(Rank)
    BY UpdateAssumption DEF Version
  <2> QED  BY <2>1 DEF Init, TypeOK
<1>2. \A p \in Rank : rank[p] = "barrier"  BY DEF Init
<1>3. \A e \in Engine : inbox[e] = <<>>  BY DEF Init
<1> QED
  BY <1>1, <1>2, <1>3
  DEF IInv, OneSender, LockHeld, OneCall, IdleAtBarrier, AtBarrier, SomeLeft, Sending

\* Steps that leave the trainer and the calls alone.
LEMMA TrainerSame ==
    ASSUME IInv, TypeOK', UNCHANGED <<job, trainerVars, inbox>>
    PROVE  IInv'
<1>1. job' = job /\ stage' = stage /\ rank' = rank /\ left' = left /\ coming' = coming
      /\ locked' = locked /\ inbox' = inbox
  BY DEF trainerVars
<1>2. Rank' = Rank /\ FromTensor' = FromTensor  BY <1>1, SameJob
<1> QED
  BY <1>1, <1>2
  DEF IInv, OneSender, LockHeld, OneCall, IdleAtBarrier, AtBarrier, SomeLeft, Sending

\* Steps at which a rank that does not send moves to another such place.
LEMMA NobodySends ==
    ASSUME IInv, TypeOK', job' = job, inbox' = inbox, coming' = coming, locked' = locked,
           \A p \in Rank : rank'[p] # rank[p] =>
               /\ rank[p] \notin {"send", "release"}
               /\ rank'[p] \notin {"send", "release"}
    PROVE  OneSender' /\ LockHeld' /\ OneCall'
<1>1. Rank' = Rank /\ FromTensor' = FromTensor  BY SameJob
<1>2. \A p \in Rank : Sending(p)' <=> Sending(p)  BY DEF Sending
<1>3. \A p \in Rank : rank'[p] = "send" <=> rank[p] = "send"  OBVIOUS
<1>4. OneSender'  BY <1>1, <1>2 DEF IInv, OneSender
<1>5. LockHeld'  BY <1>1, <1>2 DEF IInv, LockHeld
<1>6. OneCall'  BY <1>1, <1>3 DEF IInv, OneCall
<1> QED  BY <1>4, <1>5, <1>6

----------------------------------------------------------------------------
\* The trainer's steps.

LEMMA BeginInv ==
    ASSUME IInv, Begin
    PROVE  IInv'
<1>1. /\ job' = job /\ left' = left /\ coming' = coming /\ locked' = locked /\ inbox' = inbox
      /\ stage' = "pause" /\ version' = version + 1 /\ version < MaxUpdates /\ stage = "idle"
      /\ rank' = [p \in Rank |-> IF p = 0 THEN "pause" ELSE "barrier"]
  BY DEF Begin, modelVars
<1>2. Rank' = Rank /\ Part' = Part  BY <1>1, SameJob
<1>3. TypeOK'
  <2>1. version + 1 \in Version  BY <1>1, UpdateAssumption DEF IInv, TypeOK, Version
  <2> QED  BY <1>1, <1>2, <2>1 DEF IInv, TypeOK, Begin, modelVars, requestVars
<1>4. \A p \in Rank : rank[p] = "barrier"  BY <1>1 DEF IInv, IdleAtBarrier, AtBarrier
<1>5. OneSender' /\ LockHeld' /\ OneCall'
  <2>1. \A p \in Rank : rank'[p] # rank[p] =>
            /\ rank[p] \notin {"send", "release"}
            /\ rank'[p] \notin {"send", "release"}
    BY <1>1, <1>4
  <2> QED  BY <1>1, <1>3, <2>1, NobodySends
<1>6. IdleAtBarrier' /\ SomeLeft'
  BY <1>1, <1>2 DEF IdleAtBarrier, SomeLeft
<1> QED  BY <1>3, <1>5, <1>6 DEF IInv

\* Rank 0 goes from one place to another before the first bucket or after the last.
LEMMA RankZeroInv ==
    ASSUME IInv, TypeOK', job' = job, stage' = stage, inbox' = inbox, coming' = coming,
           locked' = locked, left' = left, NEW from, NEW to,
           rank[0] = from, rank' = [rank EXCEPT ![0] = to],
           from \notin {"send", "release", "barrier"}, to \in {"flush", "barrier"}
    PROVE  IInv'
<1>1. Rank' = Rank /\ 0 \in Rank  BY SameJob, RankType
<1>2. rank \in [Rank -> Place]  BY DEF IInv, TypeOK, Place
<1>3. OneSender' /\ LockHeld' /\ OneCall'
  <2>1. \A p \in Rank : rank'[p] # rank[p] =>
            /\ rank[p] \notin {"send", "release"}
            /\ rank'[p] \notin {"send", "release"}
    BY <1>1, <1>2
  <2> QED  BY <2>1, NobodySends
<1>4. IdleAtBarrier'
  <2>1. ~AtBarrier  BY <1>1 DEF AtBarrier
  <2> QED  BY <2>1 DEF IInv, IdleAtBarrier
<1>5. SomeLeft'  BY <1>1, <1>2 DEF IInv, SomeLeft
<1> QED  BY <1>3, <1>4, <1>5 DEF IInv

LEMMA PauseInv ==
    ASSUME IInv, Pause
    PROVE  IInv'
<1>1. job' = job  BY DEF Pause
<1>2. Rank' = Rank /\ Part' = Part /\ 0 \in Rank  BY <1>1, SameJob, RankType
<1>3. TypeOK'
  BY <1>1, <1>2 DEF IInv, TypeOK, Pause, modelVars, requestVars
<1> QED  BY <1>1, <1>3, RankZeroInv DEF Pause, modelVars

LEMMA FlushInv ==
    ASSUME IInv, Flush
    PROVE  IInv'
<1>1. job' = job  BY DEF Flush
<1>2. Rank' = Rank /\ Part' = Part /\ 0 \in Rank  BY <1>1, SameJob, RankType
<1>3. TypeOK'
  <2>1. \A e \in Engine : Flushed(e) \in SUBSET Version  BY DEF IInv, TypeOK, Flushed
  <2> QED  BY <1>1, <1>2, <2>1 DEF IInv, TypeOK, Flush, requestVars
<1> QED  BY <1>1, <1>3, RankZeroInv DEF Flush

LEMMA ContinueInv ==
    ASSUME IInv, Continue
    PROVE  IInv'
<1>1. job' = job  BY DEF Continue
<1>2. Rank' = Rank /\ Part' = Part /\ 0 \in Rank  BY <1>1, SameJob, RankType
<1>3. TypeOK'
  BY <1>1, <1>2 DEF IInv, TypeOK, Continue, modelVars, requestVars
<1> QED  BY <1>1, <1>3, RankZeroInv DEF Continue, modelVars

LEMMA BarrierInv ==
    ASSUME IInv, Barrier
    PROVE  IInv'
<1>1. /\ job' = job /\ coming' = coming /\ locked' = locked /\ inbox' = inbox
      /\ stage' = Following /\ stage # "idle" /\ AtBarrier
      /\ rank' = [p \in Rank |-> Work(stage', p)]
      /\ left' = [p \in Rank |-> IF stage' \in {"dense", "expert"} THEN NumBuckets ELSE 0]
  BY DEF Barrier, modelVars
<1>2. Rank' = Rank /\ Part' = Part  BY <1>1, SameJob
<1>3. stage' \in {"idle", "dense", "expert", "resume"}
  BY <1>1 DEF IInv, TypeOK, Following
<1>4. \A p \in Rank :
          /\ rank'[p] \in {"lock", "resume", "barrier"}
          /\ stage' = "idle" => rank'[p] = "barrier"
          /\ rank'[p] = "lock" => left'[p] >= 1
  BY <1>1, <1>3, UpdateAssumption DEF Work
<1>5. TypeOK'
  <2>1. left' \in [Rank -> 0..NumBuckets]  BY <1>1, UpdateAssumption
  <2>2. rank' \in [Rank -> {"pause", "flush", "lock", "send", "release", "resume", "barrier"}]
    BY <1>1, <1>4
  <2> QED  BY <1>1, <1>2, <1>3, <2>1, <2>2 DEF IInv, TypeOK, Barrier, modelVars, requestVars
<1>6. OneSender' /\ LockHeld' /\ OneCall'
  <2>1. \A p \in Rank : rank'[p] # rank[p] =>
            /\ rank[p] \notin {"send", "release"}
            /\ rank'[p] \notin {"send", "release"}
    BY <1>1, <1>4 DEF AtBarrier
  <2> QED  BY <1>1, <1>5, <2>1, NobodySends
<1>7. IdleAtBarrier'  BY <1>2, <1>4 DEF IdleAtBarrier, AtBarrier
<1>8. SomeLeft'  BY <1>2, <1>4 DEF SomeLeft
<1> QED  BY <1>5, <1>6, <1>7, <1>8 DEF IInv

LEMMA AcquireInv ==
    ASSUME IInv, NEW p \in Rank, Acquire(p)
    PROVE  IInv'
<1>1. /\ job' = job /\ stage' = stage /\ left' = left /\ inbox' = inbox
      /\ rank[p] = "lock" /\ MayAcquire
      /\ rank' = [rank EXCEPT ![p] = "send"] /\ locked' = ~FromTensor
      /\ coming' = [coming EXCEPT ![p] = Engine]
  BY DEF Acquire, modelVars
<1>2. Rank' = Rank /\ Part' = Part /\ FromTensor' = FromTensor  BY <1>1, SameJob
<1>3. rank \in [Rank -> Place] /\ job \in Jobs  BY DEF IInv, TypeOK, Place
<1>4. TypeOK'
  <2>1. locked' \in BOOLEAN  BY <1>1
  <2>2. coming' \in [Rank -> SUBSET Engine]  BY <1>1 DEF IInv, TypeOK
  <2> QED  BY <1>1, <1>2, <2>1, <2>2 DEF IInv, TypeOK, Acquire, modelVars, requestVars
<1>5. \A q \in Rank : ~Sending(q)
  <2>1. CASE FromTensor  BY <1>1, <2>1, RankType DEF Sending
  <2>2. CASE ~FromTensor  BY <1>1, <2>2 DEF IInv, LockHeld, MayAcquire
  <2> QED  BY <2>1, <2>2
<1>6. \A q \in Rank : Sending(q)' => q = p  BY <1>1, <1>3, <1>5 DEF Sending
<1>7. OneSender'  BY <1>2, <1>6 DEF OneSender
<1>8. LockHeld'  BY <1>1, <1>2 DEF LockHeld
<1>9. \A e \in Engine : inbox[e] = <<>>  BY <1>5 DEF IInv, OneCall, Sending
<1>10. OneCall'  BY <1>1, <1>9 DEF OneCall
<1>11. IdleAtBarrier'
  <2>1. stage # "idle"  BY <1>1 DEF IInv, IdleAtBarrier, AtBarrier
  <2> QED  BY <1>1, <2>1 DEF IdleAtBarrier
<1>12. SomeLeft'  BY <1>1, <1>2, <1>3 DEF IInv, SomeLeft
<1> QED  BY <1>4, <1>7, <1>8, <1>10, <1>11, <1>12 DEF IInv

\* A rank that sends leaves no other, and a call at an engine is its own.
LEMMA TheSender ==
    ASSUME IInv, NEW p \in Rank, Sending(p)
    PROVE  /\ \A q \in Rank : Sending(q) => q = p
           /\ \A e \in Engine : inbox[e] # <<>> =>
                 rank[p] = "send" /\ inbox[e] = <<p>> /\ e \notin coming[p]
<1>1. \A q \in Rank : Sending(q) => q = p  BY DEF IInv, OneSender
<1>2. ASSUME NEW e \in Engine, inbox[e] # <<>>
      PROVE  rank[p] = "send" /\ inbox[e] = <<p>> /\ e \notin coming[p]
  <2>1. PICK q \in Rank : rank[q] = "send" /\ inbox[e] = <<q>> /\ e \notin coming[q]
    BY <1>2 DEF IInv, OneCall
  <2>2. q = p  BY <1>1, <2>1 DEF Sending
  <2> QED  BY <2>1, <2>2
<1> QED  BY <1>1, <1>2

LEMMA ArriveInv ==
    ASSUME IInv, NEW p \in Rank, NEW e \in Engine, Arrive(p, e)
    PROVE  IInv'
<1>1. /\ job' = job /\ stage' = stage /\ left' = left /\ rank' = rank /\ locked' = locked
      /\ rank[p] = "send" /\ e \in coming[p]
      /\ coming' = [coming EXCEPT ![p] = @ \ {e}]
      /\ inbox' = [inbox EXCEPT ![e] = Append(@, p)]
  BY DEF Arrive
<1>2. Rank' = Rank /\ Part' = Part /\ FromTensor' = FromTensor  BY <1>1, SameJob
<1>3. /\ inbox \in [Engine -> Seq(Rank)] /\ coming \in [Rank -> SUBSET Engine]
  BY DEF IInv, TypeOK
<1>4. Sending(p)  BY <1>1 DEF Sending
<1>5. inbox[e] = <<>>  BY <1>1, <1>4, TheSender
<1>6. Append(inbox[e], p) = <<p>> /\ <<p>> \in Seq(Rank)  BY <1>5
<1>7. TypeOK'
  <2>1. inbox' \in [Engine -> Seq(Rank)]  BY <1>1, <1>3, <1>6
  <2>2. coming' \in [Rank -> SUBSET Engine]  BY <1>1, <1>3
  <2> QED  BY <1>1, <1>2, <2>1, <2>2 DEF IInv, TypeOK, Arrive, requestVars
<1>8. OneCall'
  <2> SUFFICES ASSUME NEW f \in Engine, inbox'[f] # <<>>
               PROVE  rank'[p] = "send" /\ inbox'[f] = <<p>> /\ f \notin coming'[p]
    BY <1>2 DEF OneCall
  <2>1. CASE f = e  BY <1>1, <1>3, <1>6, <2>1
  <2>2. CASE f # e
    <3>1. inbox'[f] = inbox[f]  BY <1>1, <1>3, <2>2
    <3>2. inbox[f] = <<p>> /\ f \notin coming[p]  BY <1>4, <3>1, TheSender
    <3> QED  BY <1>1, <1>3, <3>1, <3>2
  <2> QED  BY <2>1, <2>2
<1>9. OneSender' /\ LockHeld' /\ IdleAtBarrier' /\ SomeLeft'
  BY <1>1, <1>2
  DEF IInv, OneSender, LockHeld, IdleAtBarrier, AtBarrier, SomeLeft, Sending
<1> QED  BY <1>7, <1>8, <1>9 DEF IInv

LEMMA LoadInv ==
    ASSUME IInv, NEW p \in Rank, Load(p)
    PROVE  IInv'
<1>1. /\ job' = job /\ stage' = stage /\ left' = left /\ coming' = coming /\ locked' = locked
      /\ rank[p] = "send" /\ rank' = [rank EXCEPT ![p] = "release"]
      /\ \A e \in Engine : inbox[e] # <<>>
      /\ inbox' = [e \in Engine |-> Tail(inbox[e])]
  BY DEF Load
<1>2. Rank' = Rank /\ Part' = Part /\ FromTensor' = FromTensor  BY <1>1, SameJob
<1>3. rank \in [Rank -> Place]  BY DEF IInv, TypeOK, Place
<1>4. Sending(p)  BY <1>1 DEF Sending
<1>5. \A e \in Engine : inbox'[e] = <<>>
  <2> SUFFICES ASSUME NEW e \in Engine  PROVE Tail(inbox[e]) = <<>>
    BY <1>1
  <2>1. inbox[e] = <<p>>  BY <1>1, <1>4, TheSender
  <2> QED  BY <2>1
<1>6. TypeOK'
  <2>1. inbox' \in [Engine -> Seq(Rank)]
    <3>1. <<>> \in Seq(Rank)  OBVIOUS
    <3> QED  BY <1>1, <1>5, <3>1
  <2>2. part' \in [Engine -> [Part -> Version]]
    BY DEF IInv, TypeOK, Load
  <2>3. rank' \in [Rank -> {"pause", "flush", "lock", "send", "release", "resume", "barrier"}]
    BY <1>1 DEF IInv, TypeOK
  <2> QED  BY <1>1, <1>2, <2>1, <2>2, <2>3 DEF IInv, TypeOK, Load, requestVars
<1>7. \A q \in Rank : Sending(q)' <=> Sending(q)  BY <1>1, <1>3 DEF Sending
<1>8. OneSender' /\ LockHeld'  BY <1>1, <1>2, <1>7 DEF IInv, OneSender, LockHeld
<1>9. OneCall'  BY <1>5 DEF OneCall
<1>10. IdleAtBarrier'
  <2>1. stage # "idle"  BY <1>1 DEF IInv, IdleAtBarrier, AtBarrier
  <2> QED  BY <1>1, <2>1 DEF IdleAtBarrier
<1>11. SomeLeft'  BY <1>1, <1>2, <1>3 DEF IInv, SomeLeft
<1> QED  BY <1>6, <1>8, <1>9, <1>10, <1>11 DEF IInv

LEMMA ReleaseInv ==
    ASSUME IInv, NEW p \in Rank, Release(p)
    PROVE  IInv'
<1>1. /\ job' = job /\ stage' = stage /\ coming' = coming /\ inbox' = inbox
      /\ locked' = FALSE /\ rank[p] = "release"
      /\ left' = [left EXCEPT ![p] = @ - 1]
      /\ rank' = [rank EXCEPT ![p] = IF More(p) THEN "lock" ELSE "barrier"]
  BY DEF Release, modelVars
<1>2. Rank' = Rank /\ Part' = Part /\ FromTensor' = FromTensor  BY <1>1, SameJob
<1>3. /\ rank \in [Rank -> Place] /\ left \in [Rank -> 0..NumBuckets]
      /\ left[p] >= 1 /\ NumBuckets \in Nat
  BY <1>1, UpdateAssumption DEF IInv, TypeOK, Place, SomeLeft
<1>4. Sending(p)  BY <1>1 DEF Sending
<1>5. TypeOK'
  <2>1. left' \in [Rank -> 0..NumBuckets]  BY <1>1, <1>3
  <2>2. rank' \in [Rank -> {"pause", "flush", "lock", "send", "release", "resume", "barrier"}]
    BY <1>1 DEF IInv, TypeOK
  <2>3. locked' \in BOOLEAN  BY <1>1
  <2> QED  BY <1>1, <1>2, <2>1, <2>2, <2>3 DEF IInv, TypeOK, Release, modelVars, requestVars
<1>6. \A q \in Rank : ~Sending(q)'
  <2> SUFFICES ASSUME NEW q \in Rank, Sending(q)'  PROVE FALSE
    OBVIOUS
  <2>1. q # p  BY <1>1, <1>3 DEF Sending
  <2>2. Sending(q)  BY <1>1, <1>3, <2>1 DEF Sending
  <2> QED  BY <1>4, <2>1, <2>2, TheSender
<1>7. OneSender' /\ LockHeld'  BY <1>2, <1>6 DEF OneSender, LockHeld
<1>8. \A e \in Engine : inbox[e] = <<>>  BY <1>1, <1>4, TheSender
<1>9. OneCall'  BY <1>1, <1>8 DEF OneCall
<1>10. IdleAtBarrier'
  <2>1. stage # "idle"  BY <1>1 DEF IInv, IdleAtBarrier, AtBarrier
  <2> QED  BY <1>1, <2>1 DEF IdleAtBarrier
<1>11. SomeLeft'
  <2> SUFFICES ASSUME NEW q \in Rank, rank'[q] \in {"lock", "send", "release"}
               PROVE  left'[q] >= 1
    BY <1>2 DEF SomeLeft
  <2>1. CASE q = p  BY <1>1, <1>3, <2>1 DEF More
  <2>2. CASE q # p  BY <1>1, <1>3, <2>2 DEF IInv, SomeLeft
  <2> QED  BY <2>1, <2>2
<1> QED  BY <1>5, <1>7, <1>9, <1>10, <1>11 DEF IInv

----------------------------------------------------------------------------
\* The engine's steps.

LEMMA AbortAllInv ==
    ASSUME IInv, NEW e \in Engine, AbortAll(e)
    PROVE  IInv'
<1>1. job' = job  BY DEF AbortAll
<1>2. Rank' = Rank /\ Part' = Part  BY <1>1, SameJob
<1>3. aborted' \subseteq Request  BY DEF AbortAll, Scheduled, At, IInv, TypeOK
<1>4. mode' \in [Engine -> {"open", "pausing", "paused"}]  BY DEF AbortAll, IInv, TypeOK
<1>5. TypeOK' /\ UNCHANGED <<job, trainerVars, inbox>>
  BY <1>1, <1>2, <1>3, <1>4 DEF AbortAll, IInv, TypeOK, trainerVars, modelVars
<1> QED  BY <1>5, TrainerSame

LEMMA RequestTypes ==
    ASSUME IInv, NEW r \in Request, NEW e \in Engine,
           Post(r, e) \/ RequestStep(r) \/ Token(r)
    PROVE  TypeOK' /\ UNCHANGED <<job, trainerVars, inbox>>
<1>1. job' = job  BY DEF Post, RequestStep, Admit, Schedule, Finish, Token
<1>2. Rank' = Rank /\ Part' = Part  BY <1>1, SameJob
<1>3. at[r] \in Engine  BY DEF IInv, TypeOK
<1>4. CASE Post(r, e)
  BY <1>1, <1>2, <1>4 DEF Post, IInv, TypeOK, trainerVars, modelVars
<1>5. CASE Admit(r)
  BY <1>1, <1>2, <1>5 DEF Admit, IInv, TypeOK, trainerVars, modelVars
<1>6. CASE Schedule(r)
  <2>1. used' \in [Request -> SUBSET Version]
    <3>1. PICK hit \in SUBSET cache[at[r]] : used' = [used EXCEPT ![r] = hit]
      BY <1>6 DEF Schedule
    <3>2. hit \in SUBSET Version  BY <1>3, <3>1 DEF IInv, TypeOK
    <3> QED  BY <3>1, <3>2 DEF IInv, TypeOK
  <2> QED  BY <1>1, <1>2, <1>6, <2>1 DEF Schedule, IInv, TypeOK, trainerVars, modelVars
<1>7. CASE Finish(r)
  BY <1>1, <1>2, <1>7 DEF Finish, IInv, TypeOK, trainerVars, modelVars
<1>8. CASE Token(r)
  <2>1. Versions(at[r]) \in SUBSET Version
    BY <1>3 DEF IInv, TypeOK, Versions
  <2>2. used' \in [Request -> SUBSET Version]
    BY <1>3, <1>8, <2>1 DEF Token, IInv, TypeOK
  <2>3. cache' \in [Engine -> SUBSET Version]
    BY <1>3, <1>8, <2>1, <2>2 DEF Token, IInv, TypeOK
  <2> QED  BY <1>1, <1>2, <1>8, <2>2, <2>3 DEF Token, IInv, TypeOK, trainerVars
<1> QED  BY <1>4, <1>5, <1>6, <1>7, <1>8 DEF RequestStep

LEMMA StutterInv ==
    ASSUME IInv, UNCHANGED vars
    PROVE  IInv'
<1>1. Rank' = Rank /\ Part' = Part  BY SameJob DEF vars
<1>2. TypeOK'
  BY <1>1 DEF IInv, TypeOK, vars, trainerVars, modelVars, requestVars
<1> QED  BY <1>2, TrainerSame DEF vars, modelVars

LEMMA NextInv == IInv /\ [Next]_vars => IInv'
<1> SUFFICES ASSUME IInv, [Next]_vars  PROVE IInv'
  OBVIOUS
<1>1. CASE Begin  BY <1>1, BeginInv
<1>2. CASE TrainerStep
  <2>1. ASSUME NEW p \in Rank, RankStep(p)  PROVE IInv'
    BY <2>1, AcquireInv, LoadInv, ReleaseInv, ArriveInv DEF RankStep
  <2> QED
    BY <1>2, <2>1, PauseInv, FlushInv, BarrierInv, ContinueInv DEF TrainerStep
<1>3. ASSUME NEW r \in Request, NEW e \in Engine, Post(r, e) \/ RequestStep(r) \/ Token(r)
      PROVE  IInv'
  BY <1>3, RequestTypes, TrainerSame
<1>4. ASSUME NEW r \in Request, RequestStep(r) \/ Token(r)
      PROVE  IInv'
  <2>1. at[r] \in Engine  BY DEF IInv, TypeOK
  <2> QED  BY <1>3, <1>4, <2>1
<1>5. ASSUME NEW e \in Engine, AbortAll(e)  PROVE IInv'
  BY <1>5, AbortAllInv
<1>6. CASE UNCHANGED vars  BY <1>6, StutterInv
<1> QED  BY <1>1, <1>2, <1>3, <1>4, <1>5, <1>6 DEF Next

LEMMA Invariance == Spec => []IInv
  BY InitInv, NextInv, PTL DEF Spec

----------------------------------------------------------------------------
\* Type correctness, for any number of stages, buckets, engines, requests and updates.
THEOREM TypeCorrect == Spec => []TypeOK
  BY Invariance, PTL DEF IInv

\* The Lock does what it is there for ("Lock prevents NCCL deadlock"): no two
\* engines ever have the calls of different ranks at their heads.
THEOREM BroadcastsAligned == Spec => []CallsAligned
<1>1. IInv => CallsAligned
  <2> SUFFICES ASSUME IInv, NEW e \in Engine, NEW f \in Engine,
                      inbox[e] # <<>>, inbox[f] # <<>>
               PROVE  Head(inbox[e]) = Head(inbox[f])
    BY DEF CallsAligned
  <2>1. PICK p \in Rank : rank[p] = "send" /\ inbox[e] = <<p>>
    BY DEF IInv, OneCall
  <2>2. inbox[f] = <<p>>  BY <2>1, TheSender DEF Sending
  <2> QED  BY <2>1, <2>2
<1> QED  BY <1>1, Invariance, PTL

----------------------------------------------------------------------------
\* One version at a time.

Old(k, e) == part[e][k] = version - 1
New(k, e) == part[e][k] = version

\* The part of update_weights a rank's place belongs to.
PlaceInv ==
    \A p \in Rank :
        /\ rank[p] \in {"lock", "send", "release"} => stage \in {"dense", "expert"}
        /\ rank[p] \in {"pause", "flush"} => stage = "pause"
        /\ rank[p] = "resume" => stage = "resume"
        /\ stage \in {"dense", "expert"} /\ rank[p] = "barrier" => left[p] = 0

\* Which buckets of the part of update_weights the engines have loaded.
Sent(p, b) == b > left[p] \/ (b = left[p] /\ rank[p] = "release")

PartInv ==
    /\ stage # "idle" => version >= 1
    /\ stage = "expert" => ~FromTensor
    /\ \A e \in Engine, k \in Part :
          /\ stage \in {"idle", "resume"} => New(k, e)
          /\ stage = "pause" => Old(k, e)
          /\ stage \in {"dense", "expert"} => Old(k, e) \/ New(k, e)
          /\ stage \in {"dense", "expert"} /\ k[2] = stage /\ Sent(k[1], k[3]) => New(k, e)
          /\ stage = "expert" /\ k[2] = "dense" => New(k, e)

\* From the flush to continue_generation nothing runs at an engine and nothing is cached.
Still == \/ stage \in {"dense", "expert"}
         \/ stage = "pause" /\ rank[0] = "barrier"
         \/ stage = "resume" /\ rank[0] = "resume"

QuietInv ==
    \A e \in Engine :
        /\ mode[e] = "paused" => Readers(e) = {}
        /\ Still => mode[e] = "paused" /\ cache[e] = {}

OneVersion ==
    /\ \A r \in Request : /\ used[r] # {} => req[r] = "scheduled"
                          /\ used[r] \subseteq {Served(at[r])}
    /\ \A e \in Engine : cache[e] \subseteq {Served(e)}

ModelInv == PlaceInv /\ PartInv /\ QuietInv /\ OneVersion

\* A part is a bucket of one rank and kind, and there is one.
LEMMA PartShape ==
    /\ \A k \in Part : k[1] \in Rank /\ k[2] \in Kind /\ k[3] \in 1..NumBuckets
    /\ Part # {}
<1>1. <<0, "dense", 1>> \in Part
  BY UpdateAssumption, RankType DEF Part, Kind
<1> QED  BY <1>1 DEF Part

\* An engine whose parts have one of two versions serves the older while a part has it.
LEMMA ServesOldest ==
    ASSUME NEW e \in Engine, NEW n \in Int, \A k \in Part : part[e][k] \in {n - 1, n}
    PROVE  Served(e) = IF n - 1 \in Versions(e) THEN n - 1 ELSE n
<1>1. Versions(e) \subseteq {n - 1, n} /\ Versions(e) # {}
  BY PartShape DEF Versions
<1> DEFINE least == IF n - 1 \in Versions(e) THEN n - 1 ELSE n
<1>2. least \in Versions(e) /\ \A w \in Versions(e) : least <= w
  BY <1>1
<1>3. \A v \in Versions(e) : (\A w \in Versions(e) : v <= w) => v = least
  BY <1>1
<1> HIDE DEF least
<1>4. Served(e) \in Versions(e) /\ \A w \in Versions(e) : Served(e) <= w
  BY <1>2 DEF Served
<1> QED  BY <1>3, <1>4 DEF least

LEMMA ServesWhole ==
    ASSUME NEW e \in Engine, NEW n \in Int, \A k \in Part : part[e][k] = n
    PROVE  Versions(e) = {n} /\ Served(e) = n
<1>1. Versions(e) = {n}  BY PartShape DEF Versions
<1>2. n - 1 \notin Versions(e)  BY <1>1
<1> QED  BY <1>1, <1>2, ServesOldest

LEMMA SameServed ==
    ASSUME job' = job, part' = part
    PROVE  \A e \in Engine : Versions(e)' = Versions(e) /\ Served(e)' = Served(e)
BY SameJob DEF Versions, Served

\* An engine at which something runs has the parts of one version.
LEMMA RunsWhole ==
    ASSUME IInv, ModelInv, NEW r \in Request, req[r] \in {"tokenizing", "scheduled"}
    PROVE  /\ at[r] \in Engine /\ ~Still /\ mode[at[r]] # "paused"
           /\ Versions(at[r]) = {Served(at[r])}
<1>1. at[r] \in Engine  BY DEF IInv, TypeOK
<1>2. r \in Readers(at[r])  BY DEF Readers, At
<1>3. mode[at[r]] # "paused" /\ ~Still  BY <1>1, <1>2 DEF ModelInv, QuietInv
<1>4. stage \in {"idle", "pause", "resume"} /\ version \in Int
  BY <1>3 DEF IInv, TypeOK, Still, Version
<1>5. \/ \A k \in Part : part[at[r]][k] = version
      \/ \A k \in Part : part[at[r]][k] = version - 1
  BY <1>1, <1>4 DEF ModelInv, PartInv, Old, New
<1>6. version - 1 \in Int  BY <1>4
<1> QED  BY <1>1, <1>3, <1>4, <1>5, <1>6, ServesWhole

----------------------------------------------------------------------------
\* What the parts of the invariant depend on.

LEMMA SamePlaces ==
    ASSUME ModelInv, UNCHANGED <<job, stage, rank, left, version, part>>
    PROVE  PlaceInv' /\ PartInv'
<1>1. Rank' = Rank /\ Part' = Part /\ FromTensor' = FromTensor  BY SameJob
<1>2. PlaceInv'  BY <1>1 DEF ModelInv, PlaceInv
<1>3. PartInv'  BY <1>1 DEF ModelInv, PartInv, Old, New, Sent
<1> QED  BY <1>2, <1>3

LEMMA SameVersions ==
    ASSUME IInv, ModelInv, UNCHANGED <<job, part, cache, requestVars>>
    PROVE  OneVersion'
<1>1. \A r \in Request : at[r] \in Engine  BY DEF IInv, TypeOK
<1> QED  BY <1>1, SameServed DEF ModelInv, OneVersion, requestVars

LEMMA SameQuiet ==
    ASSUME ModelInv, Still' => Still, UNCHANGED <<mode, cache, requestVars>>
    PROVE  QuietInv'
<1>1. \A e \in Engine : Readers(e)' = Readers(e)  BY DEF Readers, At, requestVars
<1> QED  BY <1>1 DEF ModelInv, QuietInv

\* While a rank sends, nothing runs and nothing is cached.
LEMMA StillHere ==
    ASSUME IInv, ModelInv, Still
    PROVE  /\ \A r \in Request : used[r] = {} /\ req[r] \notin {"tokenizing", "scheduled"}
           /\ \A e \in Engine : cache[e] = {}
<1>1. \A r \in Request : req[r] \notin {"tokenizing", "scheduled"}  BY RunsWhole
<1>2. \A r \in Request : used[r] = {}  BY <1>1 DEF ModelInv, OneVersion
<1>3. \A e \in Engine : cache[e] = {}  BY DEF ModelInv, QuietInv
<1> QED  BY <1>1, <1>2, <1>3

----------------------------------------------------------------------------
\* The trainer's steps.

LEMMA BeginModel ==
    ASSUME IInv, ModelInv, Begin
    PROVE  PlaceInv' /\ PartInv' /\ QuietInv' /\ OneVersion'
<1>1. /\ job' = job /\ left' = left /\ part' = part /\ stage = "idle" /\ stage' = "pause"
      /\ version' = version + 1 /\ UNCHANGED <<mode, cache, requestVars>>
      /\ rank' = [p \in Rank |-> IF p = 0 THEN "pause" ELSE "barrier"]
  BY DEF Begin, modelVars
<1>2. Rank' = Rank /\ Part' = Part /\ version \in Nat /\ 0 \in Rank
  BY <1>1, SameJob, RankType DEF IInv, TypeOK, Version
<1>3. PlaceInv'  BY <1>1, <1>2 DEF PlaceInv
<1>4. PartInv'  BY <1>1, <1>2 DEF ModelInv, PartInv, Old, New
<1>5. ~Still'  BY <1>1, <1>2 DEF Still
<1> QED  BY <1>1, <1>3, <1>4, <1>5, SameQuiet, SameVersions

LEMMA RankZeroModel ==
    ASSUME IInv, ModelInv, UNCHANGED <<job, stage, left, version, part>>,
           NEW from, NEW to, rank[0] = from, rank' = [rank EXCEPT ![0] = to],
           from \in {"pause", "flush", "resume"}, to \in {"flush", "barrier"},
           to = "flush" => from = "pause"
    PROVE  PlaceInv' /\ PartInv'
<1>1. Rank' = Rank /\ Part' = Part /\ FromTensor' = FromTensor /\ 0 \in Rank
  BY SameJob, RankType
<1>2. rank \in [Rank -> Place]  BY DEF IInv, TypeOK, Place
<1>3. PlaceInv  BY DEF ModelInv
<1>4. stage \notin {"dense", "expert"}  BY <1>1, <1>3 DEF PlaceInv
<1>5. PlaceInv'  BY <1>1, <1>2, <1>3, <1>4 DEF PlaceInv
<1>6. PartInv'  BY <1>1, <1>4 DEF ModelInv, PartInv, Old, New
<1> QED  BY <1>5, <1>6

LEMMA PauseModel ==
    ASSUME IInv, ModelInv, Pause
    PROVE  PlaceInv' /\ PartInv' /\ QuietInv' /\ OneVersion'
<1>1. /\ UNCHANGED <<job, stage, left, version, part, cache, requestVars>>
      /\ rank[0] = "pause" /\ rank' = [rank EXCEPT ![0] = "flush"]
      /\ mode' = [e \in Engine |-> "pausing"]
  BY DEF Pause, modelVars
<1>2. PlaceInv' /\ PartInv'  BY <1>1, RankZeroModel
<1>3. OneVersion'  BY <1>1, SameVersions
<1>4. 0 \in Rank /\ rank \in [Rank -> Place]
  BY RankType DEF IInv, TypeOK, Place
<1>5. stage = "pause"  BY <1>1, <1>4 DEF ModelInv, PlaceInv
<1>6. QuietInv'  BY <1>1, <1>4, <1>5 DEF QuietInv, Still
<1> QED  BY <1>2, <1>3, <1>6

LEMMA FlushModel ==
    ASSUME IInv, ModelInv, Flush
    PROVE  PlaceInv' /\ PartInv' /\ QuietInv' /\ OneVersion'
<1>1. /\ UNCHANGED <<job, stage, left, version, part, mode, requestVars>>
      /\ rank[0] = "flush" /\ rank' = [rank EXCEPT ![0] = "barrier"]
      /\ \A e \in Engine : mode[e] = "paused"
      /\ cache' = [e \in Engine |-> Flushed(e)]
  BY DEF Flush
<1>2. PlaceInv' /\ PartInv'  BY <1>1, RankZeroModel
<1>3. \A e \in Engine : cache'[e] = {}  BY <1>1 DEF Flushed
<1>4. OneVersion'
  <2>1. \A r \in Request : at[r] \in Engine  BY DEF IInv, TypeOK
  <2> QED  BY <1>1, <1>3, <2>1, SameServed DEF ModelInv, OneVersion, requestVars
<1>5. QuietInv'
  <2>1. \A e \in Engine : Readers(e)' = Readers(e)  BY <1>1 DEF Readers, At, requestVars
  <2> QED  BY <1>1, <1>3, <2>1 DEF ModelInv, QuietInv
<1> QED  BY <1>2, <1>4, <1>5

LEMMA ContinueModel ==
    ASSUME IInv, ModelInv, Continue
    PROVE  PlaceInv' /\ PartInv' /\ QuietInv' /\ OneVersion'
<1>1. /\ UNCHANGED <<job, stage, left, version, part, cache, requestVars>>
      /\ rank[0] = "resume" /\ rank' = [rank EXCEPT ![0] = "barrier"]
      /\ mode' = [e \in Engine |-> "open"]
  BY DEF Continue, modelVars
<1>2. PlaceInv' /\ PartInv'  BY <1>1, RankZeroModel
<1>3. OneVersion'  BY <1>1, SameVersions
<1>4. 0 \in Rank /\ rank \in [Rank -> Place]
  BY RankType DEF IInv, TypeOK, Place
<1>5. stage = "resume"  BY <1>1, <1>4 DEF ModelInv, PlaceInv
<1>6. QuietInv'  BY <1>1, <1>4, <1>5 DEF QuietInv, Still
<1> QED  BY <1>2, <1>3, <1>6

LEMMA BarrierModel ==
    ASSUME IInv, ModelInv, Barrier
    PROVE  PlaceInv' /\ PartInv' /\ QuietInv' /\ OneVersion'
<1>1. /\ UNCHANGED <<job, version, part, mode, cache, requestVars>>
      /\ stage' = Following /\ stage # "idle" /\ AtBarrier
      /\ rank' = [p \in Rank |-> Work(stage', p)]
      /\ left' = [p \in Rank |-> IF stage' \in {"dense", "expert"} THEN NumBuckets ELSE 0]
  BY DEF Barrier, modelVars
<1>2. Rank' = Rank /\ Part' = Part /\ (FromTensor' <=> FromTensor) /\ 0 \in Rank
  BY <1>1, SameJob, RankType
<1>3. \/ stage = "pause" /\ stage' = "dense"
      \/ stage = "dense" /\ stage' = "resume" /\ FromTensor
      \/ stage = "dense" /\ stage' = "expert" /\ ~FromTensor
      \/ stage = "expert" /\ stage' = "resume" /\ ~FromTensor
      \/ stage = "resume" /\ stage' = "idle"
  BY <1>1 DEF IInv, TypeOK, Following, ModelInv, PartInv
<1>4. \A p \in Rank : rank[p] = "barrier"  BY <1>1 DEF AtBarrier
<1>5. PlaceInv'
  <2>1. \A p \in Rank :
            /\ stage' \in {"dense", "expert"} => rank'[p] = "lock"
            /\ stage' = "resume" => rank'[p] \in {"resume", "barrier"}
            /\ stage' = "idle" => rank'[p] = "barrier"
    BY <1>1 DEF Work
  <2> QED  BY <1>2, <1>3, <2>1 DEF PlaceInv
<1>6. PartInv'
  <2>1. \A e \in Engine, k \in Part :
            stage \in {"dense", "expert"} /\ k[2] = stage => New(k, e)
    <3>1. \A k \in Part : stage \in {"dense", "expert"} => Sent(k[1], k[3])
      <4>1. \A k \in Part : k[1] \in Rank /\ k[3] \in Nat /\ k[3] > 0
        BY PartShape, UpdateAssumption
      <4> QED  BY <1>4, <4>1 DEF ModelInv, PlaceInv, Sent
    <3> QED  BY <3>1 DEF ModelInv, PartInv
  <2>2. stage' \in {"dense", "expert"} => \A k \in Part : ~Sent(k[1], k[3])'
    <3>1. \A k \in Part : k[1] \in Rank /\ k[3] \in Int /\ k[3] <= NumBuckets /\ NumBuckets \in Nat
      BY PartShape, UpdateAssumption
    <3>2. stage' \in {"dense", "expert"} =>
             \A p \in Rank : left'[p] = NumBuckets /\ rank'[p] = "lock"
      BY <1>1 DEF Work
    <3> QED  BY <3>1, <3>2 DEF Sent
  <2>3. \A k \in Part : k[2] \in {"dense", "expert"} /\ (FromTensor => k[2] = "dense")
    BY PartShape DEF Kind
  <2>4. PartInv  BY DEF ModelInv
  <2>5. \A e \in Engine, k \in Part : (Old(k, e)' <=> Old(k, e)) /\ (New(k, e)' <=> New(k, e))
    BY <1>1 DEF Old, New
  <2>6. \A e \in Engine, k \in Part :
            /\ stage' \in {"idle", "resume"} => New(k, e)
            /\ stage' \in {"dense", "expert"} => Old(k, e) \/ New(k, e)
            /\ stage' = "expert" /\ k[2] = "dense" => New(k, e)
    BY <1>3, <2>1, <2>3, <2>4 DEF PartInv
  <2> QED  BY <1>1, <1>2, <1>3, <2>2, <2>4, <2>5, <2>6 DEF PartInv
<1>7. Still' => Still
  BY <1>1, <1>2, <1>3, <1>4 DEF Still, Work
<1> QED  BY <1>1, <1>5, <1>6, <1>7, SameQuiet, SameVersions

LEMMA AcquireModel ==
    ASSUME IInv, ModelInv, NEW p \in Rank, Acquire(p)
    PROVE  PlaceInv' /\ PartInv' /\ QuietInv' /\ OneVersion'
<1>1. /\ UNCHANGED <<job, stage, left, version, part, mode, cache, requestVars>>
      /\ rank[p] = "lock" /\ rank' = [rank EXCEPT ![p] = "send"]
  BY DEF Acquire, modelVars
<1>2. Rank' = Rank /\ Part' = Part /\ (FromTensor' <=> FromTensor)  BY <1>1, SameJob
<1>3. rank \in [Rank -> Place]  BY DEF IInv, TypeOK, Place
<1>4. stage \in {"dense", "expert"}  BY <1>1 DEF ModelInv, PlaceInv
<1>5. PlaceInv'  BY <1>1, <1>2, <1>3, <1>4 DEF ModelInv, PlaceInv
<1>6. PartInv'
  <2>1. \A q \in Rank, b \in 1..NumBuckets : Sent(q, b)' => Sent(q, b)
    BY <1>1, <1>3 DEF Sent
  <2> QED  BY <1>1, <1>2, <2>1, PartShape DEF ModelInv, PartInv, Old, New
<1>7. Still  BY <1>4 DEF Still
<1> QED  BY <1>1, <1>5, <1>6, <1>7, SameQuiet, SameVersions

LEMMA ReleaseModel ==
    ASSUME IInv, ModelInv, NEW p \in Rank, Release(p)
    PROVE  PlaceInv' /\ PartInv' /\ QuietInv' /\ OneVersion'
<1>1. /\ UNCHANGED <<job, stage, version, part, mode, cache, requestVars>>
      /\ rank[p] = "release" /\ left' = [left EXCEPT ![p] = @ - 1]
      /\ rank' = [rank EXCEPT ![p] = IF More(p) THEN "lock" ELSE "barrier"]
  BY DEF Release, modelVars
<1>2. Rank' = Rank /\ Part' = Part /\ (FromTensor' <=> FromTensor)  BY <1>1, SameJob
<1>3. /\ rank \in [Rank -> Place] /\ left \in [Rank -> 0..NumBuckets] /\ NumBuckets \in Nat
      /\ left[p] >= 1
  BY <1>1, UpdateAssumption DEF IInv, TypeOK, Place, SomeLeft
<1>4. stage \in {"dense", "expert"}  BY <1>1 DEF ModelInv, PlaceInv
<1>5. PlaceInv'
  <2>1. rank'[p] = "barrier" => left'[p] = 0  BY <1>1, <1>3 DEF More
  <2>2. rank'[p] \in {"lock", "barrier"}  BY <1>1, <1>3
  <2>3. \A q \in Rank \ {p} : rank'[q] = rank[q] /\ left'[q] = left[q]  BY <1>1, <1>3
  <2> QED  BY <1>1, <1>2, <1>4, <2>1, <2>2, <2>3 DEF ModelInv, PlaceInv
<1>6. PartInv'
  <2>1. \A q \in Rank, b \in 1..NumBuckets : Sent(q, b)' => Sent(q, b)
    <3>1. \A b \in 1..NumBuckets : Sent(p, b)' => Sent(p, b)
      BY <1>1, <1>3 DEF Sent
    <3>2. \A q \in Rank \ {p} : rank'[q] = rank[q] /\ left'[q] = left[q]  BY <1>1, <1>3
    <3> QED  BY <3>1, <3>2 DEF Sent
  <2> QED  BY <1>1, <1>2, <2>1, PartShape DEF ModelInv, PartInv, Old, New
<1>7. Still  BY <1>4 DEF Still
<1> QED  BY <1>1, <1>5, <1>6, <1>7, SameQuiet, SameVersions

\* A bucket is loaded by all engines while nothing runs.
LEMMA LoadModel ==
    ASSUME IInv, ModelInv, NEW p \in Rank, Load(p)
    PROVE  PlaceInv' /\ PartInv' /\ QuietInv' /\ OneVersion'
<1>1. /\ UNCHANGED <<job, stage, left, version, mode, cache, requestVars>>
      /\ rank[p] = "send" /\ rank' = [rank EXCEPT ![p] = "release"]
      /\ part' = [e \in Engine |->
                    [k \in Part |-> IF k = <<p, stage, left[p]>> THEN version ELSE part[e][k]]]
  BY DEF Load
<1>2. Rank' = Rank /\ Part' = Part /\ (FromTensor' <=> FromTensor)  BY <1>1, SameJob
<1>3. rank \in [Rank -> Place] /\ left \in [Rank -> 0..NumBuckets]
  BY DEF IInv, TypeOK, Place
<1>4. stage \in {"dense", "expert"}  BY <1>1 DEF ModelInv, PlaceInv
<1>5. PlaceInv'  BY <1>1, <1>2, <1>3, <1>4 DEF ModelInv, PlaceInv
<1>6. PartInv'
  <2>1. \A e \in Engine, k \in Part :
            /\ New(k, e) => New(k, e)'
            /\ Old(k, e) => Old(k, e)' \/ New(k, e)'
            /\ k = <<p, stage, left[p]>> => New(k, e)'
    BY <1>1 DEF Old, New
  <2>2. \A k \in Part : k[2] = stage /\ Sent(k[1], k[3])' =>
                            Sent(k[1], k[3]) \/ k = <<p, stage, left[p]>>
    <3>1. SUFFICES ASSUME NEW k \in Part, k[2] = stage, Sent(k[1], k[3])', ~Sent(k[1], k[3])
                   PROVE  k = <<p, stage, left[p]>>
      OBVIOUS
    <3>2. k[1] \in Rank /\ k[3] = left[k[1]] /\ rank'[k[1]] = "release" /\ rank[k[1]] # "release"
      BY <1>1, <3>1, PartShape DEF Sent
    <3>3. k[1] = p  BY <1>1, <1>3, <3>2
    <3>4. k = <<k[1], k[2], k[3]>>  BY <3>1 DEF Part
    <3> QED  BY <3>1, <3>2, <3>3, <3>4
  <2> QED  BY <1>1, <1>2, <1>4, <2>1, <2>2 DEF ModelInv, PartInv
<1>7. Still  BY <1>4 DEF Still
<1>8. OneVersion'  BY <1>1, <1>7, StillHere DEF OneVersion, requestVars
<1> QED  BY <1>1, <1>5, <1>6, <1>7, <1>8, SameQuiet

----------------------------------------------------------------------------
\* The engine's steps.

LEMMA AbortAllModel ==
    ASSUME IInv, ModelInv, NEW e \in Engine, AbortAll(e)
    PROVE  PlaceInv' /\ PartInv' /\ QuietInv' /\ OneVersion'
<1>1. /\ UNCHANGED <<job, trainerVars, modelVars, req, at, used>> /\ mode[e] = "pausing"
      /\ mode' = IF Quiet(e) THEN [mode EXCEPT ![e] = "paused"] ELSE mode
  BY DEF AbortAll
<1>2. PlaceInv' /\ PartInv'  BY <1>1, SamePlaces DEF trainerVars, modelVars
<1>3. OneVersion'
  <2>1. \A r \in Request : at[r] \in Engine  BY DEF IInv, TypeOK
  <2> QED  BY <1>1, <2>1, SameServed DEF ModelInv, OneVersion, modelVars
<1>4. QuietInv'
  <2>1. \A f \in Engine : Readers(f)' = Readers(f)  BY <1>1 DEF Readers, At
  <2>2. Still' <=> Still  BY <1>1 DEF Still, trainerVars
  <2>3. ~Still  BY <1>1 DEF ModelInv, QuietInv
  <2>4. \A f \in Engine : mode'[f] = "paused" => mode[f] = "paused" \/ (f = e /\ Quiet(e))
    BY <1>1 DEF IInv, TypeOK
  <2> QED  BY <2>1, <2>2, <2>3, <2>4 DEF ModelInv, QuietInv, Quiet
<1> QED  BY <1>2, <1>3, <1>4

LEMMA RequestModel ==
    ASSUME IInv, ModelInv, NEW r \in Request, NEW e \in Engine,
           Post(r, e) \/ Admit(r) \/ Finish(r)
    PROVE  PlaceInv' /\ PartInv' /\ QuietInv' /\ OneVersion'
<1>1. UNCHANGED <<job, trainerVars, modelVars, mode>>
  BY DEF Post, Admit, Finish
<1>2. PlaceInv' /\ PartInv'  BY <1>1, SamePlaces DEF trainerVars, modelVars
<1>3. /\ req \in [Request -> {"out", "waiting", "tokenizing", "scheduled"}]
      /\ at \in [Request -> Engine] /\ used \in [Request -> SUBSET Version]
  BY DEF IInv, TypeOK
<1>4. OneVersion'
  <2>1. \A f \in Engine : Served(f)' = Served(f) /\ cache'[f] = cache[f]
    BY <1>1, SameServed DEF modelVars
  <2>2. \A q \in Request : at'[q] \in Engine /\ (used'[q] # {} => at'[q] = at[q])
    BY <1>3 DEF ModelInv, OneVersion, Post, Admit, Finish
  <2>3. \A q \in Request : used'[q] \in {{}, used[q]}
    BY <1>3 DEF Post, Admit, Finish
  <2>4. \A q \in Request : used'[q] # {} => req'[q] = "scheduled"
    BY <1>3 DEF ModelInv, OneVersion, Post, Admit, Finish
  <2>5. \A q \in Request : used'[q] \subseteq {Served(at'[q])}
    BY <2>2, <2>3 DEF ModelInv, OneVersion
  <2>6. \A q \in Request : Served(at[q])' = Served(at'[q])
    BY <1>1, <2>2, SameJob DEF modelVars, Served, Versions
  <2> QED  BY <2>1, <2>4, <2>5, <2>6 DEF ModelInv, OneVersion
<1>5. QuietInv'
  <2>1. \A f \in Engine : mode[f] = "paused" => Readers(f)' \subseteq Readers(f)
    BY <1>3 DEF Post, Admit, Finish, Readers, At
  <2>2. Still' <=> Still  BY <1>1 DEF Still, trainerVars
  <2> QED  BY <1>1, <2>1, <2>2 DEF ModelInv, QuietInv, modelVars
<1> QED  BY <1>2, <1>4, <1>5

\* What a request has been computed with is the version its engine serves.
LEMMA ComputeModel ==
    ASSUME IInv, ModelInv, NEW r \in Request, Schedule(r) \/ Token(r)
    PROVE  PlaceInv' /\ PartInv' /\ QuietInv' /\ OneVersion'
<1>1. UNCHANGED <<job, trainerVars, mode, part, at>> /\ req[r] \in {"tokenizing", "scheduled"}
  BY DEF Schedule, Token, modelVars
<1>2. PlaceInv' /\ PartInv'  BY <1>1, SamePlaces DEF trainerVars
<1>3. /\ req \in [Request -> {"out", "waiting", "tokenizing", "scheduled"}]
      /\ at \in [Request -> Engine] /\ used \in [Request -> SUBSET Version]
      /\ cache \in [Engine -> SUBSET Version]
  BY DEF IInv, TypeOK
<1>4. at[r] \in Engine /\ ~Still /\ mode[at[r]] # "paused" /\ Versions(at[r]) = {Served(at[r])}
  BY <1>1, RunsWhole
<1>5. used'[r] \subseteq {Served(at[r])} /\ req'[r] = "scheduled"
  BY <1>3, <1>4 DEF Schedule, Token, ModelInv, OneVersion
<1>6. \A q \in Request \ {r} : used'[q] = used[q] /\ req'[q] = req[q]
  BY <1>3 DEF Schedule, Token
<1>7. \A f \in Engine : cache'[f] \subseteq {Served(f)}
  BY <1>3, <1>4, <1>5 DEF Schedule, Token, ModelInv, OneVersion, modelVars
<1>8. OneVersion'
  <2>1. \A q \in Request : Served(at[q])' = Served(at[q])
    BY <1>1, <1>3, SameServed
  <2>2. \A q \in Request : /\ used'[q] # {} => req'[q] = "scheduled"
                           /\ used'[q] \subseteq {Served(at[q])}
    BY <1>5, <1>6 DEF ModelInv, OneVersion
  <2> QED  BY <1>1, <1>7, <2>1, <2>2, SameServed DEF OneVersion
<1>9. QuietInv'
  <2>1. \A f \in Engine : mode[f] = "paused" => Readers(f)' = Readers(f)
    BY <1>1, <1>4, <1>5, <1>6 DEF Readers, At
  <2>2. ~Still'  BY <1>1, <1>4 DEF Still, trainerVars
  <2> QED  BY <1>1, <2>1, <2>2 DEF ModelInv, QuietInv
<1> QED  BY <1>2, <1>8, <1>9

LEMMA ModelStep ==
    ASSUME IInv, ModelInv, [Next]_vars
    PROVE  ModelInv'
<1> SUFFICES PlaceInv' /\ PartInv' /\ QuietInv' /\ OneVersion'
  BY DEF ModelInv
<1>1. CASE Begin  BY <1>1, BeginModel
<1>2. CASE TrainerStep
  <2>1. ASSUME NEW p \in Rank, NEW e \in Engine, Arrive(p, e)
        PROVE  PlaceInv' /\ PartInv' /\ QuietInv' /\ OneVersion'
    <3>1. UNCHANGED <<job, stage, rank, left, version, part, mode, cache, requestVars>>
      BY <2>1 DEF Arrive
    <3>2. Still' => Still  BY <3>1 DEF Still
    <3> QED  BY <3>1, <3>2, SamePlaces, SameVersions, SameQuiet
  <2>2. ASSUME NEW p \in Rank, RankStep(p)
        PROVE  PlaceInv' /\ PartInv' /\ QuietInv' /\ OneVersion'
    BY <2>1, <2>2, AcquireModel, LoadModel, ReleaseModel DEF RankStep
  <2> QED
    BY <1>2, <2>2, PauseModel, FlushModel, BarrierModel, ContinueModel DEF TrainerStep
<1>3. ASSUME NEW r \in Request, NEW e \in Engine, Post(r, e)
      PROVE  PlaceInv' /\ PartInv' /\ QuietInv' /\ OneVersion'
  BY <1>3, RequestModel
<1>4. ASSUME NEW r \in Request, RequestStep(r) \/ Token(r)
      PROVE  PlaceInv' /\ PartInv' /\ QuietInv' /\ OneVersion'
  <2>1. at[r] \in Engine  BY DEF IInv, TypeOK
  <2>2. CASE Admit(r) \/ Finish(r)  BY <2>1, <2>2, RequestModel
  <2>3. CASE Schedule(r) \/ Token(r)  BY <2>3, ComputeModel
  <2> QED  BY <1>4, <2>2, <2>3 DEF RequestStep
<1>5. ASSUME NEW e \in Engine, AbortAll(e)
      PROVE  PlaceInv' /\ PartInv' /\ QuietInv' /\ OneVersion'
  BY <1>5, AbortAllModel
<1>6. CASE UNCHANGED vars
  <2>1. UNCHANGED <<job, stage, rank, left, version, part, mode, cache, requestVars>>
    BY <1>6 DEF vars, trainerVars, modelVars
  <2>2. Still' => Still  BY <2>1 DEF Still
  <2> QED  BY <2>1, <2>2, SamePlaces, SameVersions, SameQuiet
<1> QED  BY <1>1, <1>2, <1>3, <1>4, <1>5, <1>6 DEF Next

LEMMA InitModel == Init => ModelInv
<1> SUFFICES ASSUME Init  PROVE ModelInv
  OBVIOUS
<1>1. PlaceInv /\ PartInv  BY DEF Init, PlaceInv, PartInv, New
<1>2. QuietInv  BY RankType DEF Init, QuietInv, Still
<1>3. OneVersion  BY DEF Init, OneVersion
<1> QED  BY <1>1, <1>2, <1>3 DEF ModelInv

----------------------------------------------------------------------------
\* Each step is a step of the atomic model or none.

drawnNow == [r \in Request |-> [e \in Engine |-> IF e = at[r] THEN used[r] ELSE {}]]
modelNow == [e \in Engine |-> Served(e)]

LEMMA LoadPublishes ==
    ASSUME IInv, ModelInv, ModelInv', NEW p \in Rank, Load(p)
    PROVE  Atomic!Publish
<1>1. /\ UNCHANGED <<job, stage, version, requestVars>> /\ rank[p] = "send"
      /\ part' = [e \in Engine |->
                    [k \in Part |-> IF k = <<p, stage, left[p]>> THEN version ELSE part[e][k]]]
  BY DEF Load
<1>2. /\ Part' = Part /\ stage \in {"dense", "expert"} /\ version \in Int
  BY <1>1, SameJob DEF ModelInv, PlaceInv, IInv, TypeOK, Version
<1>3. \A e \in Engine, k \in Part : part[e][k] \in {version - 1, version}
  BY <1>2 DEF ModelInv, PartInv, Old, New
<1>4. \A e \in Engine, k \in Part : part'[e][k] \in {version - 1, version}
  BY <1>1, <1>3
<1>5. \A e \in Engine : Served(e) = IF version - 1 \in Versions(e) THEN version - 1 ELSE version
  BY <1>2, <1>3, ServesOldest
<1>6. \A e \in Engine :
          Served(e)' = IF version - 1 \in Versions(e)' THEN version - 1 ELSE version
  <2> DEFINE S(e) == {part'[e][k] : k \in Part}
             Least(e) == CHOOSE v \in S(e) : \A w \in S(e) : v <= w
  <2>1. \A e \in Engine : Versions(e)' = S(e) /\ Served(e)' = Least(e)
    BY <1>2 DEF Versions, Served
  <2>2. \A e \in Engine : Least(e) = IF version - 1 \in S(e) THEN version - 1 ELSE version
    <3> SUFFICES ASSUME NEW e \in Engine
                 PROVE  Least(e) = IF version - 1 \in S(e) THEN version - 1 ELSE version
      OBVIOUS
    <3>1. S(e) \subseteq {version - 1, version} /\ S(e) # {}  BY <1>4, PartShape
    <3> HIDE DEF S
    <3> DEFINE least == IF version - 1 \in S(e) THEN version - 1 ELSE version
    <3>2. least \in S(e) /\ \A w \in S(e) : least <= w  BY <1>2, <3>1
    <3>3. \A v \in S(e) : (\A w \in S(e) : v <= w) => v = least  BY <1>2, <3>1
    <3> HIDE DEF least
    <3>4. Least(e) \in S(e) /\ \A w \in S(e) : Least(e) <= w  BY <3>2
    <3> QED  BY <3>3, <3>4 DEF least
  <2> HIDE DEF S, Least
  <2> QED  BY <1>1, <2>1, <2>2
<1>7. \A e \in Engine : version - 1 \in Versions(e)' => version - 1 \in Versions(e)
  BY <1>1, <1>2 DEF Versions
<1>8. \A e \in Engine : Served(e)' \in {Served(e), Served(e) + 1}
  BY <1>2, <1>5, <1>6, <1>7
<1> DEFINE E == {e \in Engine : Served(e)' = Served(e) + 1}
<1>9. \A r \in Request : used[r] = {}
  BY <1>2, StillHere DEF Still
<1>10. \A e \in E, r \in Request : drawnNow[r][e] = {}
  BY <1>9 DEF drawnNow
<1>11. modelNow' = [e \in Engine |-> IF e \in E THEN modelNow[e] + 1 ELSE modelNow[e]]
  BY <1>8 DEF modelNow
<1>12. drawnNow' = drawnNow  BY <1>1 DEF drawnNow, requestVars
<1>13. E \in SUBSET Engine  OBVIOUS
<1> QED  BY <1>10, <1>11, <1>12, <1>13 DEF Atomic!Publish, drawnNow, modelNow

\* The versions served change in no other step.
LEMMA SameModel ==
    ASSUME job' = job, part' = part
    PROVE  modelNow' = modelNow
BY SameServed DEF modelNow

LEMMA RequestAtomic ==
    ASSUME IInv, ModelInv, NEW r \in Request,
           RequestStep(r) \/ Token(r) \/ \E e \in Engine : Post(r, e)
    PROVE  \/ Atomic!Answer(r) \/ \E e \in Engine : Atomic!Compute(r, e)
           \/ UNCHANGED Atomic!atomic
<1>1. job' = job /\ part' = part
  BY DEF RequestStep, Token, Post, Admit, Schedule, Finish, modelVars
<1>2. modelNow' = modelNow  BY <1>1, SameModel
<1>3. /\ at \in [Request -> Engine] /\ used \in [Request -> SUBSET Version]
  BY DEF IInv, TypeOK
<1>4. CASE Admit(r)
  <2>1. drawnNow' = drawnNow  BY <1>4 DEF Admit, drawnNow
  <2> QED  BY <1>2, <2>1 DEF Atomic!atomic, drawnNow, modelNow
<1>5. CASE \E e \in Engine : Post(r, e)
  <2>1. PICK e \in Engine : Post(r, e)  BY <1>5
  <2>2. used[r] = {} /\ used' = used /\ at' = [at EXCEPT ![r] = e]
    BY <2>1 DEF Post, ModelInv, OneVersion
  <2>3. drawnNow' = drawnNow  BY <1>3, <2>2 DEF drawnNow
  <2> QED  BY <1>2, <2>3 DEF Atomic!atomic, drawnNow, modelNow
<1>6. CASE Finish(r)
  <2>1. used' = [used EXCEPT ![r] = {}] /\ at' = at  BY <1>6 DEF Finish
  <2>2. drawnNow' = [drawnNow EXCEPT ![r] = [e \in Engine |-> {}]]
    BY <1>3, <2>1 DEF drawnNow
  <2> QED  BY <1>2, <2>2 DEF Atomic!Answer, Atomic!Nothing, drawnNow, modelNow
<1>7. CASE Schedule(r) \/ Token(r)
  <2>1. at' = at /\ req[r] \in {"tokenizing", "scheduled"}  BY <1>7 DEF Schedule, Token
  <2>2. at[r] \in Engine /\ Versions(at[r]) = {Served(at[r])}  BY <2>1, RunsWhole
  <2>3. used[r] \subseteq {Served(at[r])} /\ cache[at[r]] \subseteq {Served(at[r])}
    BY <2>2 DEF ModelInv, OneVersion
  <2>4. used' = [used EXCEPT ![r] = used'[r]]
    BY <1>3, <1>7 DEF Schedule, Token
  <2>5. used'[r] = {Served(at[r])} \/ used'[r] = used[r]
    <3>1. CASE Token(r)  BY <1>3, <2>2, <2>3, <3>1 DEF Token
    <3>2. CASE Schedule(r)
      <4>1. used[r] = {}  BY <3>2 DEF Schedule, ModelInv, OneVersion
      <4>2. used'[r] \subseteq {Served(at[r])}  BY <1>3, <2>3, <3>2 DEF Schedule
      <4> QED  BY <4>1, <4>2
    <3> QED  BY <1>7, <3>1, <3>2
  <2>6. CASE used'[r] = used[r]
    <3>1. used' = used  BY <1>3, <2>4, <2>6
    <3>2. drawnNow' = drawnNow  BY <2>1, <3>1 DEF drawnNow
    <3> QED  BY <1>2, <3>2 DEF Atomic!atomic, drawnNow, modelNow
  <2>7. CASE used'[r] = {Served(at[r])}
    <3>1. \A f \in Engine : drawnNow[r][f] \subseteq {modelNow[f]}
      BY <2>3 DEF drawnNow, modelNow
    <3>2. drawnNow' = [drawnNow EXCEPT ![r][at[r]] = {modelNow[at[r]]}]
      <4>1. \A q \in Request : drawnNow'[q] = IF q = r
                THEN [drawnNow[r] EXCEPT ![at[r]] = {Served(at[r])}] ELSE drawnNow[q]
        <5>1. drawnNow'[r] = [e \in Engine |-> IF e = at[r] THEN {Served(at[r])} ELSE {}]
          BY <2>1, <2>7 DEF drawnNow
        <5>2. drawnNow[r] = [e \in Engine |-> IF e = at[r] THEN used[r] ELSE {}]
          BY DEF drawnNow
        <5>3. drawnNow'[r] = [drawnNow[r] EXCEPT ![at[r]] = {Served(at[r])}]
          BY <2>2, <5>1, <5>2
        <5>4. \A q \in Request \ {r} : drawnNow'[q] = drawnNow[q]
          BY <1>3, <2>1, <2>4 DEF drawnNow
        <5> QED  BY <5>3, <5>4
      <4>2. modelNow[at[r]] = Served(at[r])  BY <2>2 DEF modelNow
      <4>3. /\ drawnNow = [q \in Request |-> drawnNow[q]]
            /\ drawnNow' = [q \in Request |-> drawnNow'[q]]
        BY DEF drawnNow
      <4> QED  BY <4>1, <4>2, <4>3
    <3>3. PICK e \in Engine : e = at[r]  BY <2>2
    <3>4. Atomic!Compute(r, e)
      BY <1>2, <3>1, <3>2, <3>3 DEF Atomic!Compute, drawnNow, modelNow
    <3> QED  BY <3>4
  <2> QED  BY <2>5, <2>6, <2>7
<1> QED  BY <1>4, <1>5, <1>6, <1>7 DEF RequestStep

LEMMA AtomicStep ==
    ASSUME IInv, ModelInv, ModelInv', [Next]_vars
    PROVE  [Atomic!AtomicNext]_(Atomic!atomic)
<1>1. ASSUME UNCHANGED <<job, part, at, used>>
      PROVE  UNCHANGED Atomic!atomic
  <2>1. modelNow' = modelNow  BY <1>1, SameModel
  <2>2. drawnNow' = drawnNow  BY <1>1 DEF drawnNow
  <2> QED  BY <2>1, <2>2 DEF Atomic!atomic, drawnNow, modelNow
<1>2. CASE Begin \/ UNCHANGED vars
  BY <1>1, <1>2 DEF Begin, vars, modelVars, requestVars
<1>3. CASE TrainerStep
  <2>1. CASE Pause \/ Flush \/ Barrier \/ Continue
    BY <1>1, <2>1 DEF Pause, Flush, Barrier, Continue, modelVars, requestVars
  <2>2. ASSUME NEW p \in Rank, RankStep(p)
        PROVE  [Atomic!AtomicNext]_(Atomic!atomic)
    <3>1. CASE Load(p)  BY <3>1, LoadPublishes DEF Atomic!AtomicNext
    <3>2. CASE ~Load(p)
      BY <1>1, <2>2, <3>2 DEF RankStep, Acquire, Release, Arrive, modelVars, requestVars
    <3> QED  BY <3>1, <3>2
  <2> QED  BY <1>3, <2>1, <2>2 DEF TrainerStep
<1>4. ASSUME NEW r \in Request, RequestStep(r) \/ Token(r) \/ \E e \in Engine : Post(r, e)
      PROVE  [Atomic!AtomicNext]_(Atomic!atomic)
  BY <1>4, RequestAtomic DEF Atomic!AtomicNext
<1>5. ASSUME NEW e \in Engine, AbortAll(e)
      PROVE  [Atomic!AtomicNext]_(Atomic!atomic)
  BY <1>1, <1>5 DEF AbortAll, modelVars
<1> QED  BY <1>2, <1>3, <1>4, <1>5 DEF Next

LEMMA AtomicInitial == Init => Atomic!AtomicInit
<1> SUFFICES ASSUME Init  PROVE Atomic!AtomicInit
  OBVIOUS
<1>1. \A e \in Engine : Served(e) = 0
  <2>1. \A e \in Engine, k \in Part : part[e][k] = 0  BY DEF Init
  <2> QED  BY <2>1, ServesWhole
<1>2. drawnNow = [r \in Request |-> [e \in Engine |-> {}]]  BY DEF Init, drawnNow
<1> QED  BY <1>1, <1>2 DEF Atomic!AtomicInit, Atomic!Nothing, drawnNow

\* update_weights serves whole models, for any number of stages, buckets, engines and requests: no
\* engine serves a part of the new weights, and no answer is computed with two versions, also
\* not by a prefix it finds in the cache.
THEOREM UpdatesWhole == Spec => KeepsAtomicModel
<1>1. IInv /\ ModelInv /\ [Next]_vars => ModelInv'
  BY ModelStep
<1>2. IInv /\ ModelInv /\ ModelInv' /\ [Next]_vars => [Atomic!AtomicNext]_(Atomic!atomic)
  BY AtomicStep
<1> QED
  BY <1>1, <1>2, InitModel, AtomicInitial, Invariance, PTL
  DEF Spec, KeepsAtomicModel, Atomic!AtomicSpec
=============================================================================
