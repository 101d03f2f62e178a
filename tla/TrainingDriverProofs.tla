-------------------------- MODULE TrainingDriverProofs --------------------------
(***************************************************************************)
(* What the drivers and the data source keep for all jobs, datasets and    *)
(* numbers of crashes: each prompt is handed out once per epoch, each      *)
(* model is trained on each rollout once, the weights are updated alone,   *)
(* and the data is at most the update interval old.                        *)
(***************************************************************************)
EXTENDS TrainingDriver, FiniteSetTheorems, SequenceTheorems, TLAPS

\* What a position, in memory or in a file, must be: sample_offset is inside the
\* dataset and sample_group_index counts whole epochs plus the offset.
Even(p) ==
    /\ p.offset \in 0..DatasetLen /\ p.epoch \in Nat /\ p.groups \in Nat
    /\ p.groups = p.epoch * DatasetLen + p.offset

InOrder(p) == Shuffle => p.order = p.epoch

\* The files matter as much as the position: a restart reads one of them.
PromptInv ==
    /\ args \in Jobs
    /\ pos = [offset |-> pos.offset, epoch |-> pos.epoch, groups |-> pos.groups,
              order |-> pos.order]
    /\ Even(pos) /\ InOrder(pos)
    /\ \A r \in DOMAIN saved : Even(saved[r])

\* What the arguments of a job are.
LEMMA ArgTypes ==
    ASSUME args \in Jobs
    PROVE  /\ DatasetLen \in Nat \ {0} /\ OverSampling \in Nat \ {0}
           /\ Loaded \in Int /\ Loaded >= -1
<1>1. JobOK(args)
  BY DriverAssumption
<1>2. QED
  BY <1>1 DEF JobOK, DatasetLen, OverSampling, Loaded, NumRollout

\* The next n prompts, from one epoch or from two, lead to an even position.
LEMMA AdvanceEven ==
    ASSUME args \in Jobs, OverSampling <= DatasetLen, NEW n \in 1..OverSampling,
           NEW o, NEW e, NEW g, NEW d,
           Even([offset |-> o, epoch |-> e, groups |-> g, order |-> d]),
           InOrder([offset |-> o, epoch |-> e, groups |-> g, order |-> d])
    PROVE  LET p == Advance([offset |-> o, epoch |-> e, groups |-> g, order |-> d], n) IN
           /\ p = [offset |-> p.offset, epoch |-> p.epoch, groups |-> p.groups,
                   order |-> p.order]
           /\ Even(p) /\ InOrder(p)
<1> DEFINE before == [offset |-> o, epoch |-> e, groups |-> g, order |-> d]
           after  == Advance(before, n)
<1>1. /\ o \in 0..DatasetLen /\ e \in Nat /\ g \in Nat /\ g = e * DatasetLen + o
      /\ Shuffle => d = e
      /\ DatasetLen \in Nat \ {0} /\ OverSampling \in Nat /\ n \in Nat /\ n <= DatasetLen
  BY ArgTypes DEF Even, InOrder
<1>2. CASE o + n <= DatasetLen
  <2>1. after = [offset |-> o + n, epoch |-> e, groups |-> g + n, order |-> d]
    BY <1>1, <1>2 DEF Advance, InEpoch
  <2>2. g + n = e * DatasetLen + (o + n)
    BY <1>1
  <2> QED
    BY <1>1, <1>2, <2>1, <2>2 DEF Even, InOrder
<1>3. CASE ~(o + n <= DatasetLen)
  <2>1. Left(before) = DatasetLen - o
    BY <1>1 DEF Left
  <2> DEFINE rest == n - (DatasetLen - o)
  <2>2. rest \in 0..DatasetLen /\ rest <= n
    BY <1>1, <1>3
  <2>3. g + (DatasetLen - o) + rest = (e + 1) * DatasetLen + rest
    <3>1. (e + 1) * DatasetLen = e * DatasetLen + DatasetLen
      BY <1>1
    <3> QED
      BY <1>1, <2>2, <3>1
  <2>4. (IF rest < DatasetLen THEN rest ELSE DatasetLen) = rest
    BY <1>1, <2>2
  <2>5. after = [offset |-> rest, epoch |-> e + 1, groups |-> g + (DatasetLen - o) + rest,
                 order |-> IF Shuffle THEN e + 1 ELSE d]
    BY <1>1, <1>3, <2>1, <2>4 DEF Advance, NextEpoch
  <2> QED
    BY <1>1, <2>2, <2>3, <2>5 DEF Even, InOrder
<1> QED
  BY <1>2, <1>3

\* The file of the checkpoint in --load.
LEMMA OldFilesEven ==
    ASSUME args \in Jobs
    PROVE  \A r \in DOMAIN OldFiles : Even(OldFiles[r])
<1> DEFINE used == (Loaded + 1) * OverSampling
<1>1. SUFFICES ASSUME Loaded # -1 PROVE Even(OldPosition)
  BY DEF OldFiles
<1>2. /\ Loaded + 1 \in Nat /\ OverSampling \in Nat /\ DatasetLen \in Nat \ {0}
      /\ used \in Nat
  <2>1. Loaded + 1 \in Nat /\ OverSampling \in Nat /\ DatasetLen \in Nat \ {0}
    BY ArgTypes
  <2> QED
    BY <2>1
<1> HIDE DEF used
<1>3. /\ used % DatasetLen \in 0..(DatasetLen - 1) /\ used \div DatasetLen \in Nat
      /\ used = (used \div DatasetLen) * DatasetLen + (used % DatasetLen)
  BY <1>2
<1> QED
  BY <1>2, <1>3 DEF Even, OldPosition, used

\* The position a job begins with, from a file or from nothing.
LEMMA LoadedEven ==
    ASSUME args \in Jobs, \A r \in DOMAIN saved : Even(saved[r])
    PROVE  /\ LoadedPosition = [offset |-> LoadedPosition.offset, epoch |-> LoadedPosition.epoch,
                                groups |-> LoadedPosition.groups, order |-> LoadedPosition.order]
           /\ Even(LoadedPosition) /\ InOrder(LoadedPosition)
<1>1. DatasetLen \in Nat \ {0}
  BY ArgTypes
<1>2. Even(Beginning) /\ InOrder(Beginning)
  BY <1>1 DEF Even, InOrder, Beginning
<1>3. \A s : Even(s) => Even(Restored(s)) /\ InOrder(Restored(s))
  BY <1>1 DEF Even, InOrder, Restored
<1> QED
  BY <1>2, <1>3 DEF LoadedPosition, Load, Beginning, Restored

\* Every step keeps it: four actions touch the position or the files.
LEMMA PromptStep ==
    ASSUME OverSampling <= DatasetLen, PromptInv, [Next]_vars
    PROVE  PromptInv'
<1> USE DEF PromptInv
<1>0. args' = args /\ DatasetLen' = DatasetLen /\ Shuffle' = Shuffle
  <2>1. args' = args
    BY DEF Next, DriverStep, ManagerStep, TrainerStep, Start, Crash, GetSamples, SavePosition,
       AskUpdate, EndUpdate, Launch, Finish, EvalFirst, StartGenerate, TakeData, TakeNext,
       StartTraining, EndTraining, SaveAll, EndSave, SyncGenerate, StartEval, NextRollout,
       BeginCall, EndCall, GiveEngines, Push, CriticForward, ActorForward, SyncActorCritic,
       CriticTrain, ActorTrain, vars
  <2> QED
    BY <2>1 DEF DatasetLen, Shuffle
<1>1. CASE UNCHANGED <<pos, saved>>
  BY <1>0, <1>1 DEF Even, InOrder
<1>2. CASE Start
  BY <1>0, <1>2, LoadedEven DEF Start, Even, InOrder
<1>3. CASE Crash
  <2>1. pos' = Beginning /\ saved' = saved
    BY <1>3 DEF Crash
  <2> QED
    BY <1>0, <2>1, ArgTypes DEF Even, InOrder, Beginning
<1>4. CASE GetSamples
  <2>1. PICK n \in 1..OverSampling : pos' = Advance(pos, n)
    BY <1>4 DEF GetSamples
  <2>2. saved' = saved
    BY <1>4 DEF GetSamples
  <2>3. /\ pos' = [offset |-> pos'.offset, epoch |-> pos'.epoch, groups |-> pos'.groups,
                   order |-> pos'.order]
        /\ Even(pos') /\ InOrder(pos')
    <3> DEFINE p == [offset |-> pos.offset, epoch |-> pos.epoch, groups |-> pos.groups,
                     order |-> pos.order]
    <3>1. pos = p /\ Even(p) /\ InOrder(p)
      BY DEF PromptInv
    <3>2. pos' = Advance(p, n)
      BY <2>1, <3>1
    <3> QED
      BY <3>1, <3>2, AdvanceEven
  <2> QED
    BY <1>0, <2>2, <2>3 DEF Even, InOrder
<1>5. CASE SavePosition
  <2>1. /\ pos' = pos
        /\ saved' = [r \in DOMAIN saved \cup {Head(calls).rollout} |->
                        IF r = Head(calls).rollout THEN Stored(pos) ELSE saved[r]]
    BY <1>5 DEF SavePosition
  <2>2. Even(Stored(pos))
    BY DEF PromptInv, Even, Stored
  <2> QED
    BY <1>0, <2>1, <2>2 DEF Even, InOrder
<1>6. CASE /\ ~Start /\ ~Crash /\ ~GetSamples /\ ~SavePosition /\ Next
  BY <1>1, <1>6 DEF Next, DriverStep, ManagerStep, TrainerStep, AskUpdate, EndUpdate, Launch,
     Finish, EvalFirst, StartGenerate, TakeData, TakeNext, StartTraining, EndTraining, SaveAll,
     EndSave, SyncGenerate, StartEval, NextRollout, BeginCall, EndCall, GiveEngines, Push,
     CriticForward, ActorForward, SyncActorCritic, CriticTrain, ActorTrain, StayManager,
     managerVars
<1>7. CASE UNCHANGED vars
  BY <1>1, <1>7 DEF vars, managerVars
<1> QED
  BY <1>2, <1>3, <1>4, <1>5, <1>6, <1>7

\* RolloutDataSource hands out each prompt once per epoch, in the order of that
\* epoch, through batches that span two epochs, saves, crashes and loads.
THEOREM PromptsOnce ==
    ASSUME \A a \in Jobs : a.over_sampling <= a.dataset_len
    PROVE  Spec => []PromptsOncePerEpoch
<1>1. Init => PromptInv
  BY OldFilesEven, ArgTypes DEF Init, PromptInv, Even, InOrder, Beginning
<1>2. PromptInv /\ [Next]_vars => PromptInv'
  <2> SUFFICES ASSUME PromptInv, [Next]_vars PROVE PromptInv'
    OBVIOUS
  <2>1. OverSampling <= DatasetLen
    BY DEF PromptInv, OverSampling, DatasetLen
  <2> QED
    BY <2>1, PromptStep
<1>3. PromptInv => PromptsOncePerEpoch
  BY DEF PromptInv, Even, InOrder, PromptsOncePerEpoch
<1> QED
  BY <1>1, <1>2, <1>3, PTL DEF Spec
-----------------------------------------------------------------------------
\* The inductive invariant of the drivers.

\* The queue of the manager holds at most what the driver or the trainer waits for, and the
\* rollout that train_async.py has started early.
Loop == {"generate", "generating", "train", "training", "save", "saving", "sync", "update",
         "updating", "eval", "evaluating"}

Updating == {"first_updating", "updating"}

Asked ==
    {c \in Call :
        \/ next # None /\ c = Generate(next)
        \/ driver \in Updating /\ c = Engines
        \/ driver \in {"generate", "evaluating"} /\ c = Eval(rid)
        \/ driver = "generating" /\ c = Generate(rid)
        \/ driver = "saving" /\ c = Save(rid)}

QueueInv ==
    /\ calls \in Seq(Asked)
    /\ next # None => Async
    /\ driver \in {"start", "first_update", "launch", "update"} \cup Updating => next = None
    /\ driver \in Loop => rid < NumRollout
    /\ running => Runs("generate") \/ Runs("eval")
    /\ IF driver \in Updating
       THEN calls \in {<<>>, <<Engines>>} /\ (update = "asked" <=> calls = <<Engines>>)
       ELSE update = "idle"

\* Which rollout the next one to be trained on is, and that its data is there in time.
Early(r) == next = r \/ (next = None /\ data = r)

DataInv ==
    /\ driver \in {"start", "first_update", "first_updating", "launch"} => rid = StartId
    /\ driver \in {"generate", "generating"} => ~Async
    /\ Async =>
        /\ driver = "top" /\ rid < NumRollout => Early(rid)
        /\ driver \in {"train", "training", "save", "saving", "sync"} /\ rid + 1 < NumRollout =>
              next = rid + 1
        /\ driver \in {"update", "updating", "eval", "evaluating"} /\ rid + 1 < NumRollout =>
              Early(rid + 1)
    /\ driver \in {"train", "training"} => data = rid /\ calls \in Seq(Call \ {Generate(rid)})

\* How often each model has been trained.
TrainedBefore(r) == Cardinality({q \in StartId..(r - 1) : ActorTrains(q)})

Counts(m, r) ==
    IF m = "actor" THEN weights.actor = StartId + TrainedBefore(r)
    ELSE UseCritic => weights.critic = r

Done(m)    == driver = "training" /\ job[m] = "idle"
Undone(m)  == driver = "training" /\ job[m] # "idle"

\* A model whose training of this rollout has ended counts one more than one that has not.
RoleInv(m) ==
    /\ driver # "training" => job[m] = "idle"
    /\ job[m] # "idle" => IF m = "actor" THEN ActorTrains(rid) ELSE UseCritic
    /\ driver \in {"save", "saving", "sync", "update", "updating", "eval", "evaluating"} =>
          Counts(m, rid + 1)
    /\ driver \in {"start", "first_update", "first_updating", "launch", "top", "generate",
                   "generating", "train"} => Counts(m, rid)
    /\ Done(m) => Counts(m, rid + 1)
    /\ Undone(m) => Counts(m, rid)

TrainInv == \A m \in Role : RoleInv(m)

\* A rollout that was asked for and is running or done was begun with the engines' weights:
\* they do not change before its data is taken.
Wanted(r) == next = r \/ (driver = "generating" /\ rid = r)
Ready(r)  == Wanted(r) /\ (Pending(Generate(r)) => running /\ Head(calls) = Generate(r))

MadeInv == ~CriticTrainOnly => \A r \in Rollout : Ready(r) => made[r] = weights.engines

\* How far the engines may be behind the actor: an update after every interval resets it. And
\* how old the data of a rollout may be when the actor is trained on it.
Behind(n)  == weights.engines # None /\ weights.actor - weights.engines <= n
Allowed(r) == IF Async THEN r % UpdateInterval ELSE 0
Recent(r)  == /\ r \in Rollout /\ made[r] # None
              /\ weights.actor - made[r] <= IF Async THEN UpdateInterval ELSE 0

AgeInv ==
    ~CriticTrainOnly =>
        /\ (driver \in Updating /\ update = "idle") \/ driver = "launch" => Behind(0)
        /\ driver \in {"top", "generate", "generating", "train"} \/ Undone("actor") =>
              Behind(Allowed(rid))
        /\ driver \in {"save", "saving", "sync"} \/ Done("actor") => Behind(Allowed(rid) + 1)
        /\ driver \in {"eval", "evaluating"} => Behind(Allowed(rid + 1))
        /\ driver = "train" \/ Undone("actor") => Recent(rid)
        /\ Async /\ next = None =>
              /\ driver = "top" /\ rid < NumRollout => Recent(rid)
              /\ driver \in {"update", "updating", "eval", "evaluating"} /\ rid + 1 < NumRollout =>
                    Recent(rid + 1)

\* The file a job begins with is not written over.
FileInv == Loaded # -1 => Loaded \in DOMAIN saved /\ saved[Loaded] = OldPosition

\* Where the data source stands once a job has loaded that file.
BeginInv == FileInv /\ BeginsAtCheckpoint

IInv == TypeOK /\ QueueInv /\ DataInv /\ TrainInv /\ MadeInv /\ AgeInv /\ BeginInv

-----------------------------------------------------------------------------
\* What does not change in a step, and what the arguments of a job are.
LEMMA SameArgs ==
    ASSUME [Next]_vars
    PROVE  /\ args' = args /\ NumRollout' = NumRollout /\ StartId' = StartId
           /\ Rollout' = Rollout /\ Call' = Call /\ Async' = Async /\ UseCritic' = UseCritic
<1>1. args' = args
  BY DEF Next, DriverStep, ManagerStep, TrainerStep, Start, Crash, GetSamples, SavePosition,
     AskUpdate, EndUpdate, Launch, Finish, EvalFirst, StartGenerate, TakeData, TakeNext,
     StartTraining, EndTraining, SaveAll, EndSave, SyncGenerate, StartEval, NextRollout,
     BeginCall, EndCall, GiveEngines, Push, CriticForward, ActorForward, SyncActorCritic,
     CriticTrain, ActorTrain, vars
<1> QED
  BY <1>1 DEF NumRollout, StartId, Loaded, Rollout, Call, Async, UseCritic

LEMMA JobTypes ==
    ASSUME args \in Jobs
    PROVE  /\ NumRollout \in Nat \ {0} /\ Loaded \in Int /\ StartId \in 0..NumRollout
           /\ Loaded \in Rollout \cup {-1} /\ StartId = Loaded + 1
           /\ Async \in BOOLEAN /\ UseCritic \in BOOLEAN
<1>1. JobOK(args)
  BY DriverAssumption
<1> QED
  BY <1>1 DEF JobOK, NumRollout, Loaded, StartId, Rollout, Async, UseCritic

\* Sequences of calls.
LEMMA Narrow ==
    ASSUME NEW S, NEW T, NEW s \in Seq(S), \A i \in DOMAIN s : s[i] \in T
    PROVE  s \in Seq(T)
<1>1. Len(s) \in Nat /\ DOMAIN s = 1..Len(s) /\ s \in [1..Len(s) -> S]
  BY LenProperties
<1>2. s \in [1..Len(s) -> T]
  BY <1>1
<1> QED
  BY <1>1, <1>2, SeqDef

LEMMA Without ==
    ASSUME NEW S, calls \in Seq(S), NEW c, ~Pending(c)
    PROVE  calls \in Seq(S \ {c})
<1>1. \A i \in DOMAIN calls : calls[i] \in S \ {c}
  BY ElementOfSeq DEF Pending
<1> QED
  BY <1>1, Narrow

LEMMA NoCalls ==
    ASSUME NEW S, calls \in Seq(S), S = {}
    PROVE  calls = <<>>
<1>1. Len(calls) \in Nat /\ calls \in [1..Len(calls) -> S]
  BY LenProperties
<1>2. Len(calls) = 0
  BY <1>1
<1> QED
  BY <1>2, EmptySeq

-----------------------------------------------------------------------------
\* Types.

LEMMA DriverTypes ==
    ASSUME TypeOK, QueueInv, [Next]_vars, DriverStep
    PROVE  TypeOK'
<1>0. /\ args' = args /\ NumRollout' = NumRollout /\ StartId' = StartId
      /\ Rollout' = Rollout /\ Call' = Call
  BY SameArgs
<1>1. /\ NumRollout \in Nat \ {0} /\ StartId \in 0..NumRollout /\ Rollout = 0..(NumRollout - 1)
      /\ rid \in StartId..NumRollout /\ rid \in 0..NumRollout
      /\ (driver \in Loop => rid < NumRollout)
  BY JobTypes DEF TypeOK, QueueInv, Rollout
<1>2. CASE EndUpdate \/ Finish
  BY <1>0, <1>2 DEF EndUpdate, Finish, managerVars, trainerVars, TypeOK
<1>20. CASE TakeData
  BY <1>0, <1>1, <1>20 DEF TakeData, managerVars, trainerVars, TypeOK
<1>21. CASE EndTraining
  BY <1>0, <1>1, <1>21 DEF EndTraining, AfterSave, managerVars, trainerVars, TypeOK
<1>22. CASE SyncGenerate
  BY <1>0, <1>1, <1>22 DEF SyncGenerate, managerVars, trainerVars, TypeOK
<1>3. CASE EndSave
  BY <1>0, <1>1, <1>3 DEF EndSave, AfterSave, managerVars, trainerVars, TypeOK, Loop
<1>4. CASE NextRollout
  BY <1>0, <1>1, <1>4 DEF NextRollout, managerVars, trainerVars, TypeOK, Loop
<1>5. CASE StartTraining
  BY <1>0, <1>1, <1>5 DEF StartTraining, managerVars, TypeOK, Role
<1>6. /\ Engines \in Call /\ Generate(StartId) \in Call /\ Generate(rid) \in Call
      /\ Eval(rid) \in Call /\ Save(rid) \in Call
      /\ rid + 1 < NumRollout => Generate(rid + 1) \in Call
  BY <1>1 DEF Engines, Generate, Eval, Save, Call
<1>7. \A c \in Call : Append(calls, c) \in Seq(Call)
  BY AppendProperties DEF TypeOK
<1>8. CASE AskUpdate \/ EvalFirst \/ StartGenerate \/ SaveAll \/ StartEval
  <2>1. calls' \in Seq(Call)
    BY <1>6, <1>7, <1>8
    DEF AskUpdate, EvalFirst, StartGenerate, SaveAll, StartEval, Send, TypeOK
  <2> QED
    BY <1>0, <1>1, <1>8, <2>1
    DEF AskUpdate, EvalFirst, StartGenerate, SaveAll, StartEval, StayManager, trainerVars, TypeOK
<1>9. CASE Launch
  <2>1. Async => calls' \in Seq(Call) /\ next' \in Rollout \cup {NumRollout, None}
    BY <1>1, <1>6, <1>7, <1>9 DEF Launch, Send
  <2>2. ~Async => calls' \in Seq(Call) /\ next' \in Rollout \cup {NumRollout, None}
    BY <1>9 DEF Launch, TypeOK
  <2>3. calls' \in Seq(Call) /\ next' \in Rollout \cup {NumRollout, None}
    BY <2>1, <2>2
  <2> QED
    BY <1>0, <1>1, <1>9, <2>3 DEF Launch, StayManager, trainerVars, TypeOK
<1>10. CASE TakeNext
  <2>1. rid + 1 < NumRollout => calls' \in Seq(Call) /\ next' \in Rollout \cup {NumRollout, None}
    BY <1>1, <1>6, <1>7, <1>10 DEF TakeNext, Send
  <2>2. ~(rid + 1 < NumRollout) => calls' \in Seq(Call) /\ next' \in Rollout \cup {NumRollout, None}
    BY <1>10 DEF TakeNext, TypeOK
  <2>3. calls' \in Seq(Call) /\ next' \in Rollout \cup {NumRollout, None}
    BY <2>1, <2>2
  <2> QED
    BY <1>0, <1>1, <1>10, <2>3 DEF TakeNext, Got, StayManager, trainerVars, TypeOK
<1> QED
  BY <1>2, <1>20, <1>21, <1>22, <1>3, <1>4, <1>5, <1>8, <1>9, <1>10 DEF DriverStep

\* A call is answered, and what it leaves.
LEMMA Answered ==
    ASSUME NEW S, calls \in Seq(S), calls # <<>>
    PROVE  /\ Tail(calls) \in Seq(S) /\ Head(calls) \in S
           /\ \A c : ~Pending(c) => Head(calls) # c
  BY HeadTailProperties, LenProperties DEF Pending

LEMMA AdvanceType ==
    ASSUME args \in Jobs, pos \in Position, NEW n \in Nat
    PROVE  Advance(pos, n) \in Position
<1> DEFINE p == [offset |-> pos.offset, epoch |-> pos.epoch, groups |-> pos.groups,
                 order |-> pos.order]
<1>1. DatasetLen \in Nat
  BY ArgTypes
<1>2. /\ pos.offset \in Nat /\ pos.epoch \in Nat /\ pos.groups \in Nat /\ pos.order \in Nat
      /\ pos = p
  BY DEF Position
<1>3. CASE pos.offset + n <= DatasetLen
  <2>1. Advance(p, n) = [offset |-> pos.offset + n, epoch |-> pos.epoch,
                         groups |-> pos.groups + n, order |-> pos.order]
    BY <1>3 DEF Advance, InEpoch
  <2> QED
    BY <1>2, <2>1 DEF Position
<1>4. CASE ~(pos.offset + n <= DatasetLen)
  <2>1. Left(pos) \in Nat /\ n - Left(pos) \in Nat
    BY <1>1, <1>2, <1>4 DEF Left
  <2>2. Advance(pos, n) = NextEpoch(pos, n)
    BY <1>4 DEF Advance
  <2> QED
    BY <1>1, <1>2, <2>1, <2>2 DEF NextEpoch, Position
<1> QED
  BY <1>3, <1>4

LEMMA ManagerTypes ==
    ASSUME TypeOK, QueueInv, [Next]_vars, ManagerStep
    PROVE  TypeOK'
<1>0. /\ args' = args /\ NumRollout' = NumRollout /\ StartId' = StartId
      /\ Rollout' = Rollout /\ Call' = Call
  BY SameArgs
<1>1. CASE BeginCall
  <2>1. weights.engines \in Nat \cup {None}
    BY DEF TypeOK
  <2>2. made' \in [Rollout -> Nat \cup {None}] /\ fetches' \in 0..MaxFetches
    BY <1>1, <2>1, DriverAssumption DEF BeginCall, TypeOK
  <2> QED
    BY <1>0, <1>1, <2>2 DEF BeginCall, driverVars, trainerVars, TypeOK
<1>2. CASE GetSamples
  <2>1. PICK n \in 1..OverSampling : pos' = Advance(pos, n)
    BY <1>2 DEF GetSamples
  <2>2. pos' \in Position
    BY <2>1, AdvanceType, ArgTypes DEF TypeOK
  <2>3. fetches' \in 0..MaxFetches
    BY <1>2, DriverAssumption DEF GetSamples, TypeOK
  <2> QED
    BY <1>0, <1>2, <2>2, <2>3 DEF GetSamples, driverVars, trainerVars, TypeOK
<1>3. calls # <<>> => Tail(calls) \in Seq(Call)
  BY Answered DEF TypeOK
<1>4. CASE EndCall
  <2>1. calls # <<>>
    BY <1>4 DEF EndCall, QueueInv, Runs
  <2> QED
    <3>1. calls' \in Seq(Call) /\ running' \in BOOLEAN
      BY <1>3, <1>4, <2>1 DEF EndCall
    <3>2. /\ UNCHANGED <<driver, rid, next, data, fetches, made, pos, saved>>
          /\ UNCHANGED <<job, weights, update, lastSaved, crashes>>
      BY <1>4 DEF EndCall, driverVars, trainerVars
    <3> QED
      BY <1>0, <3>1, <3>2 DEF TypeOK
<1>5. CASE SavePosition
  <2>1. calls # <<>> /\ Head(calls).op = "save"
    BY <1>5 DEF SavePosition, Runs
  <2>2. Head(calls) \in Asked
    BY <2>1, Answered DEF QueueInv
  <2>3. driver = "saving" /\ Head(calls) = Save(rid)
    BY <2>1, <2>2 DEF Asked, Save, Generate, Eval, Engines
  <2>4. Head(calls).rollout \in Rollout
    <3>1. rid \in 0..NumRollout /\ NumRollout \in Nat
      BY JobTypes DEF TypeOK
    <3>2. rid < NumRollout
      BY <2>3 DEF QueueInv, Loop
    <3> QED
      BY <2>3, <3>1, <3>2 DEF Save, Rollout
  <2>5. Stored(pos) \in File
    BY DEF Stored, File, Position, TypeOK
  <2>6. DOMAIN saved' \subseteq Rollout /\ \A r \in DOMAIN saved' : saved'[r] \in File
    BY <1>5, <2>4, <2>5 DEF SavePosition, TypeOK
  <2> QED
    <3>1. calls' \in Seq(Call)
      BY <1>3, <1>5, <2>1 DEF SavePosition
    <3>2. /\ UNCHANGED <<driver, rid, next, data, running, fetches, made, pos>>
          /\ UNCHANGED <<job, weights, update, lastSaved, crashes>>
      BY <1>5 DEF SavePosition, driverVars, trainerVars
    <3> QED
      BY <1>0, <2>6, <3>1, <3>2 DEF TypeOK
<1>6. CASE GiveEngines
  <2>1. calls # <<>>
    BY <1>6 DEF GiveEngines, Runs
  <2> QED
    BY <1>0, <1>3, <1>6, <2>1 DEF GiveEngines, driverVars, TypeOK
<1> QED
  BY <1>1, <1>2, <1>4, <1>5, <1>6 DEF ManagerStep

LEMMA TrainerTypes ==
    ASSUME TypeOK, [Next]_vars, TrainerStep
    PROVE  TypeOK'
<1>0. /\ args' = args /\ NumRollout' = NumRollout /\ StartId' = StartId
      /\ Rollout' = Rollout /\ Call' = Call
  BY SameArgs
<1> DEFINE Weights == [live : Nat, actor : Nat, old_actor : Nat, rollout_actor : Nat,
                       critic : Nat, engines : Nat \cup {None}]
<1>1. /\ weights.live \in Nat /\ weights.actor \in Nat /\ weights.old_actor \in Nat
      /\ weights.rollout_actor \in Nat /\ weights.critic \in Nat
      /\ weights.engines \in Nat \cup {None} /\ weights \in Weights
  BY DEF TypeOK
<1>2. CASE Push
  <2>1. [weights EXCEPT !.engines = weights.actor] \in Weights
    BY <1>1
  <2>2. \A w \in Weights : RotateCopies(w) \in Weights
    BY DEF RotateCopies
  <2>3. weights' \in Weights
    BY <1>2, <2>1, <2>2 DEF Push
  <2> QED
    BY <1>0, <1>2, <2>3 DEF Push, driverVars, managerVars, TypeOK
<1>3. CASE ActorForward \/ CriticTrain \/ ActorTrain
  <2>1. \A v \in Nat : /\ [weights EXCEPT !.live = v] \in Weights
                       /\ [weights EXCEPT !.critic = v] \in Weights
                       /\ [weights EXCEPT !.live = v, !.actor = v] \in Weights
    BY <1>1
  <2>2. weights' \in Weights
    <3>1. CASE ActorForward /\ KeepOldActor
      <4>1. weights' = [weights EXCEPT !.live = weights.old_actor]
        BY <3>1 DEF ActorForward
      <4> QED
        BY <1>1, <2>1, <4>1
    <3>2. CASE ActorForward /\ ~KeepOldActor
      <4>1. weights' = [weights EXCEPT !.live = weights.actor]
        BY <3>2 DEF ActorForward
      <4> QED
        BY <1>1, <2>1, <4>1
    <3>3. CASE CriticTrain
      <4>1. weights' = [weights EXCEPT !.critic = weights.critic + 1]
        BY <3>3 DEF CriticTrain
      <4>2. weights.critic + 1 \in Nat
        BY <1>1
      <4> QED
        BY <2>1, <4>1, <4>2, Zenon
    <3>4. CASE ActorTrain
      <4>1. weights' = [weights EXCEPT !.live = weights.actor + 1, !.actor = weights.actor + 1]
        BY <3>4 DEF ActorTrain, TrainedFrom
      <4>2. weights.actor + 1 \in Nat
        BY <1>1
      <4> QED
        BY <2>1, <4>1, <4>2, Zenon
    <3> QED
      BY <1>3, <3>1, <3>2, <3>3, <3>4
  <2>3. job' \in [Role -> {"idle", "forward", "sync", "train"}]
    BY <1>3 DEF ActorForward, CriticTrain, ActorTrain, TypeOK
  <2> QED
    <3>1. /\ UNCHANGED <<driver, rid, next, data, calls, running, fetches, made, pos, saved>>
          /\ UNCHANGED <<update, lastSaved, crashes>>
      BY <1>3 DEF ActorForward, CriticTrain, ActorTrain, driverVars, managerVars
    <3> QED
      BY <1>0, <2>2, <2>3, <3>1 DEF TypeOK
<1>4. CASE CriticForward \/ SyncActorCritic
  <2>1. job' \in [Role -> {"idle", "forward", "sync", "train"}]
    BY <1>4 DEF CriticForward, SyncActorCritic, TypeOK
  <2> QED
    BY <1>0, <1>4, <2>1 DEF CriticForward, SyncActorCritic, driverVars, managerVars, TypeOK
<1> QED
  BY <1>2, <1>3, <1>4 DEF TrainerStep

\* The beginning of a job.
LEMMA FreshTypes ==
    ASSUME args \in Jobs
    PROVE  /\ Beginning \in Position
           /\ FreshWeights \in [live : Nat, actor : Nat, old_actor : Nat, rollout_actor : Nat,
                                critic : Nat, engines : Nat \cup {None}]
           /\ [r \in Rollout |-> None] \in [Rollout -> Nat \cup {None}]
           /\ [m \in Role |-> "idle"] \in [Role -> {"idle", "forward", "sync", "train"}]
           /\ << >> \in Seq(Call)
<1>1. StartId \in Nat
  BY JobTypes
<1> QED
  BY <1>1 DEF FreshWeights, Beginning, Position

LEMMA OldFilesTypes ==
    ASSUME args \in Jobs
    PROVE  DOMAIN OldFiles \subseteq Rollout /\ \A r \in DOMAIN OldFiles : OldFiles[r] \in File
<1>1. Loaded # -1 => OldPosition \in File
  <2>1. OldFiles = [r \in {Loaded} \ {-1} |-> OldPosition]
    BY DEF OldFiles
  <2>2. Loaded # -1 => Even(OldPosition)
    BY <2>1, OldFilesEven
  <2>3. OldPosition = [offset |-> OldPosition.offset, epoch |-> OldPosition.epoch,
                       groups |-> OldPosition.groups]
    BY DEF OldPosition
  <2>4. DatasetLen \in Nat
    BY ArgTypes
  <2> QED
    BY <2>2, <2>3, <2>4 DEF Even, File
<1> QED
  BY <1>1, JobTypes DEF OldFiles

LEMMA LoadedTypes ==
    ASSUME args \in Jobs, \A r \in DOMAIN saved : saved[r] \in File
    PROVE  LoadedPosition \in Position
<1>1. Beginning \in Position
  BY FreshTypes
<1>2. \A s \in File : Restored(s) \in Position
  BY DEF File, Restored, Position
<1> QED
  BY <1>1, <1>2 DEF LoadedPosition, Load

LEMMA InitTypes ==
    ASSUME Init
    PROVE  TypeOK
<1>1. args \in Jobs
  BY DEF Init
<1>2. /\ NumRollout \in Nat \ {0} /\ StartId \in 0..NumRollout /\ Loaded \in Rollout \cup {-1}
      /\ StartId \in StartId..NumRollout
  BY <1>1, JobTypes
<1>3. 0 \in 0..MaxFetches /\ 0 \in 0..MaxCrashes
  BY DriverAssumption
<1> QED
  BY <1>1, <1>2, <1>3, FreshTypes, OldFilesTypes DEF Init, TypeOK

LEMMA TypeStep ==
    ASSUME TypeOK, QueueInv, [Next]_vars
    PROVE  TypeOK'
<1>0. /\ args' = args /\ NumRollout' = NumRollout /\ StartId' = StartId
      /\ Rollout' = Rollout /\ Call' = Call
  BY SameArgs
<1>1. CASE Start
  <2>1. pos' \in Position
    BY <1>1, LoadedTypes DEF Start, TypeOK
  <2> QED
    BY <1>0, <1>1, <2>1 DEF Start, trainerVars, TypeOK
<1>2. CASE Crash
  <2>1. StartId \in StartId..NumRollout
    BY JobTypes DEF TypeOK
  <2>2. crashes' \in 0..MaxCrashes /\ 0 \in 0..MaxFetches
    BY <1>2, DriverAssumption DEF Crash, TypeOK
  <2> QED
    BY <1>0, <1>2, <2>1, <2>2, FreshTypes DEF Crash, TypeOK
<1>3. CASE UNCHANGED vars
  BY <1>0, <1>3 DEF vars, driverVars, managerVars, trainerVars, TypeOK
<1> QED
  BY <1>1, <1>2, <1>3, DriverTypes, ManagerTypes, TrainerTypes DEF Next

-----------------------------------------------------------------------------
\* The queue.

LEMMA Wider ==
    ASSUME NEW S, NEW T, S \subseteq T, NEW s \in Seq(S)
    PROVE  s \in Seq(T)
<1>1. \A i \in DOMAIN s : s[i] \in T
  BY ElementOfSeq
<1> QED
  BY <1>1, Narrow

\* Nobody has asked for anything: the driver waits for no call and no rollout was started early.
LEMMA NothingAsked ==
    ASSUME QueueInv, next = None,
           driver \in {"start", "first_update", "launch", "top", "sync", "update", "eval"}
    PROVE  calls = << >>
<1>1. Asked = {}
  BY DEF Asked, Updating
<1> QED
  BY <1>1, NoCalls DEF QueueInv

\* The same once the rollout that was started early has been generated.
LEMMA NothingLeft ==
    ASSUME QueueInv, next # None => ~Pending(Generate(next)),
           driver \in {"top", "sync"}
    PROVE  calls = << >>
<1>1. CASE next = None
  BY <1>1, NothingAsked
<1>2. CASE next # None
  <2>1. Asked \subseteq {Generate(next)}
    BY <1>2 DEF Asked, Updating
  <2>2. calls \in Seq(Asked \ {Generate(next)})
    BY <1>2, Without DEF QueueInv
  <2> QED
    BY <2>1, <2>2, NoCalls
<1> QED
  BY <1>1, <1>2

LEMMA DriverCalls ==
    ASSUME TypeOK, QueueInv, [Next]_vars, DriverStep
    PROVE  calls' \in Seq(Asked')
<1>0. Call' = Call /\ calls \in Seq(Asked)
  BY SameArgs DEF QueueInv
<1>1. /\ rid \in 0..NumRollout
      /\ rid + 1 < NumRollout => rid + 1 \in 0..NumRollout
      /\ StartId \in 0..NumRollout /\ StartId # None /\ rid + 1 # None /\ 0 \in 0..NumRollout
  BY JobTypes DEF TypeOK, None
<1>2. /\ Engines \in Call /\ Generate(StartId) \in Call /\ Generate(rid) \in Call
      /\ Eval(rid) \in Call /\ Save(rid) \in Call
      /\ rid + 1 < NumRollout => Generate(rid + 1) \in Call
  BY <1>1 DEF Engines, Generate, Eval, Save, Call
<1>3. \A S : << >> \in Seq(S) /\ \A c \in S : Append(<< >>, c) \in Seq(S)
  BY AppendProperties
<1>4. CASE AskUpdate
  <2>1. calls = << >>
    BY <1>4, NothingAsked DEF AskUpdate, QueueInv
  <2>2. Engines \in Asked'
    BY <1>0, <1>2, <1>4 DEF AskUpdate, Asked, Updating
  <2> QED
    BY <1>3, <1>4, <2>1, <2>2 DEF AskUpdate, Send
<1>5. CASE EndUpdate
  <2>1. calls = << >> /\ calls' = calls
    BY <1>5 DEF EndUpdate, Updated, QueueInv, Updating, managerVars
  <2> QED
    BY <1>3, <2>1
<1>6. CASE Launch
  <2>1. calls = << >>
    BY <1>6, NothingAsked DEF Launch, QueueInv
  <2>2. Async => Generate(StartId) \in Asked'
    BY <1>0, <1>1, <1>2, <1>6 DEF Launch, Asked
  <2> QED
    BY <1>3, <1>6, <2>1, <2>2 DEF Launch, Send
<1>7. CASE TakeNext
  <2>1. calls = << >>
    BY <1>7, NothingLeft DEF TakeNext
  <2>2. rid + 1 < NumRollout => Generate(rid + 1) \in Asked'
    BY <1>0, <1>1, <1>2, <1>7 DEF TakeNext, Asked
  <2> QED
    BY <1>3, <1>7, <2>1, <2>2 DEF TakeNext, Send
<1>8. CASE SyncGenerate
  <2>1. calls = << >> /\ calls' = calls
    BY <1>8, NothingLeft DEF SyncGenerate, managerVars
  <2> QED
    BY <1>3, <2>1
<1>9. CASE Finish \/ StartTraining \/ EndTraining
  <2>1. calls' = calls /\ Asked \subseteq Asked'
    BY <1>0, <1>9 DEF Finish, StartTraining, EndTraining, managerVars, Asked, Updating
  <2> QED
    BY <1>0, <2>1, Wider
<1>10. CASE TakeData \/ EndSave \/ NextRollout
  <2>1. PICK c : ~Pending(c) /\ calls' = calls /\ Asked \ {c} \subseteq Asked'
    <3>1. CASE TakeData
      <4>1. Asked \ {Generate(rid)} \subseteq Asked'
        BY <1>0, <3>1 DEF TakeData, Asked, Updating
      <4> QED
        BY <3>1, <4>1 DEF TakeData, managerVars
    <3>2. CASE EndSave
      <4>1. Asked \ {Save(rid)} \subseteq Asked'
        BY <1>0, <3>2 DEF EndSave, Asked, Updating
      <4> QED
        BY <3>2, <4>1 DEF EndSave, managerVars
    <3>3. CASE NextRollout
      <4>1. Asked \ {Eval(rid)} \subseteq Asked'
        BY <1>0, <3>3 DEF NextRollout, Asked, Updating
      <4> QED
        BY <3>3, <4>1 DEF NextRollout, managerVars
    <3> QED
      BY <1>10, <3>1, <3>2, <3>3
  <2>2. calls \in Seq(Asked \ {c})
    BY <1>0, <2>1, Without
  <2> QED
    BY <2>1, <2>2, Wider
<1>11. CASE EvalFirst \/ SaveAll \/ StartEval
  <2>1. PICK c \in Asked' : calls' \in {calls, Append(calls, c)}
    <3>1. /\ EvalFirst => Eval(rid) \in Asked'
          /\ SaveAll => Save(rid) \in Asked'
          /\ StartEval => Eval(rid) \in Asked'
      BY <1>0, <1>2 DEF EvalFirst, SaveAll, StartEval, Asked
    <3> QED
      BY <1>11, <3>1 DEF EvalFirst, SaveAll, StartEval, Send
  <2>2. Asked \subseteq Asked'
    BY <1>0, <1>11 DEF EvalFirst, SaveAll, StartEval, Asked, Updating
  <2>3. calls \in Seq(Asked')
    BY <1>0, <2>2, Wider
  <2> QED
    BY <2>1, <2>3, AppendProperties
<1>12. CASE StartGenerate
  <2>1. calls \in Seq(Asked \ {Eval(rid)})
    BY <1>0, <1>12, Without DEF StartGenerate
  <2>2. Asked \ {Eval(rid)} \subseteq Asked' /\ Generate(rid) \in Asked'
    BY <1>0, <1>2, <1>12 DEF StartGenerate, Asked, Updating
  <2>3. calls \in Seq(Asked')
    BY <2>1, <2>2, Wider
  <2> QED
    BY <1>12, <2>2, <2>3, AppendProperties DEF StartGenerate, Send
<1> QED
  BY <1>4, <1>5, <1>6, <1>7, <1>8, <1>9, <1>10, <1>11, <1>12 DEF DriverStep

LEMMA ManagerCalls ==
    ASSUME TypeOK, QueueInv, [Next]_vars, ManagerStep
    PROVE  calls' \in Seq(Asked') /\ calls' \in {calls, Tail(calls)}
<1>0. Call' = Call /\ calls \in Seq(Asked)
  BY SameArgs DEF QueueInv
<1>1. UNCHANGED <<next, driver, rid>>
  BY DEF ManagerStep, BeginCall, GetSamples, EndCall, SavePosition, GiveEngines, driverVars
<1>2. Asked' = Asked
  BY <1>0, <1>1 DEF Asked
<1>3. calls' \in {calls, Tail(calls)} /\ (calls' # calls => calls # << >>)
  BY DEF ManagerStep, BeginCall, GetSamples, EndCall, SavePosition, GiveEngines, Runs, QueueInv
<1> QED
  BY <1>0, <1>2, <1>3, Answered

LEMMA KeepsHead ==
    ASSUME NEW S, NEW s \in Seq(S), s # << >>, NEW c
    PROVE  Head(Append(s, c)) = Head(s) /\ Append(s, c) # << >>
<1>1. s \in Seq(S \cup {c})
  BY Wider
<1>2. Len(s) \in Nat /\ Len(s) # 0
  BY LenProperties, EmptySeq
<1> QED
  BY <1>1, <1>2, AppendProperties

LEMMA QueueStep ==
    ASSUME TypeOK, QueueInv, [Next]_vars
    PROVE  QueueInv'
<1>0. /\ Call' = Call /\ Async' = Async /\ NumRollout' = NumRollout /\ StartId' = StartId
      /\ StartId \in 0..NumRollout /\ rid \in 0..NumRollout /\ NumRollout \in Nat
  BY SameArgs, JobTypes DEF TypeOK
<1>1. CASE DriverStep
  <2>1. calls' \in Seq(Asked')
    BY <1>1, DriverCalls
  <2>2. next' # None => Async'
    BY <1>0, <1>1 DEF DriverStep, AskUpdate, EndUpdate, Launch, Finish, EvalFirst,
       StartGenerate, TakeData, TakeNext, StartTraining, EndTraining, SaveAll, EndSave,
       SyncGenerate, StartEval, NextRollout, QueueInv
  <2>3. driver' \in {"start", "first_update", "launch", "update"} \cup Updating => next' = None
    <3>1. CASE EndTraining \/ EndSave
      BY <3>1 DEF EndTraining, EndSave, AfterSave, QueueInv, Updating
    <3> QED
      BY <1>1, <3>1 DEF DriverStep, AskUpdate, EndUpdate, Launch, Finish, EvalFirst,
         StartGenerate, TakeData, TakeNext, StartTraining, SaveAll,
         SyncGenerate, StartEval, NextRollout, QueueInv, Updating
  <2>4. driver' \in Loop => rid' < NumRollout'
    <3>1. CASE EvalFirst \/ TakeNext
      BY <1>0, <3>1 DEF EvalFirst, TakeNext, Over
    <3>2. CASE NextRollout \/ Finish \/ Launch
      BY <3>2 DEF NextRollout, Finish, Launch, Loop
    <3>3. CASE AskUpdate \/ EndUpdate
      BY <1>0, <3>3 DEF AskUpdate, EndUpdate, QueueInv, Loop
    <3> QED
      BY <1>0, <1>1, <3>1, <3>2, <3>3 DEF DriverStep, StartGenerate, TakeData,
         StartTraining, EndTraining, SaveAll, EndSave, SyncGenerate, StartEval, QueueInv, Loop
  <2>5. running' => Runs("generate")' \/ Runs("eval")'
    <3>1. running' = running
      BY <1>1 DEF DriverStep, AskUpdate, EndUpdate, Launch, Finish, EvalFirst,
         StartGenerate, TakeData, TakeNext, StartTraining, EndTraining, SaveAll, EndSave,
         SyncGenerate, StartEval, NextRollout, StayManager, managerVars
    <3>2. calls' = calls \/ \E c : calls' = Append(calls, c)
      BY <1>1 DEF DriverStep, AskUpdate, EndUpdate, Launch, Finish, EvalFirst,
         StartGenerate, TakeData, TakeNext, StartTraining, EndTraining, SaveAll, EndSave,
         SyncGenerate, StartEval, NextRollout, Send, managerVars
    <3>3. calls # << >> => \A c : Head(Append(calls, c)) = Head(calls) /\ Append(calls, c) # << >>
      BY KeepsHead DEF TypeOK
    <3> QED
      BY <3>1, <3>2, <3>3 DEF QueueInv, Runs
  <2>6. IF driver' \in Updating
        THEN calls' \in {<< >>, <<Engines>>} /\ (update' = "asked" <=> calls' = <<Engines>>)
        ELSE update' = "idle"
    <3>1. CASE AskUpdate
      <4>1. calls = << >>
        BY <3>1, NothingAsked DEF AskUpdate, QueueInv
      <4> QED
        BY <3>1, <4>1 DEF AskUpdate, Send, Updating
    <3>2. CASE EndUpdate
      BY <3>2 DEF EndUpdate, Updated, Updating, trainerVars
    <3>3. CASE EndTraining \/ EndSave
      BY <3>3 DEF EndTraining, EndSave, AfterSave, Updating, QueueInv, trainerVars
    <3> QED
      BY <1>1, <3>1, <3>2, <3>3 DEF DriverStep, Launch, Finish, EvalFirst,
         StartGenerate, TakeData, TakeNext, StartTraining, SaveAll,
         SyncGenerate, StartEval, NextRollout, QueueInv, Updating, trainerVars
  <2> QED
    BY <2>1, <2>2, <2>3, <2>4, <2>5, <2>6 DEF QueueInv, Updating, Loop
<1>2. CASE ManagerStep
  <2>1. calls' \in Seq(Asked') /\ calls' \in {calls, Tail(calls)}
    BY <1>2, ManagerCalls
  <2>2. UNCHANGED <<next, driver, rid>>
    BY <1>2 DEF ManagerStep, BeginCall, GetSamples, EndCall, SavePosition, GiveEngines, driverVars
  <2>3. running' => Runs("generate")' \/ Runs("eval")'
    BY <1>2 DEF ManagerStep, BeginCall, GetSamples, EndCall, SavePosition, GiveEngines, QueueInv,
       Runs
  <2>4. driver \in Updating => calls \in {<< >>, <<Engines>>} /\ (calls # << >> => Runs("engines"))
    BY DEF QueueInv, Runs, Engines
  <2>5. Tail(<<Engines>>) = << >> /\ <<Engines>> # << >>
    OBVIOUS
  <2>6. IF driver' \in Updating
        THEN calls' \in {<< >>, <<Engines>>} /\ (update' = "asked" <=> calls' = <<Engines>>)
        ELSE update' = "idle"
    <3>1. CASE BeginCall \/ GetSamples
      BY <2>2, <3>1 DEF BeginCall, GetSamples, QueueInv, trainerVars
    <3>2. CASE EndCall \/ SavePosition
      <4>1. driver \notin Updating
        BY <2>4, <3>2 DEF EndCall, SavePosition, QueueInv, Runs
      <4> QED
        BY <2>2, <3>2, <4>1 DEF EndCall, SavePosition, QueueInv, trainerVars
    <3>3. CASE GiveEngines
      <4>1. driver \in Updating
        <5>1. Head(calls) \in Asked /\ Head(calls).op = "engines"
          BY <3>3, Answered DEF GiveEngines, Runs, QueueInv
        <5> QED
          BY <5>1 DEF Asked, Generate, Eval, Save
      <4>2. calls = <<Engines>>
        BY <2>4, <3>3, <4>1 DEF GiveEngines, Runs
      <4> QED
        BY <2>2, <2>5, <3>3, <4>1, <4>2 DEF GiveEngines
    <3> QED
      BY <1>2, <3>1, <3>2, <3>3 DEF ManagerStep
  <2> QED
    BY <1>0, <2>1, <2>2, <2>3, <2>6 DEF QueueInv, Updating, Loop
<1>3. ASSUME UNCHANGED <<driver, rid, next, calls, running>>,
             update' = update \/ (update = "push" /\ update' = "idle")
      PROVE  QueueInv'
  <2>1. Asked' = Asked /\ Runs("generate")' = Runs("generate") /\ Runs("eval")' = Runs("eval")
    BY <1>0, <1>3 DEF Asked, Runs
  <2> QED
    BY <1>0, <1>3, <2>1 DEF QueueInv, Updating, Loop
<1>4. CASE TrainerStep \/ UNCHANGED vars
  BY <1>3, <1>4 DEF TrainerStep, Push, CriticForward, ActorForward, SyncActorCritic, CriticTrain,
     ActorTrain, vars, driverVars, managerVars, trainerVars
<1>5. CASE Start
  <2>1. calls = << >> /\ next = None /\ ~running /\ update = "idle"
    BY <1>5, NothingAsked DEF Start, QueueInv, Runs, Updating
  <2>2. << >> \in Seq(Asked')
    OBVIOUS
  <2> QED
    BY <1>5, <2>1, <2>2 DEF Start, QueueInv, Updating, Loop, trainerVars
<1>6. CASE Crash
  <2>1. << >> \in Seq(Asked')
    OBVIOUS
  <2> QED
    BY <1>6, <2>1 DEF Crash, QueueInv, Updating, Loop
<1> QED
  BY <1>1, <1>2, <1>4, <1>5, <1>6 DEF Next

-----------------------------------------------------------------------------
\* The data a model trains on.

LEMMA DataStep ==
    ASSUME TypeOK, QueueInv, DataInv, [Next]_vars
    PROVE  DataInv'
<1>0. /\ Call' = Call /\ Async' = Async /\ NumRollout' = NumRollout /\ StartId' = StartId
      /\ NumRollout \in Nat /\ rid \in 0..NumRollout /\ calls \in Seq(Call)
  BY SameArgs, JobTypes DEF TypeOK
<1>1. CASE DriverStep
  <2>1. driver' \in {"start", "first_update", "first_updating", "launch"} => rid' = StartId
    BY <1>1 DEF DriverStep, AskUpdate, EndUpdate, Launch, Finish, EvalFirst,
       StartGenerate, TakeData, TakeNext, StartTraining, EndTraining, SaveAll, EndSave,
       SyncGenerate, StartEval, NextRollout, AfterSave, DataInv
  <2>2. driver' \in {"generate", "generating"} => ~Async
    BY <1>1 DEF DriverStep, AskUpdate, EndUpdate, Launch, Finish, EvalFirst,
       StartGenerate, TakeData, TakeNext, StartTraining, EndTraining, SaveAll, EndSave,
       SyncGenerate, StartEval, NextRollout, AfterSave, DataInv
  <2>3. ASSUME Async
        PROVE  /\ driver' = "top" /\ rid' < NumRollout => Early(rid)'
               /\ driver' \in {"train", "training", "save", "saving", "sync"}
                     /\ rid' + 1 < NumRollout => next' = rid' + 1
               /\ driver' \in {"update", "updating", "eval", "evaluating"}
                     /\ rid' + 1 < NumRollout => Early(rid + 1)'
    <3>1. CASE Launch
      BY <2>3, <3>1 DEF Launch, DataInv, Early
    <3>2. CASE EndUpdate \/ AskUpdate \/ StartEval
      BY <2>3, <3>2 DEF AskUpdate, EndUpdate, StartEval, managerVars, DataInv, Early
    <3>3. CASE TakeNext
      BY <2>3, <3>3 DEF TakeNext
    <3>4. CASE SyncGenerate
      BY <2>3, <3>4 DEF SyncGenerate, DataInv, Early
    <3>5. CASE EndTraining \/ EndSave
      BY <2>3, <3>5 DEF EndTraining, EndSave, AfterSave, DataInv, Early
    <3>6. CASE NextRollout
      BY <2>3, <3>6, <1>0 DEF NextRollout, DataInv, Early
    <3>7. CASE StartTraining \/ SaveAll \/ Finish \/ EvalFirst \/ StartGenerate \/ TakeData
      BY <2>2, <2>3, <3>7
      DEF StartTraining, SaveAll, Finish, EvalFirst, StartGenerate, TakeData, DataInv
    <3> QED
      BY <1>1, <3>1, <3>2, <3>3, <3>4, <3>5, <3>6, <3>7 DEF DriverStep
  <2>4. driver' \in {"train", "training"} =>
            data' = rid' /\ calls' \in Seq(Call \ {Generate(rid')})
    <3>1. CASE TakeData
      <4>1. calls \in Seq(Call \ {Generate(rid)})
        BY <1>0, <3>1, Without DEF TakeData
      <4> QED
        BY <3>1, <4>1 DEF TakeData, managerVars
    <3>2. CASE TakeNext
      <4>1. Got = rid
        BY <1>0, <3>2 DEF TakeNext, Got, Over, DataInv, Early, None
      <4>2. calls = << >>
        BY <3>2, NothingLeft DEF TakeNext
      <4>3. rid + 1 < NumRollout => Generate(rid + 1) \in Call \ {Generate(rid)}
        BY <1>0 DEF Generate, Call
      <4>4. /\ calls \in Seq(Call \ {Generate(rid)})
            /\ rid + 1 < NumRollout =>
                  Append(calls, Generate(rid + 1)) \in Seq(Call \ {Generate(rid)})
        BY <4>2, <4>3, AppendProperties
      <4>5. calls' \in Seq(Call \ {Generate(rid)})
        BY <3>2, <4>4 DEF TakeNext, Send
      <4> QED
        BY <3>2, <4>1, <4>5 DEF TakeNext
    <3>3. CASE StartTraining
      BY <3>3 DEF StartTraining, managerVars, DataInv
    <3> QED
      BY <1>1, <3>1, <3>2, <3>3 DEF DriverStep, AskUpdate, EndUpdate, Launch, Finish, EvalFirst,
         StartGenerate, EndTraining, SaveAll, EndSave, SyncGenerate, StartEval, NextRollout,
         AfterSave
  <2> QED
    BY <1>0, <2>1, <2>2, <2>3, <2>4 DEF DataInv, Early
<1>2. ASSUME UNCHANGED <<driver, rid, next, data>>,
             calls' = calls \/ (calls # << >> /\ calls' = Tail(calls))
      PROVE  DataInv'
  <2>1. driver' \in {"train", "training"} =>
            data' = rid' /\ calls' \in Seq(Call \ {Generate(rid')})
    BY <1>2, Answered DEF DataInv
  <2> QED
    BY <1>0, <1>2, <2>1 DEF DataInv, Early
<1>3. CASE ManagerStep
  BY <1>2, <1>3 DEF ManagerStep, BeginCall, GetSamples, EndCall, SavePosition, GiveEngines,
     driverVars, Runs, QueueInv
<1>4. CASE TrainerStep \/ UNCHANGED vars
  BY <1>2, <1>4 DEF TrainerStep, Push, CriticForward, ActorForward, SyncActorCritic, CriticTrain,
     ActorTrain, vars, driverVars, managerVars
<1>5. CASE Start \/ Crash
  BY <1>0, <1>5 DEF Start, Crash, DataInv
<1> QED
  BY <1>1, <1>3, <1>4, <1>5 DEF Next

-----------------------------------------------------------------------------
\* How often it trains.

\* One more rollout: the actor may or may not be trained on it.
LEMMA TrainedNext ==
    ASSUME args \in Jobs, NEW r \in Int, StartId <= r
    PROVE  /\ TrainedBefore(r + 1) = TrainedBefore(r) + (IF ActorTrains(r) THEN 1 ELSE 0)
           /\ TrainedBefore(r) \in Nat /\ TrainedBefore(StartId) = 0
<1> DEFINE Before(n) == {q \in StartId..(n - 1) : ActorTrains(q)}
<1>1. StartId \in Int
  BY JobTypes
<1>2. /\ IsFiniteSet(Before(r)) /\ Cardinality(Before(r)) \in Nat /\ r \notin Before(r)
  <2>1. IsFiniteSet(StartId..(r - 1))
    BY <1>1, FS_Interval
  <2>2. IsFiniteSet(Before(r))
    BY <2>1, FS_Subset
  <2> QED
    BY <1>1, <2>2, FS_CardinalityType
<1>3. Before(r + 1) = IF ActorTrains(r) THEN Before(r) \cup {r} ELSE Before(r)
  BY <1>1
<1>4. Before(StartId) = {}
  BY <1>1
<1> HIDE DEF Before
<1>5. Cardinality(Before(r) \cup {r}) = Cardinality(Before(r)) + 1
  BY <1>2, FS_AddElement
<1>6. Cardinality(Before(StartId)) = 0
  BY <1>4, FS_EmptySet
<1>7. \A n : TrainedBefore(n) = Cardinality(Before(n))
  BY DEF TrainedBefore, Before
<1> QED
  BY <1>2, <1>3, <1>5, <1>6, <1>7

LEMMA SameCounts ==
    ASSUME [Next]_vars, NEW r
    PROVE  /\ TrainedBefore(r)' = TrainedBefore(r) /\ (ActorTrains(r)' <=> ActorTrains(r))
<1>1. args' = args
  BY SameArgs
<1> QED
  BY <1>1 DEF TrainedBefore, ActorTrains, UseCritic, NumCriticOnly, CriticTrainOnly, StartId,
     Loaded

\* What becomes of the weights that are counted.
LEMMA Pushed ==
    ASSUME TypeOK, Push
    PROVE  /\ weights'.actor = weights.actor /\ weights'.critic = weights.critic
           /\ weights'.engines = weights.actor
<1>1. \A w \in [live : Nat, actor : Nat, old_actor : Nat, rollout_actor : Nat,
                critic : Nat, engines : Nat \cup {None}] :
          /\ RotateCopies(w).actor = w.actor /\ RotateCopies(w).critic = w.critic
          /\ RotateCopies(w).engines = w.engines
  BY DEF RotateCopies
<1> DEFINE pushed == [weights EXCEPT !.engines = weights.actor]
<1>2. pushed \in [live : Nat, actor : Nat, old_actor : Nat, rollout_actor : Nat,
                  critic : Nat, engines : Nat \cup {None}]
  BY DEF TypeOK
<1>3. /\ pushed.actor = weights.actor /\ pushed.critic = weights.critic
      /\ pushed.engines = weights.actor
  BY DEF TypeOK
<1> HIDE DEF pushed
<1>4. weights' = RotateCopies(pushed)
  BY DEF Push, pushed
<1> QED
  BY <1>1, <1>2, <1>3, <1>4

LEMMA SameWeights ==
    ASSUME TypeOK, Push \/ CriticForward \/ ActorForward \/ SyncActorCritic
    PROVE  weights'.actor = weights.actor /\ weights'.critic = weights.critic
BY Pushed DEF ActorForward, CriticForward, SyncActorCritic, TypeOK

LEMMA TrainStep ==
    ASSUME TypeOK, QueueInv, TrainInv, [Next]_vars
    PROVE  TrainInv'
<1> SUFFICES ASSUME NEW m \in Role PROVE RoleInv(m)'
  BY DEF TrainInv, Role
<1>0. /\ StartId' = StartId /\ UseCritic' = UseCritic /\ StartId \in Nat /\ args \in Jobs
      /\ rid \in Nat /\ StartId <= rid /\ NumRollout \in Nat /\ UseCritic \in BOOLEAN
  BY SameArgs, JobTypes DEF TypeOK
<1>1. /\ RoleInv(m) /\ m \in {"actor", "critic"}
      /\ job \in [Role -> {"idle", "forward", "sync", "train"}]
  BY DEF TrainInv, Role, TypeOK
<1>2. /\ TrainedBefore(rid + 1) = TrainedBefore(rid) + (IF ActorTrains(rid) THEN 1 ELSE 0)
      /\ TrainedBefore(rid) \in Nat
  BY <1>0, TrainedNext
<1>3. \A r : TrainedBefore(r)' = TrainedBefore(r) /\ (ActorTrains(r)' <=> ActorTrains(r))
  BY SameCounts
<1>4. ASSUME UNCHANGED <<weights, rid>>
      PROVE  /\ Counts(m, rid)' <=> Counts(m, rid)
             /\ Counts(m, rid + 1)' <=> Counts(m, rid + 1)
  BY <1>0, <1>3, <1>4 DEF Counts
<1>5. CASE Start
  BY <1>1, <1>3, <1>4, <1>5 DEF Start, RoleInv, trainerVars, Done, Undone
<1>6. CASE Crash
  <2>1. TrainedBefore(StartId) = 0
    BY <1>0, TrainedNext
  <2>2. Counts(m, rid)'
    BY <1>0, <1>3, <1>6, <2>1 DEF Crash, Counts, FreshWeights
  <2> QED
    BY <1>6, <2>2 DEF Crash, RoleInv, Done, Undone
<1>7. CASE StartTraining
  <2>1. CASE m = "actor"
    <3>1. ~ActorTrains(rid) => (Counts(m, rid) => Counts(m, rid + 1))
      BY <1>2, <2>1 DEF Counts
    <3> QED
      BY <1>1, <1>3, <1>4, <1>7, <2>1, <3>1 DEF StartTraining, RoleInv, Done, Undone
  <2>2. CASE m = "critic"
    <3>1. ~UseCritic => Counts(m, rid + 1)
      BY <2>2 DEF Counts
    <3> QED
      BY <1>0, <1>1, <1>3, <1>4, <1>7, <2>2, <3>1 DEF StartTraining, RoleInv, Done, Undone
  <2> QED
    BY <1>1, <2>1, <2>2
<1>8. CASE NextRollout
  <2>1. Counts(m, rid + 1)
    BY <1>1, <1>8 DEF NextRollout, RoleInv
  <2>2. rid' = rid + 1 /\ UNCHANGED <<weights, job>>
    BY <1>8 DEF NextRollout, trainerVars
  <2>3. Counts(m, rid)'
    BY <1>0, <1>3, <2>1, <2>2 DEF Counts
  <2> QED
    BY <1>1, <1>8, <2>2, <2>3 DEF NextRollout, RoleInv, Done, Undone
<1>9. CASE EndTraining
  <2>1. UNCHANGED <<weights, rid, job>> /\ job[m] = "idle"
    BY <1>1, <1>9 DEF EndTraining, trainerVars, Trained, Role
  <2>2. Counts(m, rid + 1)
    BY <1>1, <1>9, <2>1 DEF EndTraining, RoleInv, Done
  <2>3. driver' \in {"save", "sync", "eval", "update"}
    BY <1>9 DEF EndTraining, AfterSave
  <2> QED
    BY <1>1, <1>4, <2>1, <2>2, <2>3 DEF RoleInv, Done, Undone
<1>10. CASE DriverStep /\ ~StartTraining /\ ~NextRollout /\ ~EndTraining
  <2>1. UNCHANGED <<weights, rid, job>>
    BY <1>10 DEF DriverStep, AskUpdate, EndUpdate, Launch, Finish, EvalFirst,
       StartGenerate, TakeData, TakeNext, SaveAll, EndSave, SyncGenerate, StartEval, trainerVars
  <2>2. driver # "training" /\ driver' # "training"
    BY <1>10 DEF DriverStep, AskUpdate, EndUpdate, Launch, Finish, EvalFirst,
       StartGenerate, TakeData, TakeNext, SaveAll, EndSave, SyncGenerate, StartEval, AfterSave
  <2>3. \/ /\ driver \in {"save", "saving", "sync", "update", "updating", "eval", "evaluating"}
           /\ driver' \in {"save", "saving", "sync", "update", "updating", "eval", "evaluating"}
        \/ /\ driver \in {"start", "first_update", "first_updating", "launch", "top", "generate",
                          "generating", "train"}
           /\ driver' \in {"start", "first_update", "first_updating", "launch", "top",
                           "generate", "generating", "train", "done"}
    BY <1>10 DEF DriverStep, AskUpdate, EndUpdate, Launch, Finish, EvalFirst,
       StartGenerate, TakeData, TakeNext, SaveAll, EndSave, SyncGenerate, StartEval, AfterSave
  <2> QED
    BY <1>1, <1>4, <2>1, <2>2, <2>3 DEF RoleInv, Done, Undone
<1>11. CASE ManagerStep \/ UNCHANGED vars
  <2>1. UNCHANGED <<weights, rid, job, driver>>
    BY <1>11 DEF ManagerStep, BeginCall, GetSamples, EndCall, SavePosition, GiveEngines,
       driverVars, trainerVars, vars
  <2> QED
    BY <1>0, <1>1, <1>3, <1>4, <2>1 DEF RoleInv, Done, Undone
<1>12. CASE TrainerStep
  <2>1. UNCHANGED <<rid, driver>>
    BY <1>12 DEF TrainerStep, Push, CriticForward, ActorForward, SyncActorCritic, CriticTrain,
       ActorTrain, driverVars
  <2>2. CASE Push \/ CriticForward \/ ActorForward \/ SyncActorCritic
    <3>1. job'[m] = "idle" <=> job[m] = "idle"
      BY <1>1, <2>2
      DEF Push, CriticForward, ActorForward, SyncActorCritic, Role
    <3>2. weights'.actor = weights.actor /\ weights'.critic = weights.critic
      BY <2>2, SameWeights
    <3>3. /\ Counts(m, rid)' <=> Counts(m, rid)
          /\ Counts(m, rid + 1)' <=> Counts(m, rid + 1)
      BY <1>0, <1>3, <2>1, <3>2 DEF Counts
    <3> QED
      BY <1>0, <1>1, <1>3, <2>1, <3>1, <3>3 DEF RoleInv, Done, Undone
  <2>3. CASE CriticTrain
    <3>1. /\ weights'.critic = weights.critic + 1 /\ weights'.actor = weights.actor
          /\ job["critic"] = "train" /\ job'["critic"] = "idle" /\ job'["actor"] = job["actor"]
      BY <1>1, <2>3 DEF CriticTrain, TypeOK, Role
    <3>2. CASE m = "actor"
      <4>1. /\ Counts(m, rid)' <=> Counts(m, rid)
            /\ Counts(m, rid + 1)' <=> Counts(m, rid + 1)
        BY <1>0, <1>3, <2>1, <3>1, <3>2 DEF Counts
      <4> QED
        BY <1>0, <1>1, <1>3, <2>1, <3>1, <3>2, <4>1 DEF RoleInv, Done, Undone
    <3>3. CASE m = "critic"
      <4>1. driver = "training" /\ Counts(m, rid) /\ UseCritic
        BY <1>1, <3>1, <3>3 DEF RoleInv, Undone
      <4>2. Counts(m, rid + 1)'
        BY <1>0, <1>2, <1>3, <2>1, <3>1, <3>3, <4>1 DEF Counts
      <4> QED
        BY <2>1, <3>1, <3>3, <4>1, <4>2 DEF RoleInv, Done, Undone
    <3> QED
      BY <1>1, <3>2, <3>3
  <2>4. CASE ActorTrain
    <3>0. weights'.actor = TrainedFrom(weights) + 1 /\ weights'.critic = weights.critic
      BY <2>4 DEF ActorTrain, TypeOK
    <3>1. /\ weights'.actor = weights.actor + 1 /\ weights'.critic = weights.critic
          /\ job["actor"] = "train" /\ job'["actor"] = "idle" /\ job'["critic"] = job["critic"]
      BY <1>1, <3>0, <2>4 DEF ActorTrain, TrainedFrom, TypeOK, Role
    <3>2. CASE m = "critic"
      <4>1. /\ Counts(m, rid)' <=> Counts(m, rid)
            /\ Counts(m, rid + 1)' <=> Counts(m, rid + 1)
        BY <1>0, <1>3, <2>1, <3>1, <3>2 DEF Counts
      <4> QED
        BY <1>0, <1>1, <1>3, <2>1, <3>1, <3>2, <4>1 DEF RoleInv, Done, Undone
    <3>3. CASE m = "actor"
      <4>1. driver = "training" /\ Counts(m, rid) /\ ActorTrains(rid)
        BY <1>1, <3>1, <3>3 DEF RoleInv, Undone
      <4>2. Counts(m, rid + 1)'
        BY <1>0, <1>2, <1>3, <2>1, <3>1, <3>3, <4>1 DEF Counts
      <4> QED
        BY <2>1, <3>1, <3>3, <4>1, <4>2 DEF RoleInv, Done, Undone
    <3> QED
      BY <1>1, <3>2, <3>3
  <2> QED
    BY <1>12, <2>2, <2>3, <2>4 DEF TrainerStep
<1> QED
  BY <1>5, <1>6, <1>7, <1>8, <1>9, <1>10, <1>11, <1>12 DEF Next

-----------------------------------------------------------------------------
\* The weights a rollout is generated with.

LEMMA InTail ==
    ASSUME NEW S, calls \in Seq(S), calls # << >>, NEW c, Pending(c), Head(calls) # c
    PROVE  \E i \in DOMAIN Tail(calls) : Tail(calls)[i] = c
<1>1. PICK i \in DOMAIN calls : calls[i] = c
  BY DEF Pending
<1>2. /\ Len(calls) \in Nat /\ DOMAIN calls = 1..Len(calls) /\ Head(calls) = calls[1]
      /\ Tail(calls) \in Seq(S) /\ Len(Tail(calls)) = Len(calls) - 1
      /\ \A j \in 1..Len(Tail(calls)) : Tail(calls)[j] = calls[j + 1]
  BY HeadTailProperties, LenProperties
<1>3. DOMAIN Tail(calls) = 1..(Len(calls) - 1)
  BY <1>2, LenProperties
<1>4. i - 1 \in 1..(Len(calls) - 1)
  BY <1>1, <1>2
<1> QED
  BY <1>1, <1>2, <1>3, <1>4

\* The first call is answered, and if it was a rollout it had been begun.
LEMMA ReadyBefore ==
    ASSUME TypeOK, calls # << >>, calls' = Tail(calls), UNCHANGED <<driver, rid, next>>,
           Head(calls).op = "generate" => running, running' = FALSE, NEW r, Ready(r)'
    PROVE  Ready(r)
<1>1. Wanted(r) /\ ~Pending(Generate(r))'
  BY DEF Ready, Wanted
<1>2. Pending(Generate(r)) => Head(calls) = Generate(r)
  BY <1>1, InTail DEF Pending, TypeOK
<1> QED
  BY <1>1, <1>2 DEF Ready, Generate

LEMMA StillPending ==
    ASSUME TypeOK, NEW c, calls' \in {calls, Append(calls, c)}, NEW d, Pending(d)
    PROVE  Pending(d)'
<1>1. calls \in Seq(Call \cup {c})
  BY Wider DEF TypeOK
<1>2. PICK i \in DOMAIN calls : calls[i] = d
  BY DEF Pending
<1>3. i \in DOMAIN calls' /\ calls'[i] = d
  BY <1>1, <1>2, AppendProperties, LenProperties
<1> QED
  BY <1>3 DEF Pending

\* The engines' weights change only in an update.
LEMMA SameEngines ==
    ASSUME TypeOK, CriticForward \/ ActorForward \/ SyncActorCritic \/ CriticTrain \/ ActorTrain
    PROVE  weights'.engines = weights.engines
BY DEF CriticForward, ActorForward, SyncActorCritic, CriticTrain, ActorTrain, TypeOK

LEMMA MadeStep ==
    ASSUME TypeOK, QueueInv, DataInv, MadeInv, [Next]_vars
    PROVE  MadeInv'
<1>0. /\ args' = args /\ Rollout' = Rollout /\ (CriticTrainOnly' <=> CriticTrainOnly)
      /\ Rollout = 0..(NumRollout - 1) /\ None \notin Rollout /\ NumRollout \in Nat
  BY SameArgs, JobTypes DEF TypeOK, CriticTrainOnly, Rollout, None
<1> SUFFICES ASSUME ~CriticTrainOnly, NEW r \in Rollout, Ready(r)'
             PROVE  made'[r] = weights'.engines
  BY <1>0 DEF MadeInv
<1>1. r # None /\ (Ready(r) => made[r] = weights.engines)
  BY <1>0 DEF MadeInv
<1>2. ASSUME made' = made, weights'.engines = weights.engines, Ready(r)
      PROVE  made'[r] = weights'.engines
  BY <1>1, <1>2
<1>3. CASE DriverStep
  <2>1. made' = made /\ weights' = weights /\ running' = running
    BY <1>3 DEF DriverStep, AskUpdate, EndUpdate, Launch, Finish, EvalFirst, StartGenerate,
       TakeData, TakeNext, StartTraining, EndTraining, SaveAll, EndSave, SyncGenerate, StartEval,
       NextRollout, StayManager, managerVars, trainerVars
  <2>2. Wanted(r)'
    BY DEF Ready
  <2>5. CASE calls' = calls /\ Wanted(r)
    <3>1. Ready(r)
      BY <2>1, <2>5 DEF Ready, Pending
    <3> QED
      BY <1>2, <2>1, <3>1
  <2>3. CASE StartGenerate \/ Launch \/ TakeNext
    <3>1. calls = << >> /\ ~running
      <4>1. CASE StartGenerate
        <5>1. next = None
          BY <4>1 DEF StartGenerate, QueueInv, DataInv
        <5>2. calls \in Seq(Asked \ {Eval(rid)}) /\ Asked \ {Eval(rid)} = {}
          BY <4>1, <5>1, Without DEF StartGenerate, QueueInv, Asked, Updating
        <5> QED
          BY <5>2, NoCalls DEF QueueInv, Runs
      <4>2. CASE Launch \/ TakeNext
        BY <4>2, NothingAsked, NothingLeft DEF Launch, TakeNext, QueueInv, Runs
      <4> QED
        BY <2>3, <4>1, <4>2
    <3>2. calls' = Append(calls, Generate(r)) \/ (calls' = calls /\ Wanted(r))
      <4>1. Launch => next = None
        BY DEF Launch, QueueInv
      <4>2. StartGenerate => next = None
        BY DEF StartGenerate, QueueInv, DataInv
      <4> QED
        BY <1>1, <2>2, <2>3, <4>1, <4>2 DEF StartGenerate, Launch, TakeNext, Send, Wanted
    <3>3. calls' # Append(calls, Generate(r))
      <4>1. SUFFICES ASSUME calls' = << Generate(r) >> PROVE FALSE
        BY <3>1
      <4>2. 1 \in DOMAIN calls' /\ calls'[1] = Generate(r)
        BY <4>1
      <4>3. Pending(Generate(r))'
        BY <4>2 DEF Pending
      <4> QED
        BY <2>1, <3>1, <4>3 DEF Ready
    <3> QED
      BY <2>5, <3>2, <3>3
  <2>4. CASE AskUpdate \/ EvalFirst \/ SaveAll \/ StartEval
    <3>1. CASE AskUpdate
      BY <1>1, <2>2, <3>1 DEF AskUpdate, QueueInv, Wanted
    <3>2. CASE EvalFirst \/ SaveAll \/ StartEval
      <4>1. Wanted(r)
        BY <2>2, <3>2 DEF EvalFirst, SaveAll, StartEval, Wanted
      <4>2. calls' = calls \/ \E c : calls' = Append(calls, c)
        BY <3>2 DEF EvalFirst, SaveAll, StartEval, Send
      <4>3. Pending(Generate(r)) => calls # << >> /\ Pending(Generate(r))'
        <5>1. Pending(Generate(r)) => Pending(Generate(r))'
          BY <4>2, StillPending
        <5>2. Pending(Generate(r)) => calls # << >>
          BY DEF Pending
        <5> QED
          BY <5>1, <5>2
      <4>4. Pending(Generate(r)) => Head(calls') = Head(calls)
        BY <4>2, <4>3, KeepsHead DEF TypeOK
      <4>5. Ready(r)
        BY <2>1, <4>1, <4>3, <4>4 DEF Ready
      <4> QED
        BY <1>2, <2>1, <4>5
    <3> QED
      BY <2>4, <3>1, <3>2
  <2>6. CASE EndUpdate \/ Finish \/ TakeData \/ StartTraining \/ EndTraining \/ EndSave
             \/ SyncGenerate \/ NextRollout
    <3>1. calls' = calls /\ Wanted(r)
      BY <1>1, <2>2, <2>6 DEF EndUpdate, Finish, TakeData, StartTraining, EndTraining, EndSave,
         AfterSave, SyncGenerate, NextRollout, managerVars, Wanted
    <3> QED
      BY <2>5, <3>1
  <2> QED
    BY <1>3, <2>3, <2>4, <2>6 DEF DriverStep
<1>4. CASE ManagerStep
  <2>1. UNCHANGED <<driver, rid, next, weights>>
    BY <1>4 DEF ManagerStep, BeginCall, GetSamples, EndCall, SavePosition, GiveEngines,
       driverVars, trainerVars
  <2>2. Wanted(r) /\ (Pending(Generate(r))' => running' /\ Head(calls') = Generate(r))
    BY <2>1 DEF Ready, Wanted
  <2>3. CASE BeginCall
    <3>1. calls' = calls /\ calls # << >>
      BY <2>3 DEF BeginCall, Runs
    <3>2. Head(calls) \in Call
      BY <3>1, Answered DEF TypeOK
    <3>3. CASE Runs("generate") /\ Head(calls).rollout = r
      BY <2>1, <2>3, <3>3 DEF BeginCall, TypeOK
    <3>4. CASE ~(Runs("generate") /\ Head(calls).rollout = r)
      <4>1. Head(calls) # Generate(r)
        BY <3>1, <3>4 DEF Runs, Generate
      <4>2. ~Pending(Generate(r))
        BY <2>2, <3>1, <4>1 DEF Pending
      <4>3. made'[r] = made[r]
        BY <2>3, <3>4 DEF BeginCall, TypeOK
      <4> QED
        BY <1>1, <2>1, <2>2, <4>2, <4>3 DEF Ready
    <3> QED
      BY <3>3, <3>4
  <2>4. CASE GetSamples
    <3>1. UNCHANGED <<calls, running, made>>
      BY <2>4 DEF GetSamples
    <3> QED
      BY <1>1, <2>1, <2>2, <3>1 DEF Ready, Pending
  <2>5. CASE EndCall \/ SavePosition \/ GiveEngines
    <3>1. calls # << >> /\ calls' = Tail(calls) /\ made' = made
      BY <2>5 DEF EndCall, SavePosition, GiveEngines, QueueInv, Runs
    <3>2. (Head(calls).op = "generate" => running) /\ running' = FALSE
      <4>1. CASE EndCall
        BY <4>1 DEF EndCall
      <4>2. CASE SavePosition \/ GiveEngines
        BY <4>2 DEF SavePosition, GiveEngines, QueueInv, Runs, TypeOK
      <4> QED
        BY <2>5, <4>1, <4>2
    <3>3. Ready(r)
      BY <2>1, <3>1, <3>2, ReadyBefore
    <3> QED
      BY <1>1, <2>1, <3>1, <3>3
  <2> QED
    BY <1>4, <2>3, <2>4, <2>5 DEF ManagerStep
<1>5. CASE Push
  <2>1. driver \in Updating /\ next = None /\ UNCHANGED <<driver, next>>
    BY <1>5 DEF Push, QueueInv, driverVars
  <2> QED
    BY <1>1, <2>1 DEF Ready, Wanted, Updating
<1>6. CASE CriticForward \/ ActorForward \/ SyncActorCritic \/ CriticTrain \/ ActorTrain
  <2>1. UNCHANGED <<driver, rid, next, calls, running, made>>
    BY <1>6 DEF CriticForward, ActorForward, SyncActorCritic, CriticTrain, ActorTrain,
       driverVars, managerVars
  <2>2. Ready(r)
    BY <2>1 DEF Ready, Wanted, Pending
  <2> QED
    BY <1>2, <1>6, <2>1, <2>2, SameEngines
<1>7. CASE UNCHANGED vars
  <2>1. UNCHANGED <<driver, rid, next, calls, running, made, weights>>
    BY <1>7 DEF vars, driverVars, managerVars, trainerVars
  <2>2. Ready(r)
    BY <2>1 DEF Ready, Wanted, Pending
  <2> QED
    BY <1>2, <2>1, <2>2
<1>8. CASE Start
  <2>1. UNCHANGED <<rid, next, calls, running, made, weights>> /\ driver' # "generating"
    BY <1>8 DEF Start, trainerVars
  <2>2. Ready(r)
    BY <2>1 DEF Ready, Wanted, Pending
  <2> QED
    BY <1>2, <2>1, <2>2
<1>9. CASE Crash
  BY <1>1, <1>9 DEF Crash, Ready, Wanted
<1> QED
  BY <1>3, <1>4, <1>5, <1>6, <1>7, <1>8, <1>9 DEF Next, TrainerStep

-----------------------------------------------------------------------------
\* The age of the data.

LEMMA Intervals ==
    ASSUME args \in Jobs, NEW r \in Nat
    PROVE  /\ UpdateInterval \in Nat \ {0} /\ Allowed(r) \in Nat
           /\ Async => Allowed(r) + 1 <= UpdateInterval
           /\ ~Async => Allowed(r) = 0
           /\ Async /\ (r + 1) % UpdateInterval # 0 => Allowed(r + 1) = Allowed(r) + 1
<1>1. UpdateInterval \in Nat \ {0}
  BY DriverAssumption DEF JobOK, UpdateInterval
<1> DEFINE U == UpdateInterval
           q == r \div U
           m == r % U
           k == (r + 1) \div U
           n == (r + 1) % U
<1> HIDE DEF U
<1>2. U \in Nat \ {0}
  BY <1>1 DEF U
<1>3. q \in Nat /\ m \in 0..(U - 1) /\ r = q * U + m
  BY <1>2
<1>4. k \in Nat /\ n \in 0..(U - 1) /\ r + 1 = k * U + n
  BY <1>2
<1> HIDE DEF q, m, k, n
<1>5. n # 0 => n = m + 1
  <2>1. CASE k = q
    BY <1>2, <1>3, <1>4, <2>1
  <2>2. CASE k >= q + 1
    <3>1. k * U >= (q + 1) * U /\ (q + 1) * U = q * U + U
      BY <1>2, <1>3, <1>4, <2>2
    <3> QED
      BY <1>2, <1>3, <1>4, <3>1
  <2>3. CASE k + 1 <= q
    <3>1. (k + 1) * U <= q * U /\ (k + 1) * U = k * U + U
      BY <1>2, <1>3, <1>4, <2>3
    <3> QED
      BY <1>2, <1>3, <1>4, <3>1
  <2> QED
    BY <1>3, <1>4, <2>1, <2>2, <2>3
<1>6. Async => Allowed(r) = m /\ Allowed(r + 1) = n
  BY DEF Allowed, m, n, U
<1>7. ~Async => Allowed(r) = 0
  BY DEF Allowed
<1> QED
  BY <1>1, <1>3, <1>4, <1>5, <1>6, <1>7 DEF n, U

\* A rollout whose data can be taken is as recent as the engines.
LEMMA ReadyRecent ==
    ASSUME TypeOK, MadeInv, ~CriticTrainOnly, NEW r \in Rollout, Wanted(r), ~Pending(Generate(r)),
           NEW n \in Int, Behind(n), n <= (IF Async THEN UpdateInterval ELSE 0)
    PROVE  Recent(r)
<1>1. made[r] = weights.engines
  BY DEF MadeInv, Ready
<1>2. UpdateInterval \in Nat /\ weights.actor \in Nat /\ weights.engines \in Int
  BY Intervals DEF TypeOK, None
<1> QED
  BY <1>1, <1>2 DEF Recent, Behind

\* Nothing that the bound is about changes.
LEMMA AgeFrame ==
    ASSUME [Next]_vars, weights'.actor = weights.actor, weights'.engines = weights.engines
    PROVE  /\ \A n : Behind(n)' <=> Behind(n)
           /\ rid' = rid => Allowed(rid)' = Allowed(rid) /\ Allowed(rid + 1)' = Allowed(rid + 1)
           /\ rid' = rid + 1 => Allowed(rid)' = Allowed(rid + 1)
           /\ made' = made /\ rid' = rid =>
                 (Recent(rid)' <=> Recent(rid)) /\ (Recent(rid + 1)' <=> Recent(rid + 1))
           /\ made' = made /\ rid' = rid + 1 => (Recent(rid)' <=> Recent(rid + 1))
<1>1. args' = args /\ Rollout' = Rollout
  BY SameArgs
<1> QED
  BY <1>1 DEF Behind, Allowed, Recent, Async, UpdateInterval

LEMMA AgeDriver ==
    ASSUME TypeOK, QueueInv, DataInv, TrainInv, MadeInv, AgeInv, [Next]_vars, DriverStep,
           ~CriticTrainOnly
    PROVE  AgeInv'
<1>0. /\ args' = args /\ (CriticTrainOnly' <=> CriticTrainOnly) /\ (Async' <=> Async)
      /\ Async \in BOOLEAN /\ NumRollout' = NumRollout
      /\ Rollout = 0..(NumRollout - 1) /\ None \notin Rollout /\ NumRollout \in Nat
      /\ rid \in Nat /\ StartId \in Nat
  BY SameArgs, JobTypes DEF TypeOK, CriticTrainOnly, Rollout, None
<1>1. made' = made /\ weights' = weights
  BY DEF DriverStep, AskUpdate, EndUpdate, Launch, Finish, EvalFirst, StartGenerate,
     TakeData, TakeNext, StartTraining, EndTraining, SaveAll, EndSave, SyncGenerate, StartEval,
     NextRollout, StayManager, managerVars, trainerVars
<1>2. /\ \A n : Behind(n)' <=> Behind(n)
      /\ rid' = rid => Allowed(rid)' = Allowed(rid) /\ Allowed(rid + 1)' = Allowed(rid + 1)
      /\ rid' = rid + 1 => Allowed(rid)' = Allowed(rid + 1)
      /\ rid' = rid => (Recent(rid)' <=> Recent(rid)) /\ (Recent(rid + 1)' <=> Recent(rid + 1))
      /\ rid' = rid + 1 => (Recent(rid)' <=> Recent(rid + 1))
  BY <1>1, AgeFrame
<1>3. /\ \A r \in Nat : UpdateInterval \in Nat \ {0} /\ Allowed(r) \in Nat
      /\ Async => Allowed(rid) + 1 <= UpdateInterval
      /\ ~Async => Allowed(rid) = 0
      /\ Async /\ (rid + 1) % UpdateInterval # 0 => Allowed(rid + 1) = Allowed(rid) + 1
  BY <1>0, Intervals DEF TypeOK
<1>4. \A n, k \in Int : n <= k /\ Behind(n) => Behind(k)
  BY <1>0 DEF Behind, TypeOK, None
<1>5. driver # "training" => job["actor"] = "idle"
  BY DEF TrainInv, RoleInv, Role
<1> USE <1>0, <1>1, <1>2, <1>5 DEF AgeInv
<1>6. CASE AskUpdate \/ Finish \/ EvalFirst \/ StartGenerate \/ SaveAll \/ StartEval
  BY <1>6 DEF AskUpdate, Finish, EvalFirst, StartGenerate, SaveAll, StartEval, Done, Undone,
     Updating, trainerVars
<1>7. CASE EndUpdate
  <2>0. Behind(0)
    BY <1>7 DEF EndUpdate, Updated, Updating
  <2>1. Behind(Allowed(rid + 1))
    <3>1. Allowed(rid + 1) \in Nat
      BY <1>3
    <3> QED
      BY <1>4, <2>0, <3>1
  <2> QED
    BY <1>7, <2>0, <2>1 DEF EndUpdate, Done, Undone, Updating, trainerVars
<1>8. CASE Launch
  <2>1. Behind(Allowed(rid))
    BY <1>3, <1>4, <1>8 DEF Launch
  <2>2. Async => next' # None
    BY <1>8 DEF Launch, None
  <2> QED
    BY <1>8, <2>1, <2>2 DEF Launch, Done, Undone, Updating, trainerVars
<1>9. CASE TakeData
  <2>1. /\ rid \in Rollout /\ Wanted(rid) /\ ~Pending(Generate(rid)) /\ ~Async
        /\ Allowed(rid) = 0 /\ Behind(Allowed(rid))
    BY <1>3, <1>9 DEF TakeData, QueueInv, DataInv, Loop, Wanted
  <2>2. Recent(rid)
    BY <2>1, ReadyRecent
  <2> QED
    BY <1>9, <2>2 DEF TakeData, Done, Undone, Updating, trainerVars
<1>10. CASE TakeNext
  <2>1. /\ rid \in Rollout /\ Behind(Allowed(rid)) /\ Async /\ Early(rid)
        /\ Allowed(rid) \in Nat /\ Allowed(rid) <= UpdateInterval
    BY <1>3, <1>10 DEF TakeNext, DataInv, Over
  <2>2. Recent(rid)
    <3>1. CASE next = None
      BY <1>10, <2>1, <3>1 DEF TakeNext
    <3>2. CASE next # None
      <4>1. Wanted(rid) /\ ~Pending(Generate(rid))
        BY <1>10, <2>1, <3>2 DEF TakeNext, Early, Wanted
      <4> QED
        BY <2>1, <4>1, ReadyRecent
    <3> QED
      BY <3>1, <3>2
  <2> QED
    BY <1>10, <2>2 DEF TakeNext, Done, Undone, Updating, trainerVars
<1>11. CASE StartTraining
  <2>1. Behind(Allowed(rid) + 1)
    BY <1>3, <1>4, <1>11 DEF StartTraining
  <2> QED
    BY <1>11, <2>1 DEF StartTraining, Done, Undone, Updating
<1>12. CASE EndTraining \/ EndSave
  <2>1. /\ Behind(Allowed(rid) + 1) /\ job'["actor"] = "idle" /\ UNCHANGED <<rid, next, update>>
        /\ Async /\ rid + 1 < NumRollout => next = rid + 1
    BY <1>12 DEF EndTraining, EndSave, Trained, Role, Done, DataInv, trainerVars
  <2>2. CASE driver' \in {"save", "sync"}
    BY <2>1, <2>2 DEF Done, Undone, Updating
  <2>3. CASE driver' = "update"
    <3>1. ~Async \/ ~(rid + 1 < NumRollout)
      BY <1>12, <2>3 DEF EndTraining, EndSave, AfterSave
    <3> QED
      BY <2>1, <2>3, <3>1 DEF Done, Undone, Updating
  <2>4. CASE driver' = "eval"
    <3>1. Async /\ (rid + 1) % UpdateInterval # 0
      BY <1>12, <2>4 DEF EndTraining, EndSave, AfterSave
    <3>2. Behind(Allowed(rid + 1))
      BY <1>3, <2>1, <3>1
    <3> QED
      BY <2>1, <2>4, <3>2 DEF Done, Undone, Updating, None
  <2> QED
    BY <1>12, <2>2, <2>3, <2>4 DEF EndTraining, EndSave, AfterSave
<1>13. CASE SyncGenerate
  <2>1. ASSUME rid + 1 < NumRollout, Async
        PROVE  Recent(rid + 1)
    <3>1. /\ next = rid + 1 /\ rid + 1 \in Rollout /\ Behind(Allowed(rid) + 1)
          /\ Allowed(rid) + 1 \in Int /\ Allowed(rid) + 1 <= UpdateInterval
      BY <1>3, <1>13, <2>1 DEF SyncGenerate, DataInv
    <3>2. Wanted(rid + 1) /\ ~Pending(Generate(rid + 1))
      BY <1>13, <3>1 DEF SyncGenerate, Wanted, None
    <3> QED
      BY <2>1, <3>1, <3>2, ReadyRecent
  <2> QED
    BY <1>13, <2>1 DEF SyncGenerate, Done, Undone, Updating, trainerVars
<1>14. CASE NextRollout
  <2>1. rid' = rid + 1
    BY <1>14 DEF NextRollout
  <2> QED
    BY <1>14, <2>1 DEF NextRollout, Done, Undone, Updating, trainerVars
<1> QED
  BY <1>6, <1>7, <1>8, <1>9, <1>10, <1>11, <1>12, <1>13, <1>14 DEF DriverStep

\* A rollout that is begun is not one whose data was taken.
LEMMA AgeManager ==
    ASSUME TypeOK, QueueInv, DataInv, TrainInv, AgeInv, [Next]_vars, ManagerStep, ~CriticTrainOnly
    PROVE  AgeInv'
<1>0. /\ args' = args /\ (CriticTrainOnly' <=> CriticTrainOnly) /\ (Async' <=> Async)
      /\ Rollout' = Rollout /\ NumRollout' = NumRollout
  BY SameArgs DEF CriticTrainOnly
<1>1. UNCHANGED <<driver, rid, next, weights, job>>
  BY DEF ManagerStep, BeginCall, GetSamples, EndCall, SavePosition, GiveEngines, driverVars,
     trainerVars
<1>2. /\ \A n : Behind(n)' <=> Behind(n)
      /\ Allowed(rid)' = Allowed(rid) /\ Allowed(rid + 1)' = Allowed(rid + 1)
  BY <1>1, AgeFrame
<1>3. update' = "idle" => update = "idle"
  BY DEF ManagerStep, BeginCall, GetSamples, EndCall, SavePosition, GiveEngines, trainerVars
<1>4. driver # "training" => job["actor"] = "idle"
  BY DEF TrainInv, RoleInv, Role
<1>5. ASSUME NEW r \in Rollout, Generate(r) # Head(calls) \/ calls = << >>
      PROVE  Recent(r)' <=> Recent(r)
  <2>1. made'[r] = made[r]
    <3>1. CASE BeginCall
      <4>1. Head(calls) \in Call
        BY <3>1, Answered DEF BeginCall, Runs, TypeOK
      <4>2. Runs("generate") => Head(calls).rollout # r
        BY <1>5, <4>1 DEF Runs, Generate, Call
      <4> QED
        BY <3>1, <4>2 DEF BeginCall, TypeOK
    <3> QED
      BY <3>1 DEF ManagerStep, GetSamples, EndCall, SavePosition, GiveEngines
  <2> QED
    BY <1>0, <1>1, <2>1 DEF Recent, UpdateInterval
<1>6. driver \in {"train", "training"} /\ Recent(rid) => Recent(rid)'
  <2>1. SUFFICES ASSUME driver \in {"train", "training"}, rid \in Rollout
                 PROVE  Generate(rid) # Head(calls) \/ calls = << >>
    BY <1>1, <1>5 DEF Recent
  <2> QED
    BY <2>1, Answered DEF DataInv
<1>7. ASSUME Async, next = None
      PROVE  /\ Recent(rid) => Recent(rid)'
             /\ Recent(rid + 1) => Recent(rid + 1)'
  <2>1. \A r \in Rollout : calls # << >> => Head(calls) # Generate(r)
    <3>1. calls # << >> => Head(calls) \in Asked
      BY Answered DEF QueueInv
    <3>2. \A r \in Rollout : Generate(r) \notin Asked
      BY <1>7 DEF Asked, DataInv, Generate, Eval, Save, Engines
    <3> QED
      BY <3>1, <3>2
  <2>2. \A r \in Rollout : Recent(r)' <=> Recent(r)
    BY <1>5, <2>1
  <2> QED
    BY <1>0, <1>1, <2>2 DEF Recent
<1> QED
  BY <1>0, <1>1, <1>2, <1>3, <1>4, <1>6, <1>7 DEF AgeInv, Done, Undone, Updating

LEMMA AgeTrainer ==
    ASSUME TypeOK, QueueInv, DataInv, TrainInv, AgeInv, [Next]_vars, TrainerStep, ~CriticTrainOnly
    PROVE  AgeInv'
<1>0. /\ args' = args /\ (CriticTrainOnly' <=> CriticTrainOnly) /\ (Async' <=> Async)
      /\ Rollout' = Rollout /\ NumRollout' = NumRollout
  BY SameArgs DEF CriticTrainOnly
<1>1. UNCHANGED <<driver, rid, next, made>>
  BY DEF TrainerStep, Push, CriticForward, ActorForward, SyncActorCritic, CriticTrain, ActorTrain,
     driverVars, managerVars
<1>2. job["actor"] # "idle" => driver = "training"
  BY DEF TrainInv, RoleInv, Role
<1>3. CASE Push
  <2>1. driver \in Updating /\ update' = "idle" /\ job' = job
    BY <1>3 DEF Push, QueueInv
  <2>2. weights'.actor = weights.actor /\ weights'.engines = weights.actor
    BY <1>3, Pushed
  <2>3. Behind(0)'
    BY <2>2 DEF Behind, TypeOK, None
  <2>4. Recent(rid + 1) => Recent(rid + 1)'
    BY <1>0, <1>1, <2>2 DEF Recent, UpdateInterval
  <2> QED
    BY <1>0, <1>1, <1>2, <2>1, <2>3, <2>4 DEF AgeInv, Done, Undone, Updating
<1>4. CASE CriticForward \/ ActorForward \/ SyncActorCritic \/ CriticTrain
  <2>1. weights'.actor = weights.actor /\ weights'.engines = weights.engines /\ update' = update
    BY <1>4, SameEngines, SameWeights
    DEF CriticForward, ActorForward, SyncActorCritic, CriticTrain, TypeOK
  <2>2. job'["actor"] = "idle" <=> job["actor"] = "idle"
    BY <1>4 DEF CriticForward, ActorForward, SyncActorCritic, CriticTrain, TypeOK, Role
  <2>3. /\ \A n : Behind(n)' <=> Behind(n)
        /\ Allowed(rid)' = Allowed(rid) /\ Allowed(rid + 1)' = Allowed(rid + 1)
        /\ (Recent(rid)' <=> Recent(rid)) /\ (Recent(rid + 1)' <=> Recent(rid + 1))
    BY <1>1, <2>1, AgeFrame
  <2> QED
    BY <1>0, <1>1, <2>1, <2>2, <2>3 DEF AgeInv, Done, Undone, Updating
<1>5. CASE ActorTrain
  <2>1. /\ job["actor"] = "train" /\ job'["actor"] = "idle"
        /\ weights'.actor = weights.actor + 1 /\ weights'.engines = weights.engines
    <3>1. weights'.actor = TrainedFrom(weights) + 1
      BY <1>5 DEF ActorTrain, TypeOK
    <3> QED
      BY <1>5, <3>1, SameEngines DEF ActorTrain, TrainedFrom, TypeOK, Role
  <2>2. driver = "training" /\ Behind(Allowed(rid))
    BY <1>2, <2>1 DEF AgeInv, Undone
  <2>3. Allowed(rid) \in Nat /\ Allowed(rid)' = Allowed(rid)
    <3>1. rid \in Nat
      BY JobTypes DEF TypeOK
    <3> QED
      BY <1>0, <1>1, <3>1, Intervals DEF Allowed, UpdateInterval, TypeOK
  <2>4. Behind(Allowed(rid) + 1)'
    BY <1>0, <1>1, <2>1, <2>2, <2>3 DEF Behind, TypeOK, None
  <2> QED
    BY <1>0, <1>1, <2>1, <2>2, <2>4 DEF AgeInv, Done, Undone, Updating
<1> QED
  BY <1>3, <1>4, <1>5 DEF TrainerStep

LEMMA AgeStep ==
    ASSUME TypeOK, QueueInv, DataInv, TrainInv, MadeInv, AgeInv, [Next]_vars
    PROVE  AgeInv'
<1>0. /\ args' = args /\ (CriticTrainOnly' <=> CriticTrainOnly) /\ (Async' <=> Async)
      /\ Rollout' = Rollout /\ NumRollout' = NumRollout
  BY SameArgs DEF CriticTrainOnly
<1>1. SUFFICES ASSUME ~CriticTrainOnly PROVE AgeInv'
  BY <1>0 DEF AgeInv
<1>2. driver # "training" => job["actor"] = "idle"
  BY DEF TrainInv, RoleInv, Role
<1>3. CASE Start
  BY <1>1, <1>2, <1>3 DEF Start, AgeInv, Done, Undone, Updating, trainerVars
<1>4. CASE Crash
  BY <1>4 DEF Crash, AgeInv, Done, Undone, Updating
<1>5. CASE UNCHANGED vars
  <2>1. UNCHANGED <<driver, rid, next, job, update, made, weights>>
    BY <1>5 DEF vars, driverVars, managerVars, trainerVars
  <2>2. /\ \A n : Behind(n)' <=> Behind(n)
        /\ Allowed(rid)' = Allowed(rid) /\ Allowed(rid + 1)' = Allowed(rid + 1)
        /\ (Recent(rid)' <=> Recent(rid)) /\ (Recent(rid + 1)' <=> Recent(rid + 1))
    BY <2>1, AgeFrame
  <2> QED
    BY <1>0, <2>1, <2>2 DEF AgeInv, Done, Undone, Updating
<1> QED
  BY <1>1, <1>3, <1>4, <1>5, AgeDriver, AgeManager, AgeTrainer DEF Next

-----------------------------------------------------------------------------
\* Where a job begins.

LEMMA FileStep ==
    ASSUME TypeOK, QueueInv, BeginInv, [Next]_vars
    PROVE  BeginInv'
<1>0. /\ args' = args /\ Loaded' = Loaded /\ OldPosition' = OldPosition
      /\ Loaded \in Int /\ StartId = Loaded + 1 /\ rid >= StartId /\ rid \in Int
  <2>1. args' = args
    BY SameArgs
  <2> QED
    BY <2>1, JobTypes DEF TypeOK, Loaded, OldPosition, OverSampling, DatasetLen
<1>1. CASE SavePosition
  <2>1. calls # << >> /\ Head(calls).op = "save" /\ driver' = driver /\ pos' = pos
    BY <1>1 DEF SavePosition, Runs, driverVars
  <2>2. Head(calls) \in Asked
    BY <2>1, Answered DEF QueueInv
  <2>3. driver = "saving" /\ Head(calls) = Save(rid)
    BY <2>1, <2>2 DEF Asked, Save, Generate, Eval, Engines
  <2>4. Head(calls).rollout # Loaded
    BY <1>0, <2>3 DEF Save
  <2>5. FileInv'
    BY <1>0, <1>1, <2>4 DEF SavePosition, BeginInv, FileInv
  <2> QED
    BY <2>1, <2>3, <2>5 DEF BeginInv, BeginsAtCheckpoint
<1>2. CASE Start
  <2>1. FileInv' /\ pos' = Load(Loaded) /\ saved' = saved
    BY <1>0, <1>2 DEF Start, BeginInv, FileInv, LoadedPosition
  <2>2. CASE Loaded = -1
    <3>1. Load(Loaded) = Beginning
      BY <2>2, JobTypes DEF Load, TypeOK, Rollout
    <3> QED
      BY <1>0, <2>1, <2>2, <3>1 DEF BeginInv, BeginsAtCheckpoint, Beginning
  <2>3. CASE Loaded # -1
    <3>1. Load(Loaded) = Restored(OldPosition)
      BY <2>3 DEF BeginInv, FileInv, Load
    <3> QED
      BY <1>0, <2>1, <2>3, <3>1 DEF BeginInv, BeginsAtCheckpoint, Restored
  <2> QED
    BY <2>2, <2>3
<1>3. CASE ~SavePosition /\ ~Start
  <2>1. saved' = saved
    BY <1>3 DEF Next, DriverStep, ManagerStep, TrainerStep, Crash, AskUpdate, EndUpdate, Launch,
       Finish, EvalFirst, StartGenerate, TakeData, TakeNext, StartTraining, EndTraining, SaveAll,
       EndSave, SyncGenerate, StartEval, NextRollout, BeginCall, GetSamples, EndCall,
       GiveEngines, Push, CriticForward, ActorForward, SyncActorCritic, CriticTrain, ActorTrain,
       StayManager, managerVars, vars
  <2>2. driver' = "first_update" => driver = "first_update" /\ pos' = pos
    <3>1. driver = "first_update" => ~Runs("generate")
      BY NothingAsked DEF QueueInv, Runs
    <3>2. CASE Crash \/ DriverStep
      BY <3>2 DEF DriverStep, Crash, AskUpdate, EndUpdate, Launch, Finish, EvalFirst,
         StartGenerate, TakeData, TakeNext, StartTraining, EndTraining, SaveAll, EndSave,
         SyncGenerate, StartEval, NextRollout, AfterSave
    <3>3. CASE ManagerStep
      BY <1>3, <3>1, <3>3 DEF ManagerStep, BeginCall, GetSamples, EndCall, GiveEngines, driverVars
    <3>4. CASE TrainerStep \/ UNCHANGED vars
      BY <3>4 DEF TrainerStep, Push, CriticForward, ActorForward, SyncActorCritic, CriticTrain,
         ActorTrain, managerVars, driverVars, vars
    <3> QED
      BY <1>3, <3>2, <3>3, <3>4 DEF Next
  <2> QED
    BY <1>0, <2>1, <2>2 DEF BeginInv, FileInv, BeginsAtCheckpoint
<1> QED
  BY <1>1, <1>2, <1>3

-----------------------------------------------------------------------------
\* The rollout model of --keep-old-actor. With an update after every rollout the copies are
\* rotated: rollout_actor has the engines' weights, old_actor those of the update before, which
\* are the weights the rollout to be trained on next was begun with.
Rotating == KeepOldActor /\ Async /\ UpdateInterval = 1 /\ ~CriticTrainOnly

HasPushed(s)   == driver = s /\ update = "idle"
Pushing(s)  == driver = s /\ update # "idle"
HasOld(r)   == weights.old_actor = made[r]
AfterThis   == rid + 1 < NumRollout

CopiesInv ==
    /\ weights.engines # None => weights.rollout_actor = weights.engines
    /\ job["actor"] \in {"idle", "forward"} => weights.live = weights.actor

FirstPushInv ==
    /\ driver \in {"start", "first_update"} \/ Pushing("first_updating") =>
          weights.rollout_actor = weights.actor
    /\ HasPushed("first_updating") \/ driver = "launch" \/ (driver = "top" /\ next # None) =>
          weights.old_actor = weights.engines

OldInv ==
    /\ driver \in {"eval", "evaluating"} => next = None
    /\ (driver = "update" \/ Pushing("updating")) /\ AfterThis => made[rid + 1] = weights.engines
    /\ (HasPushed("updating") \/ driver \in {"eval", "evaluating"}) /\ AfterThis => HasOld(rid + 1)
    /\ driver = "top" /\ next = None /\ rid < NumRollout => HasOld(rid)
    /\ driver = "train" \/ (driver = "training" /\ job["actor"] = "forward") => HasOld(rid)

RotateInv == Rotating => CopiesInv /\ FirstPushInv /\ OldInv

\* What a step leaves of the conditions, when it does not touch what they are about.
LEMMA SameRotating ==
    ASSUME [Next]_vars
    PROVE  /\ Rotating' <=> Rotating
           /\ rid' = rid => (AfterThis' <=> AfterThis)
<1>1. args' = args /\ NumRollout' = NumRollout
  BY SameArgs
<1> QED
  BY <1>1 DEF Rotating, KeepOldActor, Async, UpdateInterval, CriticTrainOnly, AfterThis

\* A rollout whose data can be taken was begun with the engines' weights.
LEMMA ReadyMade ==
    ASSUME MadeInv, Rotating, NEW r \in Rollout, next = r, ~Pending(Generate(r))
    PROVE  made[r] = weights.engines
BY DEF MadeInv, Rotating, Ready, Wanted

LEMMA RotateDriver ==
    ASSUME TypeOK, QueueInv, DataInv, TrainInv, MadeInv, AgeInv, RotateInv, Rotating,
           [Next]_vars, DriverStep
    PROVE  RotateInv'
<1>0. /\ rid' = rid => (AfterThis' <=> AfterThis)
      /\ NumRollout' = NumRollout /\ NumRollout \in Nat /\ rid \in Nat /\ StartId \in Nat
      /\ Rollout = 0..(NumRollout - 1) /\ Async /\ ~CriticTrainOnly /\ UpdateInterval = 1
  <2>1. /\ NumRollout' = NumRollout /\ NumRollout \in Nat /\ rid \in Nat /\ StartId \in Nat
        /\ Rollout = 0..(NumRollout - 1)
    BY SameArgs, JobTypes DEF TypeOK, Rollout
  <2>2. Async /\ ~CriticTrainOnly /\ UpdateInterval = 1
    BY DEF Rotating
  <2> QED
    BY <2>1, <2>2, SameRotating
<1>1. UNCHANGED <<made, weights>>
  BY DEF DriverStep, AskUpdate, EndUpdate, Launch, Finish, EvalFirst, StartGenerate,
     TakeData, TakeNext, StartTraining, EndTraining, SaveAll, EndSave, SyncGenerate, StartEval,
     NextRollout, StayManager, managerVars, trainerVars
<1>2. CopiesInv /\ FirstPushInv /\ OldInv
  BY DEF RotateInv
<1>3. /\ driver # "training" => job["actor"] = "idle"
      /\ driver \notin Updating => update = "idle"
  BY DEF TrainInv, RoleInv, Role, QueueInv
<1>4. CopiesInv'
  <2>1. weights.live = weights.actor \/ job' = job
    BY <1>2, <1>3 DEF CopiesInv, DriverStep, AskUpdate, EndUpdate, Launch, Finish, EvalFirst,
       StartGenerate, TakeData, TakeNext, StartTraining, EndTraining, SaveAll, EndSave,
       SyncGenerate, StartEval, NextRollout, trainerVars
  <2> QED
    BY <1>1, <1>2, <2>1 DEF CopiesInv
<1>5. CASE AskUpdate \/ Finish \/ SaveAll \/ StartEval
  BY <1>0, <1>1, <1>2, <1>4, <1>5
  DEF AskUpdate, Finish, SaveAll, StartEval, RotateInv, FirstPushInv, OldInv, HasPushed, Pushing,
      HasOld, trainerVars
<1>6. CASE EndUpdate
  <2>1. update = "idle" /\ next = None /\ UNCHANGED <<rid, next, job, update>>
    BY <1>6 DEF EndUpdate, Updated, QueueInv, Updating, trainerVars
  <2> QED
    BY <1>0, <1>1, <1>2, <1>4, <1>6, <2>1
    DEF EndUpdate, RotateInv, FirstPushInv, OldInv, HasPushed, Pushing, HasOld
<1>7. CASE Launch
  <2>1. next' # None
    BY <1>0, <1>7 DEF Launch, None
  <2> QED
    BY <1>0, <1>1, <1>2, <1>4, <1>7, <2>1
    DEF Launch, RotateInv, FirstPushInv, OldInv, HasPushed, Pushing, HasOld, trainerVars
<1>8. CASE EvalFirst \/ StartGenerate \/ TakeData
  BY <1>0, <1>8 DEF EvalFirst, StartGenerate, TakeData, DataInv
<1>9. CASE TakeNext
  <2>1. rid \in Rollout /\ Early(rid)
    BY <1>0, <1>9 DEF TakeNext, DataInv, Over
  <2>2. HasOld(rid)
    <3>1. CASE next = None
      BY <1>0, <1>2, <1>9, <2>1, <3>1 DEF TakeNext, OldInv, Over
    <3>2. CASE next # None
      <4>1. next = rid /\ ~Pending(Generate(rid))
        BY <1>9, <2>1, <3>2 DEF TakeNext, Early
      <4>2. made[rid] = weights.engines
        BY <2>1, <4>1, ReadyMade
      <4> QED
        BY <1>2, <1>9, <3>2, <4>2 DEF TakeNext, FirstPushInv, HasOld
    <3> QED
      BY <3>1, <3>2
  <2> QED
    BY <1>1, <1>4, <1>9, <2>2
    DEF TakeNext, RotateInv, FirstPushInv, OldInv, HasPushed, Pushing, HasOld, trainerVars
<1>10. CASE StartTraining
  <2>1. HasOld(rid)
    BY <1>2, <1>10 DEF StartTraining, OldInv
  <2> QED
    BY <1>1, <1>4, <1>10, <2>1
    DEF StartTraining, RotateInv, FirstPushInv, OldInv, HasPushed, Pushing, HasOld
<1>11. CASE EndTraining \/ EndSave
  <2>1. (rid + 1) % UpdateInterval = 0
    <3>1. \A n \in Nat : n % 1 = 0
      OBVIOUS
    <3> QED
      BY <1>0, <3>1
  <2>2. driver' \in {"save", "sync"}
    BY <1>0, <1>11, <2>1 DEF EndTraining, EndSave, AfterSave
  <2> QED
    BY <1>4, <1>11, <2>2 DEF RotateInv, FirstPushInv, OldInv, HasPushed, Pushing
<1>12. CASE SyncGenerate
  <2>1. AfterThis => made[rid + 1] = weights.engines
    <3>1. ASSUME AfterThis
          PROVE  next = rid + 1 /\ rid + 1 \in Rollout /\ ~Pending(Generate(rid + 1))
      BY <1>0, <1>12, <3>1 DEF SyncGenerate, DataInv, AfterThis, None
    <3> QED
      BY <3>1, ReadyMade
  <2>2. driver' = "update" /\ rid' = rid
    BY <1>0, <1>12 DEF SyncGenerate
  <2> QED
    BY <1>0, <1>1, <1>4, <2>1, <2>2
    DEF RotateInv, FirstPushInv, OldInv, HasPushed, Pushing
<1>13. CASE NextRollout
  <2>1. next = None /\ (AfterThis => HasOld(rid + 1))
    BY <1>2, <1>13 DEF NextRollout, OldInv
  <2>2. /\ driver' = "top" /\ rid' = rid + 1 /\ next' = next
        /\ rid' < NumRollout' => HasOld(rid)'
    BY <1>0, <1>1, <1>13, <2>1 DEF NextRollout, AfterThis, HasOld
  <2> QED
    BY <1>4, <2>1, <2>2 DEF RotateInv, FirstPushInv, OldInv, HasPushed, Pushing
<1> QED
  BY <1>5, <1>6, <1>7, <1>8, <1>9, <1>10, <1>11, <1>12, <1>13 DEF DriverStep

\* A rollout that is begun is not one whose data was taken.
LEMMA RotateManager ==
    ASSUME TypeOK, QueueInv, DataInv, TrainInv, RotateInv, Rotating, [Next]_vars, ManagerStep
    PROVE  RotateInv'
<1>0. /\ AfterThis' <=> AfterThis
      /\ NumRollout' = NumRollout /\ NumRollout \in Nat /\ rid \in Nat
      /\ Rollout = 0..(NumRollout - 1) /\ (driver \in Loop => rid < NumRollout)
  <2>1. rid' = rid
    BY DEF ManagerStep, BeginCall, GetSamples, EndCall, SavePosition, GiveEngines, driverVars
  <2> QED
    BY <2>1, SameRotating, SameArgs, JobTypes DEF TypeOK, Rollout, QueueInv
<1>1. UNCHANGED <<driver, rid, next, weights, job>> /\ (update' = update \/ GiveEngines)
  BY DEF ManagerStep, BeginCall, GetSamples, EndCall, SavePosition, GiveEngines, driverVars,
     trainerVars
<1>2. CopiesInv /\ FirstPushInv /\ OldInv
  BY DEF RotateInv
<1>3. (update' = "idle" <=> update = "idle")
  <2>1. GiveEngines => update = "asked" /\ update' = "push"
    <3>1. SUFFICES ASSUME GiveEngines PROVE update = "asked"
      BY DEF GiveEngines
    <3>2. calls # << >> /\ Head(calls).op = "engines"
      BY <3>1 DEF GiveEngines, Runs
    <3>3. Head(calls) \in Asked
      BY <3>2, Answered DEF QueueInv
    <3>4. driver \in Updating
      BY <3>2, <3>3 DEF Asked, Generate, Eval, Save
    <3> QED
      BY <3>2, <3>4 DEF QueueInv
  <2> QED
    BY <1>1, <2>1
<1>4. \A r \in Rollout : Generate(r) # Head(calls) \/ calls = << >> => made'[r] = made[r]
  <2>1. SUFFICES ASSUME NEW r \in Rollout, Generate(r) # Head(calls) \/ calls = << >>
                 PROVE  made'[r] = made[r]
    OBVIOUS
  <2>2. CASE BeginCall
    <3>1. Head(calls) \in Call
      BY <2>2, Answered DEF BeginCall, Runs, TypeOK
    <3>2. Runs("generate") => Head(calls).rollout # r
      BY <2>1, <3>1 DEF Runs, Generate, Call
    <3> QED
      BY <2>2, <3>2 DEF BeginCall, TypeOK
  <2> QED
    BY <2>2 DEF ManagerStep, GetSamples, EndCall, SavePosition, GiveEngines
<1>5. driver \in {"train", "training"} => made'[rid] = made[rid]
  <2>1. SUFFICES ASSUME driver \in {"train", "training"}
                 PROVE  Generate(rid) # Head(calls) \/ calls = << >>
    BY <1>0, <1>4 DEF Loop
  <2> QED
    BY <2>1, Answered DEF DataInv
<1>6. next = None => \A r \in Rollout : made'[r] = made[r]
  <2>1. SUFFICES ASSUME next = None, NEW r \in Rollout
                 PROVE  Generate(r) # Head(calls) \/ calls = << >>
    BY <1>4
  <2>2. calls # << >> => Head(calls) \in Asked
    BY Answered DEF QueueInv
  <2>3. Generate(r) \notin Asked
    BY <2>1 DEF Rotating, Asked, DataInv, Generate, Eval, Save, Engines
  <2> QED
    BY <2>2, <2>3
<1>7. CopiesInv' /\ FirstPushInv'
  BY <1>1, <1>2, <1>3 DEF CopiesInv, FirstPushInv, HasPushed, Pushing
<1>8. OldInv'
  <2>1. driver \in {"update", "updating", "eval", "evaluating"} => next = None
    BY <1>2 DEF QueueInv, Updating, OldInv
  <2>2. /\ next = None /\ rid < NumRollout => made'[rid] = made[rid]
        /\ next = None /\ AfterThis => made'[rid + 1] = made[rid + 1]
    BY <1>0, <1>6 DEF AfterThis
  <2> QED
    BY <1>0, <1>1, <1>2, <1>3, <1>5, <2>1, <2>2 DEF OldInv, HasPushed, Pushing, HasOld
<1> QED
  BY <1>7, <1>8 DEF RotateInv

\* A push hands the copies on: old_actor gets the weights the engines had.
LEMMA Rotated ==
    ASSUME TypeOK, Push, Rotating
    PROVE  /\ weights'.old_actor = weights.rollout_actor /\ weights'.rollout_actor = weights.live
           /\ weights'.live = weights.live
<1>1. \A w \in [live : Nat, actor : Nat, old_actor : Nat, rollout_actor : Nat,
                critic : Nat, engines : Nat \cup {None}] :
          /\ RotateCopies(w).old_actor = w.rollout_actor
          /\ RotateCopies(w).rollout_actor = w.live /\ RotateCopies(w).live = w.live
  BY DEF RotateCopies, Rotating
<1> DEFINE w == [weights EXCEPT !.engines = weights.actor]
<1>2. /\ w \in [live : Nat, actor : Nat, old_actor : Nat, rollout_actor : Nat,
                critic : Nat, engines : Nat \cup {None}]
      /\ w.rollout_actor = weights.rollout_actor /\ w.live = weights.live
  BY DEF TypeOK
<1>3. weights' = RotateCopies(w)
  BY DEF Push
<1> QED
  BY <1>1, <1>2, <1>3

LEMMA RotateTrainer ==
    ASSUME TypeOK, QueueInv, TrainInv, AgeInv, RotateInv, Rotating, [Next]_vars, TrainerStep
    PROVE  RotateInv'
<1>0. (AfterThis' <=> AfterThis) /\ UNCHANGED <<driver, rid, next, made>>
  <2>1. UNCHANGED <<driver, rid, next, made>>
    BY DEF TrainerStep, Push, CriticForward, ActorForward, SyncActorCritic, CriticTrain,
       ActorTrain, driverVars, managerVars
  <2> QED
    BY <2>1, SameRotating
<1>1. CopiesInv /\ FirstPushInv /\ OldInv
  BY DEF RotateInv
<1>2. job["actor"] # "idle" => driver = "training"
  BY DEF TrainInv, RoleInv, Role
<1>3. CASE Push
  <2>1. /\ driver \in Updating /\ update # "idle" /\ update' = "idle" /\ job' = job
        /\ weights.live = weights.actor
    BY <1>1, <1>2, <1>3 DEF Push, QueueInv, CopiesInv, Updating
  <2>2. /\ weights'.old_actor = weights.rollout_actor /\ weights'.rollout_actor = weights.actor
        /\ weights'.live = weights.actor
        /\ weights'.actor = weights.actor /\ weights'.engines = weights.actor
    BY <1>3, <2>1, Pushed, Rotated
  <2>3. CopiesInv'
    BY <2>2 DEF CopiesInv
  <2>4. CASE driver = "first_updating"
    <3>1. weights.rollout_actor = weights.actor
      BY <1>1, <2>1, <2>4 DEF FirstPushInv, Pushing
    <3> QED
      BY <1>0, <2>1, <2>2, <2>3, <2>4, <3>1
      DEF RotateInv, FirstPushInv, OldInv, HasPushed, Pushing
  <2>5. CASE driver = "updating"
    <3>1. AfterThis => weights.rollout_actor = made[rid + 1]
      <4>1. ASSUME AfterThis PROVE made[rid + 1] = weights.engines /\ made[rid + 1] # None
        <5>1. made[rid + 1] = weights.engines
          BY <1>1, <2>1, <2>5, <4>1 DEF OldInv, Pushing
        <5>2. Async /\ ~CriticTrainOnly /\ next = None
          BY <2>5 DEF Rotating, QueueInv, Updating
        <5>3. Recent(rid + 1)
          BY <2>5, <4>1, <5>2 DEF AgeInv, AfterThis
        <5> QED
          BY <5>1, <5>3 DEF Recent
      <4> QED
        BY <1>1, <4>1 DEF CopiesInv
    <3> QED
      BY <1>0, <2>1, <2>2, <2>3, <2>5, <3>1
      DEF RotateInv, FirstPushInv, OldInv, HasPushed, Pushing, HasOld
  <2> QED
    BY <2>1, <2>4, <2>5 DEF Updating
<1>4. CASE CriticForward \/ SyncActorCritic \/ CriticTrain
  <2>1. /\ update' = update /\ weights'.live = weights.live /\ weights'.actor = weights.actor
        /\ weights'.old_actor = weights.old_actor /\ weights'.engines = weights.engines
        /\ weights'.rollout_actor = weights.rollout_actor
    BY <1>4 DEF CriticForward, SyncActorCritic, CriticTrain, TypeOK
  <2>2. job'["actor"] \in {"idle", "forward"} => job'["actor"] = job["actor"]
    BY <1>4 DEF CriticForward, SyncActorCritic, CriticTrain, TypeOK, Role
  <2>3. CopiesInv' /\ FirstPushInv'
    BY <1>0, <1>1, <2>1, <2>2 DEF CopiesInv, FirstPushInv, HasPushed, Pushing
  <2>4. /\ HasPushed("updating")' <=> HasPushed("updating")
        /\ Pushing("updating")' <=> Pushing("updating")
        /\ HasOld(rid)' <=> HasOld(rid)
        /\ HasOld(rid + 1)' <=> HasOld(rid + 1)
    BY <1>0, <2>1 DEF HasPushed, Pushing, HasOld
  <2>5. NumRollout' = NumRollout
    BY SameArgs
  <2>6. OldInv'
    BY <1>0, <1>1, <2>1, <2>2, <2>4, <2>5 DEF OldInv
  <2> QED
    BY <2>3, <2>6 DEF RotateInv
<1>5. CASE ActorForward \/ ActorTrain
  <2>1. /\ update' = update /\ driver = "training" /\ job'["actor"] # "forward"
        /\ weights'.rollout_actor = weights.rollout_actor
        /\ weights'.engines = weights.engines
    BY <1>2, <1>5 DEF ActorForward, ActorTrain, TypeOK, Role
  <2>2. job'["actor"] = "idle" => weights'.live = weights'.actor
    BY <1>5 DEF ActorForward, ActorTrain, TypeOK, Role
  <2> QED
    BY <1>0, <1>1, <2>1, <2>2
    DEF RotateInv, CopiesInv, FirstPushInv, OldInv, HasPushed, Pushing
<1> QED
  BY <1>3, <1>4, <1>5 DEF TrainerStep

LEMMA RotateFresh ==
    ASSUME weights = FreshWeights, driver = "start", job = [m \in Role |-> "idle"]
    PROVE  RotateInv
BY DEF RotateInv, CopiesInv, FirstPushInv, OldInv, HasPushed, Pushing, FreshWeights, Role

LEMMA RotateStep ==
    ASSUME TypeOK, QueueInv, DataInv, TrainInv, MadeInv, AgeInv, RotateInv, [Next]_vars
    PROVE  RotateInv'
<1>0. SUFFICES ASSUME Rotating PROVE RotateInv'
  BY SameRotating DEF RotateInv
<1>1. CopiesInv /\ FirstPushInv /\ OldInv
  BY <1>0 DEF RotateInv
<1>2. CASE Start
  BY <1>0, <1>1, <1>2
  DEF Start, RotateInv, CopiesInv, FirstPushInv, OldInv, HasPushed, Pushing, Rotating,
      trainerVars
<1>3. CASE Crash
  <2>1. FreshWeights' = FreshWeights
    BY SameArgs DEF FreshWeights
  <2>2. weights' = FreshWeights /\ driver' = "start" /\ job' = [m \in Role |-> "idle"]
    BY <1>3 DEF Crash
  <2> QED
    BY <2>2
    DEF RotateInv, CopiesInv, FirstPushInv, OldInv, HasPushed, Pushing, FreshWeights, Role
<1>4. CASE UNCHANGED vars
  <2>1. UNCHANGED <<driver, rid, next, job, update, made, weights>>
    BY <1>4 DEF vars, driverVars, managerVars, trainerVars
  <2>2. (AfterThis' <=> AfterThis) /\ NumRollout' = NumRollout
    BY <2>1, SameRotating, SameArgs
  <2> QED
    BY <1>1, <2>1, <2>2
    DEF RotateInv, CopiesInv, FirstPushInv, OldInv, HasPushed, Pushing, HasOld
<1> QED
  BY <1>0, <1>2, <1>3, <1>4, RotateDriver, RotateManager, RotateTrainer DEF Next

-----------------------------------------------------------------------------
\* The rollout model of --keep-old-actor in every job: it is at most one push behind the engines,
\* and no copy is ahead of the actor.
Lagging == KeepOldActor /\ ~CriticTrainOnly

Kept ==
    IF UpdateInterval = 1
    THEN weights.rollout_actor = weights.engines /\ weights.engines - weights.old_actor <= 1
    ELSE weights.old_actor = weights.engines

LastIter == Behind(Allowed(rid) + 1)

BeforePush ==
    /\ driver \in {"start", "first_update"} \/ Pushing("first_updating") =>
          weights.engines = None /\ weights.rollout_actor = weights.actor
    /\ driver = "update" \/ Pushing("updating") => LastIter

LagInv ==
    Lagging =>
        /\ job["actor"] \in {"idle", "forward"} => weights.live = weights.actor
        /\ weights.old_actor <= weights.actor /\ weights.rollout_actor <= weights.actor
        /\ weights.engines <= weights.actor
        /\ \A r \in Rollout : made[r] <= weights.engines
        /\ weights.engines # None => Kept
        /\ BeforePush

LEMMA LagFrame ==
    ASSUME [Next]_vars
    PROVE  /\ Lagging' <=> Lagging
           /\ UpdateInterval' = UpdateInterval /\ Rollout' = Rollout /\ (Async' <=> Async)
           /\ rid' = rid => Allowed(rid)' = Allowed(rid)
           /\ weights' = weights => (Kept' <=> Kept)
           /\ weights' = weights /\ rid' = rid => (LastIter' <=> LastIter)
<1>1. args' = args /\ Rollout' = Rollout /\ (Async' <=> Async)
  BY SameArgs
<1>2. UpdateInterval' = UpdateInterval /\ (Lagging' <=> Lagging)
  BY <1>1 DEF UpdateInterval, Lagging, KeepOldActor, CriticTrainOnly
<1>3. rid' = rid => Allowed(rid)' = Allowed(rid)
  BY <1>1, <1>2 DEF Allowed
<1>4. weights' = weights => (Kept' <=> Kept)
  BY <1>2 DEF Kept
<1>5. weights' = weights /\ rid' = rid => (LastIter' <=> LastIter)
  BY <1>3 DEF LastIter, Behind
<1> QED
  BY <1>1, <1>2, <1>3, <1>4, <1>5

\* The driver comes to a push from a training step, after which the engines are that far behind.
LEMMA LagDriver ==
    ASSUME TypeOK, QueueInv, TrainInv, AgeInv, LagInv, Lagging, [Next]_vars, DriverStep
    PROVE  LagInv'
<1>0. Lagging' /\ Rollout' = Rollout
  BY LagFrame
<1>1. UNCHANGED <<made, weights>>
  BY DEF DriverStep, AskUpdate, EndUpdate, Launch, Finish, EvalFirst, StartGenerate,
     TakeData, TakeNext, StartTraining, EndTraining, SaveAll, EndSave, SyncGenerate, StartEval,
     NextRollout, StayManager, managerVars, trainerVars
<1>2. /\ driver # "training" => job["actor"] = "idle"
      /\ driver \notin Updating => update = "idle"
  BY DEF TrainInv, RoleInv, Role, QueueInv
<1>3. weights.live = weights.actor \/ job' = job
  BY <1>2 DEF LagInv, DriverStep, AskUpdate, EndUpdate, Launch, Finish, EvalFirst,
     StartGenerate, TakeData, TakeNext, StartTraining, EndTraining, SaveAll, EndSave,
     SyncGenerate, StartEval, NextRollout, trainerVars
<1>4. Kept' <=> Kept
  BY <1>1, LagFrame
<1>5. BeforePush'
  <2>1. CASE AskUpdate
    <3>1. rid' = rid /\ weights' = weights
      BY <1>1, <2>1 DEF AskUpdate
    <3>2. LastIter' <=> LastIter
      BY <3>1, LagFrame
    <3> QED
      BY <2>1, <3>1, <3>2 DEF AskUpdate, LagInv, BeforePush, Pushing
  <2>2. CASE EndTraining \/ EndSave \/ SyncGenerate
    <3>1. rid' = rid /\ weights' = weights
      BY <1>1, <2>2 DEF EndTraining, EndSave, SyncGenerate
    <3>2. LastIter' <=> LastIter
      BY <3>1, LagFrame
    <3>3. driver \in {"saving", "sync"} \/ Done("actor")
      BY <2>2 DEF EndTraining, EndSave, SyncGenerate, Trained, Done, Role
    <3>4. LastIter
      BY <3>3 DEF AgeInv, Lagging, LastIter
    <3>5. driver' \notin {"start", "first_update", "first_updating"}
      BY <2>2 DEF EndTraining, EndSave, SyncGenerate, AfterSave
    <3> QED
      BY <3>2, <3>4, <3>5 DEF BeforePush, Pushing
  <2>3. CASE EndUpdate
    BY <2>3 DEF EndUpdate, BeforePush, Pushing
  <2>4. CASE \/ Launch \/ Finish \/ EvalFirst \/ StartGenerate \/ TakeData \/ TakeNext
             \/ StartTraining \/ SaveAll \/ StartEval \/ NextRollout
    <3>1. driver' \notin {"start", "first_update", "first_updating", "update", "updating"}
      BY <2>4 DEF Launch, Finish, EvalFirst, StartGenerate, TakeData, TakeNext, StartTraining,
         SaveAll, StartEval, NextRollout
    <3> QED
      BY <3>1 DEF BeforePush, Pushing
  <2> QED
    BY <2>1, <2>2, <2>3, <2>4 DEF DriverStep
<1> QED
  BY <1>0, <1>1, <1>3, <1>4, <1>5 DEF LagInv

\* A rollout is begun with the engines' weights.
LEMMA LagManager ==
    ASSUME TypeOK, QueueInv, LagInv, Lagging, [Next]_vars, ManagerStep
    PROVE  LagInv'
<1>0. Lagging' /\ Rollout' = Rollout
  BY LagFrame
<1>1. UNCHANGED <<driver, rid, weights, job>>
  BY DEF ManagerStep, BeginCall, GetSamples, EndCall, SavePosition, GiveEngines, driverVars,
     trainerVars
<1>2. (Kept' <=> Kept) /\ (LastIter' <=> LastIter)
  BY <1>1, LagFrame
<1>3. \A r \in Rollout : made'[r] <= weights.engines
  <2>1. CASE BeginCall
    <3>1. \A r \in Rollout : made'[r] \in {made[r], weights.engines}
      BY <2>1 DEF BeginCall, TypeOK
    <3> QED
      BY <3>1 DEF LagInv, TypeOK, None
  <2> QED
    BY <2>1 DEF ManagerStep, GetSamples, EndCall, SavePosition, GiveEngines, LagInv
<1>4. update' # "idle" => update # "idle"
  <2>1. GiveEngines => update = "asked"
    <3>1. SUFFICES ASSUME GiveEngines PROVE update = "asked"
      OBVIOUS
    <3>2. calls # << >> /\ Head(calls).op = "engines"
      BY <3>1 DEF GiveEngines, Runs
    <3>3. Head(calls) \in Asked
      BY <3>2, Answered DEF QueueInv
    <3>4. driver \in Updating
      BY <3>2, <3>3 DEF Asked, Generate, Eval, Save
    <3> QED
      BY <3>2, <3>4 DEF QueueInv
  <2> QED
    BY <2>1 DEF ManagerStep, BeginCall, GetSamples, EndCall, SavePosition, trainerVars
<1>5. BeforePush'
  BY <1>1, <1>2, <1>4 DEF LagInv, BeforePush, Pushing
<1> QED
  BY <1>0, <1>1, <1>2, <1>3, <1>5 DEF LagInv

\* What a push leaves in the copies.
LEMMA KeptByPush ==
    ASSUME TypeOK, Push, KeepOldActor, weights.live = weights.actor
    PROVE  /\ weights'.live = weights.actor
           /\ weights'.actor = weights.actor /\ weights'.engines = weights.actor
           /\ IF UpdateInterval = 1
              THEN /\ weights'.old_actor = weights.rollout_actor
                   /\ weights'.rollout_actor = weights.actor
              ELSE /\ weights'.old_actor = weights.actor
                   /\ weights'.rollout_actor = weights.rollout_actor
<1> DEFINE W == [live : Nat, actor : Nat, old_actor : Nat, rollout_actor : Nat,
                 critic : Nat, engines : Nat \cup {None}]
           w == [weights EXCEPT !.engines = weights.actor]
<1>1. \A x \in W :
          /\ RotateCopies(x).live = x.live
          /\ RotateCopies(x).old_actor = IF UpdateInterval = 1 THEN x.rollout_actor ELSE x.live
          /\ RotateCopies(x).rollout_actor =
                IF UpdateInterval = 1 THEN x.live ELSE x.rollout_actor
  BY DEF RotateCopies
<1>2. w \in W /\ w.rollout_actor = weights.rollout_actor /\ w.live = weights.live
  BY DEF TypeOK
<1>3. weights' = RotateCopies(w)
  BY DEF Push
<1> QED
  BY <1>1, <1>2, <1>3, Pushed

LEMMA LagPush ==
    ASSUME TypeOK, QueueInv, TrainInv, LagInv, Lagging, [Next]_vars, Push
    PROVE  LagInv'
<1>0. /\ Lagging' /\ Rollout' = Rollout /\ UpdateInterval' = UpdateInterval /\ KeepOldActor
      /\ driver \in Updating /\ update # "idle" /\ update' = "idle"
      /\ UNCHANGED <<driver, rid, job, made>>
  BY LagFrame DEF Push, QueueInv, driverVars, managerVars, Lagging
<1>1. weights.live = weights.actor
  BY <1>0 DEF LagInv, TrainInv, RoleInv, Role, Updating
<1>2. /\ weights'.live = weights.actor
      /\ weights'.actor = weights.actor /\ weights'.engines = weights.actor
      /\ IF UpdateInterval = 1
         THEN /\ weights'.old_actor = weights.rollout_actor
              /\ weights'.rollout_actor = weights.actor
         ELSE /\ weights'.old_actor = weights.actor
              /\ weights'.rollout_actor = weights.rollout_actor
  BY <1>0, <1>1, KeptByPush
<1>3. /\ weights.actor \in Nat /\ weights.old_actor \in Nat /\ weights.rollout_actor \in Nat
      /\ weights.engines \in Int /\ \A r \in Rollout : made[r] \in Int
  BY DEF TypeOK, None
<1>4. UpdateInterval = 1 => weights.actor - weights.rollout_actor <= 1
  <2>1. CASE driver = "first_updating"
    BY <1>0, <1>3, <2>1 DEF LagInv, BeforePush, Pushing
  <2>2. CASE driver = "updating" /\ UpdateInterval = 1
    <3>1. LastIter
      BY <1>0, <2>2 DEF LagInv, BeforePush, Pushing
    <3>2. Allowed(rid) = 0
      <4>1. rid \in Nat
        BY JobTypes DEF TypeOK
      <4> QED
        BY <2>2, <4>1 DEF Allowed
    <3>3. weights.engines # None /\ weights.actor - weights.engines <= 1
      BY <3>1, <3>2 DEF LastIter, Behind
    <3> QED
      BY <2>2, <3>3 DEF LagInv, Kept
  <2> QED
    BY <1>0, <2>1, <2>2 DEF Updating
<1>5. Kept'
  BY <1>0, <1>2, <1>4 DEF Kept
<1>6. BeforePush'
  BY <1>0 DEF BeforePush, Pushing, Updating
<1>7. /\ weights'.old_actor <= weights'.actor /\ weights'.rollout_actor <= weights'.actor
      /\ weights'.engines <= weights'.actor
      /\ \A r \in Rollout : made'[r] <= weights'.engines
  BY <1>0, <1>2, <1>3 DEF LagInv
<1> QED
  BY <1>0, <1>2, <1>5, <1>6, <1>7 DEF LagInv

LEMMA LagTrainer ==
    ASSUME TypeOK, QueueInv, TrainInv, AgeInv, LagInv, Lagging, [Next]_vars, TrainerStep
    PROVE  LagInv'
<1>0. Lagging' /\ Rollout' = Rollout /\ UpdateInterval' = UpdateInterval
  BY LagFrame
<1>1. CASE Push
  BY <1>1, LagPush
<1>2. job["actor"] # "idle" => driver = "training"
  BY DEF TrainInv, RoleInv, Role
<1>3. CASE CriticForward \/ ActorForward \/ SyncActorCritic \/ CriticTrain
  <2>1. /\ UNCHANGED <<driver, rid, made, update>> /\ weights'.actor = weights.actor
        /\ weights'.old_actor = weights.old_actor /\ weights'.engines = weights.engines
        /\ weights'.rollout_actor = weights.rollout_actor
    BY <1>3 DEF CriticForward, ActorForward, SyncActorCritic, CriticTrain, TypeOK, driverVars,
       managerVars
  <2>2. job'["actor"] \in {"idle", "forward"} =>
            job'["actor"] = job["actor"] /\ weights'.live = weights.live
    BY <1>3 DEF CriticForward, ActorForward, SyncActorCritic, CriticTrain, TypeOK, Role
  <2>3. Kept' <=> Kept
    BY <1>0, <2>1 DEF Kept
  <2>4. LastIter' <=> LastIter
    BY <2>1, LagFrame DEF LastIter, Behind
  <2>5. BeforePush'
    BY <2>1, <2>4 DEF LagInv, BeforePush, Pushing
  <2> QED
    BY <1>0, <2>1, <2>2, <2>3, <2>5 DEF LagInv
<1>4. CASE ActorTrain
  <2>1. /\ UNCHANGED <<driver, rid, made, update>> /\ job["actor"] = "train"
        /\ weights'.actor = weights.actor + 1 /\ weights'.live = weights.actor + 1
        /\ weights'.old_actor = weights.old_actor /\ weights'.engines = weights.engines
        /\ weights'.rollout_actor = weights.rollout_actor
    BY <1>4 DEF ActorTrain, TrainedFrom, TypeOK, driverVars, managerVars
  <2>2. driver = "training"
    BY <1>2, <2>1
  <2>3. Kept' <=> Kept
    BY <1>0, <2>1 DEF Kept
  <2>4. BeforePush'
    BY <2>1, <2>2 DEF BeforePush, Pushing
  <2>5. /\ weights.actor \in Nat /\ weights.old_actor \in Nat /\ weights.rollout_actor \in Nat
        /\ weights.engines \in Int
    BY DEF TypeOK, None
  <2> QED
    BY <1>0, <2>1, <2>3, <2>4, <2>5 DEF LagInv
<1> QED
  BY <1>1, <1>3, <1>4 DEF TrainerStep

LEMMA LagFresh ==
    ASSUME args \in Jobs, weights = FreshWeights, driver = "start",
           job = [m \in Role |-> "idle"], made = [r \in Rollout |-> None]
    PROVE  LagInv
<1>1. StartId \in Nat
  BY JobTypes
<1>2. /\ weights.live = StartId /\ weights.actor = StartId /\ weights.old_actor = StartId
      /\ weights.rollout_actor = StartId /\ weights.engines = None
  BY DEF FreshWeights
<1> QED
  BY <1>1, <1>2 DEF LagInv, BeforePush, Pushing, None

LEMMA LagStep ==
    ASSUME TypeOK, QueueInv, TrainInv, AgeInv, LagInv, [Next]_vars
    PROVE  LagInv'
<1>0. SUFFICES ASSUME Lagging PROVE LagInv'
  BY LagFrame DEF LagInv
<1>1. CASE Start
  <2>1. UNCHANGED <<rid, made, weights, job, update>> /\ driver = "start"
    BY <1>1 DEF Start, trainerVars
  <2>2. driver' = "first_update"
    BY <1>0, <1>1 DEF Start, Lagging
  <2>3. BeforePush'
    BY <1>0, <2>1, <2>2 DEF LagInv, BeforePush, Pushing
  <2> QED
    BY <1>0, <2>1, <2>3, LagFrame DEF LagInv
<1>2. CASE Crash
  <2>1. /\ FreshWeights' = FreshWeights /\ Rollout' = Rollout /\ args' = args
        /\ NumRollout' = NumRollout /\ StartId' = StartId
    BY SameArgs DEF FreshWeights
  <2>2. /\ weights' = FreshWeights /\ driver' = "start" /\ job' = [m \in Role |-> "idle"]
        /\ made' = [r \in Rollout |-> None]
    BY <1>2 DEF Crash
  <2>3. StartId \in Nat
    BY JobTypes DEF TypeOK
  <2>4. /\ weights'.live = StartId /\ weights'.actor = StartId /\ weights'.old_actor = StartId
        /\ weights'.rollout_actor = StartId /\ weights'.engines = None
    BY <2>2 DEF FreshWeights
  <2> QED
    BY <2>1, <2>2, <2>3, <2>4 DEF LagInv, BeforePush, Pushing, None
<1>3. CASE UNCHANGED vars
  <2>1. UNCHANGED <<driver, rid, job, update, made, weights>>
    BY <1>3 DEF vars, driverVars, managerVars, trainerVars
  <2>2. (Kept' <=> Kept) /\ (LastIter' <=> LastIter) /\ Rollout' = Rollout /\ Lagging'
    BY <1>0, <2>1, LagFrame
  <2>3. BeforePush'
    BY <1>0, <2>1, <2>2 DEF LagInv, BeforePush, Pushing
  <2> QED
    BY <1>0, <2>1, <2>2, <2>3 DEF LagInv
<1> QED
  BY <1>0, <1>1, <1>2, <1>3, LagDriver, LagManager, LagTrainer DEF Next

-----------------------------------------------------------------------------
\* The theorems.

LEMMA InitInv ==
    ASSUME Init
    PROVE  IInv
<1>1. TypeOK
  BY InitTypes
<1>2. /\ args \in Jobs /\ StartId \in 0..NumRollout /\ NumRollout \in Nat /\ Loaded \in Int
      /\ DOMAIN OldFiles = {Loaded} \ {-1}
  BY JobTypes DEF Init, OldFiles
<1>3. QueueInv
  <2>1. << >> \in Seq(Asked)
    OBVIOUS
  <2> QED
    BY <2>1 DEF Init, QueueInv, Updating, Loop
<1>4. DataInv
  BY DEF Init, DataInv
<1>5. TrainInv
  <2>1. TrainedBefore(StartId) = 0
    BY <1>2, TrainedNext
  <2>2. \A m \in Role : Counts(m, rid)
    BY <1>2, <2>1 DEF Init, Counts, FreshWeights
  <2> QED
    BY <2>2 DEF Init, TrainInv, RoleInv, Done, Undone
<1>6. MadeInv
  <2>1. None \notin Rollout
    BY <1>2 DEF Rollout, None
  <2> QED
    BY <2>1 DEF Init, MadeInv, Ready, Wanted
<1>7. AgeInv
  BY DEF Init, AgeInv, Done, Undone, Updating
<1>8. BeginInv
  BY <1>2 DEF Init, BeginInv, FileInv, BeginsAtCheckpoint, OldFiles
<1> QED
  BY <1>1, <1>3, <1>4, <1>5, <1>6, <1>7, <1>8 DEF IInv

LEMMA Invariance == Spec => []IInv
<1>1. Init => IInv
  BY InitInv
<1>2. IInv /\ [Next]_vars => IInv'
  BY TypeStep, QueueStep, DataStep, TrainStep, MadeStep, AgeStep, FileStep DEF IInv
<1> QED
  BY <1>1, <1>2, PTL DEF Spec

\* Every variable of the drivers, the manager and the models keeps its type; in particular at
\* most one rollout is begun early and the queue of the manager holds nothing but its calls.
THEOREM TypeCorrect == Spec => []TypeOK
<1>1. IInv => TypeOK
  BY DEF IInv
<1> QED
  BY <1>1, Invariance, PTL

\* train.py and train_async.py train each model on every rollout once, with that rollout's
\* data, whatever the intervals, the critic's lead and the crashes are.
THEOREM TrainsOnce == Spec => []TrainsEachOnce
<1>1. ASSUME IInv PROVE TrainsEachOnce
  <2>1. ASSUME NEW m \in Role, job[m] # "idle"
        PROVE  data = rid /\ ~Pending(Generate(rid))
    <3>1. driver = "training"
      BY <1>1, <2>1 DEF IInv, TrainInv, RoleInv
    <3>2. data = rid /\ calls \in Seq(Call \ {Generate(rid)})
      BY <1>1, <3>1 DEF IInv, DataInv
    <3> QED
      BY <3>2, ElementOfSeq DEF Pending
  <2>2. ASSUME driver = "top"
        PROVE  /\ weights.actor = StartId + TrainedBefore(rid)
               /\ UseCritic => weights.critic = rid
    <3>1. Counts("actor", rid) /\ Counts("critic", rid)
      BY <1>1, <2>2 DEF IInv, TrainInv, RoleInv, Role
    <3> QED
      BY <3>1 DEF Counts
  <2> QED
    BY <2>1, <2>2 DEF TrainsEachOnce, TrainedBefore
<1> QED
  BY <1>1, Invariance, PTL

\* Neither driver lets update_weights begin while the RolloutManager generates or evaluates, or
\* has yet to.
THEOREM UpdatesNothingElse == Spec => []UpdatesAlone
<1>1. ASSUME IInv PROVE UpdatesAlone
  <2>1. SUFFICES ASSUME update = "push" PROVE ~running /\ calls = << >>
    BY DEF UpdatesAlone
  <2>2. calls = << >>
    BY <1>1, <2>1 DEF IInv, QueueInv
  <2> QED
    BY <1>1, <2>2 DEF IInv, QueueInv, Runs
<1> QED
  BY <1>1, Invariance, PTL

\* The data of a training step is of weights at most update_weights_interval steps old in
\* train_async.py and of the current weights in train.py, for every interval.
THEOREM Staleness == Spec => []BoundedStaleness
<1>1. ASSUME IInv PROVE BoundedStaleness
  <2>1. SUFFICES ASSUME job["actor"] # "idle" PROVE data = rid /\ Recent(rid)
    BY DEF BoundedStaleness, Recent
  <2>2. driver = "training" /\ ActorTrains(rid) /\ args \in Jobs
    BY <1>1, <2>1 DEF IInv, TrainInv, RoleInv, Role, TypeOK
  <2>3. ~CriticTrainOnly
    <3>1. CriticTrainOnly => UseCritic
      BY <2>2, DriverAssumption DEF JobOK, CriticTrainOnly, UseCritic
    <3> QED
      BY <2>2, <3>1 DEF ActorTrains
  <2>4. Recent(rid)
    BY <1>1, <2>1, <2>2, <2>3 DEF IInv, AgeInv, Undone
  <2> QED
    BY <1>1, <2>2, <2>4 DEF IInv, DataInv
<1> QED
  BY <1>1, Invariance, PTL

\* --keep-old-actor, for every job: the log probs that a training step is measured against are of
\* the weights its rollout was begun with if train_async.py updates after every rollout, and
\* otherwise of weights one training step older, or newer by no more than the data is old.
THEOREM OldActor == Spec => []OldActorNear
<1>1. Init => RotateInv /\ LagInv
  BY RotateFresh, LagFresh DEF Init
<1>2. IInv /\ RotateInv /\ LagInv /\ [Next]_vars => RotateInv' /\ LagInv'
  BY RotateStep, LagStep DEF IInv
<1>3. ASSUME IInv, RotateInv, LagInv PROVE OldActorNear
  <2>0. SUFFICES ASSUME KeepOldActor, job["actor"] = "forward"
                 PROVE  /\ Async /\ UpdateInterval = 1 => weights.old_actor = made[data]
                        /\ made[data] - weights.old_actor <= 1
                        /\ weights.old_actor - made[data] <=
                              IF Async THEN UpdateInterval ELSE 0
    BY DEF OldActorNear
  <2>1. driver = "training" /\ ActorTrains(rid) /\ args \in Jobs
    BY <1>3, <2>0 DEF IInv, TrainInv, RoleInv, Role, TypeOK
  <2>2. ~CriticTrainOnly
    <3>1. CriticTrainOnly => UseCritic
      BY <2>1, DriverAssumption DEF JobOK, CriticTrainOnly, UseCritic
    <3> QED
      BY <2>1, <3>1 DEF ActorTrains
  <2>3. data = rid
    BY <1>3, <2>1 DEF IInv, DataInv
  <2>4. Async /\ UpdateInterval = 1 => weights.old_actor = made[data]
    BY <1>3, <2>0, <2>1, <2>2, <2>3 DEF RotateInv, Rotating, OldInv, HasOld
  <2>5. Recent(rid) /\ weights.engines # None
    BY <1>3, <2>0, <2>1, <2>2 DEF IInv, AgeInv, Undone, Behind
  <2>6. /\ weights.actor \in Nat /\ weights.old_actor \in Nat /\ weights.engines \in Int
        /\ rid \in Rollout /\ made[rid] \in Int /\ UpdateInterval \in Nat
    BY <1>3, <2>1, <2>5, Intervals DEF IInv, TypeOK, Recent, None
  <2>7. weights.old_actor <= weights.actor /\ made[rid] <= weights.engines /\ Kept
    BY <1>3, <2>0, <2>2, <2>5, <2>6 DEF LagInv, Lagging
  <2>8. weights.engines - weights.old_actor <= 1
    BY <2>6, <2>7 DEF Kept
  <2>9. weights.actor - made[rid] <= IF Async THEN UpdateInterval ELSE 0
    BY <2>5 DEF Recent
  <2> QED
    BY <2>3, <2>4, <2>6, <2>7, <2>8, <2>9
<1> QED
  BY <1>1, <1>2, <1>3, Invariance, PTL DEF Spec

\* A job starts reading the dataset where the checkpoint it loads stopped, however many jobs
\* have crashed since and whatever they saved.
THEOREM BeginsWhereLoaded == Spec => []BeginsAtCheckpoint
<1>1. IInv => BeginsAtCheckpoint
  BY DEF IInv, BeginInv
<1> QED
  BY <1>1, Invariance, PTL
=============================================================================
