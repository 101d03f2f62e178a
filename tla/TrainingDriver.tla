---------------------------- MODULE TrainingDriver ----------------------------
(***************************************************************************)
(* The two drivers, train.py and train_async.py (Async), with what they    *)
(* order: the calls queued at the RolloutManager, the models that train    *)
(* (slime/backends/megatron_utils/actor.py) and their copies of the        *)
(* weights, the position in the prompt dataset                             *)
(* (slime/rollout/data_source.py), its files, and a restart of the job.    *)
(*                                                                         *)
(* RolloutManager is a Ray actor with one thread: its calls run one at a   *)
(* time in the order they were made.  A version of the weights is the      *)
(* number of rollouts they have been trained on.  Memory hand-over and     *)
(* engine failures are in FaultTolerance, the inside of a rollout is in    *)
(* RolloutGeneration.  Mut<Name> is a plausible bug in Name.               *)
(***************************************************************************)
EXTENDS Integers, Sequences, FiniteSets

CONSTANTS
    Jobs,             \* the jobs that may be started, by their arguments
    MaxFetches,       \* bound: get_samples calls of one rollout
    MaxCrashes        \* bound: the job dies and is started again

\* Arguments that the driver cannot be started with are left out.
JobOK(a) ==
    /\ {a.num_rollout, a.update_interval, a.dataset_len, a.over_sampling} \subseteq Nat \ {0}
    /\ {a.save_interval, a.eval_interval, a.per_epoch, a.num_critic_only} \subseteq Nat
    /\ {a.async, a.use_critic, a.critic_train_only, a.keep_old_actor, a.shuffle}
          \subseteq BOOLEAN
    /\ a.critic_train_only => a.use_critic
    /\ a.loaded \in -1..(a.num_rollout - 1)
    /\ a.per_epoch # 0 => a.num_rollout % a.per_epoch = 0

ASSUME DriverAssumption ==
    /\ \A a \in Jobs : JobOK(a)
    /\ MaxFetches \in Nat \ {0} /\ MaxCrashes \in Nat

VARIABLES
    args,       \* the arguments of the job
    driver,     \* where the driver is
    rid,        \* rollout_id
    next,       \* rollout_data_next_future: the rollout it is of, or None
    data,       \* rollout_data_ref or rollout_data_curr_ref: likewise
    calls,      \* calls made to the RolloutManager and not yet answered
    running,    \* the first of them has begun
    fetches,    \* get_samples calls of the rollout that runs
    made,       \* the weights each generated rollout was begun with
    pos,        \* the data source: sample_offset, epoch_id, sample_group_index
                \* and the epoch whose order the dataset is in
    saved,      \* the files written by DataSource.save
    lastSaved,  \* the last rollout the driver has saved
    job,        \* where the train call of each model is
    weights,    \* versions: the live parameters, the copies by tag, the
                \* critic's parameters and the engines' weights
    update,     \* where update_weights is on the trainer
    crashes

driverVars  == <<driver, rid, next, data>>
managerVars == <<calls, running, fetches, made, pos, saved>>
trainerVars == <<job, weights, update>>
vars == <<driverVars, managerVars, trainerVars, lastSaved, crashes, args>>

Async           == args.async              \* train_async.py rather than train.py
NumRollout      == args.num_rollout
UpdateInterval  == args.update_interval    \* --update-weights-interval
SaveInterval    == args.save_interval      \* 0 when not set
EvalInterval    == args.eval_interval      \* 0 when not set
PerEpoch        == args.per_epoch          \* num_rollout_per_epoch, 0 when not set
UseCritic       == args.use_critic
NumCriticOnly   == args.num_critic_only    \* --num-critic-only-steps
CriticTrainOnly == args.critic_train_only
KeepOldActor    == args.keep_old_actor
Shuffle         == args.shuffle            \* --rollout-shuffle
DatasetLen      == args.dataset_len        \* prompts in the dataset
OverSampling    == args.over_sampling      \* --over-sampling-batch-size
Loaded          == args.loaded             \* rollout of the checkpoint in --load, or -1

None    == -2
Role    == {"actor", "critic"}
Rollout == 0..(NumRollout - 1)
Call    == [op : {"generate", "eval", "save", "engines"}, rollout : 0..NumRollout]

Generate(r) == [op |-> "generate", rollout |-> r]
Eval(r)     == [op |-> "eval", rollout |-> r]
Save(r)     == [op |-> "save", rollout |-> r]
Engines     == [op |-> "engines", rollout |-> 0]

Pending(c) == \E i \in DOMAIN calls : calls[i] = c     \* ray.get(c) blocks
Send(c)    == calls' = Append(calls, c)
Runs(op)   == calls # <<>> /\ Head(calls).op = op

\* should_run_periodic_action
Periodic(r, interval, lastToo) ==
    /\ interval # 0
    /\ \/ lastToo /\ r = NumRollout - 1
       \/ (r + 1) % interval = 0
       \/ PerEpoch # 0 /\ (r + 1) % PerEpoch = 0

-----------------------------------------------------------------------------
\* The data source.

\* The position after the next n prompts: the rest of the epoch and, when it
\* is too short, the first prompts of the next one.
Left(p) == IF p.offset < DatasetLen THEN DatasetLen - p.offset ELSE 0

InEpoch(p, n) == [p EXCEPT !.offset = @ + n, !.groups = @ + n]

MutNextEpoch(p, n) ==       \* the whole batch from the next epoch
    [offset |-> n, epoch |-> p.epoch + 1, groups |-> p.groups + n, order |-> p.epoch + 1]

NextEpoch(p, n) ==
    LET rest == n - Left(p) IN
    [offset |-> rest,
     epoch  |-> p.epoch + 1,
     groups |-> p.groups + Left(p) + (IF rest < DatasetLen THEN rest ELSE DatasetLen),
     order  |-> IF Shuffle THEN p.epoch + 1 ELSE p.order]

Advance(p, n) == IF p.offset + n <= DatasetLen THEN InEpoch(p, n) ELSE NextEpoch(p, n)

Beginning == [offset |-> 0, epoch |-> 0, groups |-> 0, order |-> 0]

\* DataSource.save and load.  The order is not saved, it is that of the epoch; a
\* file that does not exist leaves the source at its beginning.
Stored(p)   == [offset |-> p.offset, epoch |-> p.epoch, groups |-> p.groups]
Restored(s) == [offset |-> s.offset, epoch |-> s.epoch, groups |-> s.groups,
                order |-> IF Shuffle THEN s.epoch ELSE 0]
Load(r)     == IF r \in DOMAIN saved THEN Restored(saved[r]) ELSE Beginning

\* The file that came with the checkpoint in --load.
OldPosition == LET used == (Loaded + 1) * OverSampling IN
    [offset |-> used % DatasetLen, epoch |-> used \div DatasetLen, groups |-> used]
OldFiles == [r \in {Loaded} \ {-1} |-> OldPosition]

-----------------------------------------------------------------------------
\* A job is started: the models load the checkpoint, the data source its file,
\* and the engines get their first weights.

StartId           == Loaded + 1        \* start_rollout_id
MutLoadedPosition == Load(StartId)
LoadedPosition    == Load(StartId - 1)

FreshWeights ==
    [live |-> StartId, actor |-> StartId, old_actor |-> StartId,
     rollout_actor |-> StartId, critic |-> StartId, engines |-> None]

Init ==
    /\ args \in Jobs
    /\ driver = "start" /\ rid = StartId /\ next = None /\ data = None
    /\ calls = <<>> /\ running = FALSE /\ fetches = 0
    /\ made = [r \in Rollout |-> None]
    /\ pos = Beginning /\ saved = OldFiles /\ lastSaved = Loaded
    /\ job = [m \in Role |-> "idle"] /\ weights = FreshWeights /\ update = "idle"
    /\ crashes = 0

Start ==
    /\ driver = "start"
    /\ pos' = LoadedPosition
    /\ driver' = IF CriticTrainOnly THEN "launch" ELSE "first_update"
    /\ UNCHANGED <<rid, next, data, calls, running, fetches, made, saved, trainerVars,
                   lastSaved, crashes, args>>

\* The job dies: every actor is lost, only the files are left.  save_model writes
\* no checkpoint, so that the next job starts where this one did.
Crash ==
    /\ driver \notin {"start", "done"} /\ crashes < MaxCrashes
    /\ crashes' = crashes + 1
    /\ driver' = "start" /\ rid' = StartId /\ next' = None /\ data' = None
    /\ calls' = <<>> /\ running' = FALSE /\ fetches' = 0
    /\ made' = [r \in Rollout |-> None] /\ pos' = Beginning
    /\ job' = [m \in Role |-> "idle"] /\ weights' = FreshWeights /\ update' = "idle"
    /\ UNCHANGED <<saved, lastSaved, args>>

-----------------------------------------------------------------------------
\* The calls of the RolloutManager.

BeginCall ==
    /\ Runs("generate") \/ Runs("eval")
    /\ ~running
    /\ running' = TRUE /\ fetches' = 0
    /\ made' = IF Runs("generate") /\ Head(calls).rollout \in Rollout
               THEN [made EXCEPT ![Head(calls).rollout] = weights.engines] ELSE made
    /\ UNCHANGED <<driverVars, calls, pos, saved, trainerVars, lastSaved, crashes, args>>

\* The buffer may have a part of what is asked for.
GetSamples ==
    /\ Runs("generate") /\ running /\ fetches < MaxFetches
    /\ fetches' = fetches + 1
    /\ \E n \in 1..OverSampling : pos' = Advance(pos, n)
    /\ UNCHANGED <<driverVars, calls, running, made, saved, trainerVars, lastSaved, crashes, args>>

EndCall ==
    /\ running
    /\ Runs("generate") => fetches > 0
    /\ calls' = Tail(calls) /\ running' = FALSE
    /\ UNCHANGED <<driverVars, fetches, made, pos, saved, trainerVars, lastSaved, crashes, args>>

SavePosition ==
    /\ Runs("save")
    /\ saved' = [r \in DOMAIN saved \cup {Head(calls).rollout} |->
                    IF r = Head(calls).rollout THEN Stored(pos) ELSE saved[r]]
    /\ calls' = Tail(calls)
    /\ UNCHANGED <<driverVars, running, fetches, made, pos, trainerVars, lastSaved, crashes, args>>

\* get_updatable_engines_and_lock, asked for by the trainer.
GiveEngines ==
    /\ Runs("engines")
    /\ calls' = Tail(calls) /\ update' = "push"
    /\ UNCHANGED <<driverVars, running, fetches, made, pos, saved, job, weights, lastSaved,
                   crashes, args>>

-----------------------------------------------------------------------------
\* The models.

\* The condition of the driver and that of the critic: they meet in
\* sync_actor_critic_data or wait for each other for ever.
ActorTrains(r)    == ~UseCritic \/ (r >= NumCriticOnly /\ ~CriticTrainOnly)
MutCriticSyncs(r) == r > NumCriticOnly /\ ~CriticTrainOnly
CriticSyncs(r)    == r >= NumCriticOnly /\ ~CriticTrainOnly

\* Push the actor's weights to the engines; rotate the copies the next rollouts'
\* log probs are computed with.
MutRotateCopies(w) == IF KeepOldActor THEN [w EXCEPT !.old_actor = w.live] ELSE w
RotateCopies(w) ==
    IF ~KeepOldActor THEN w
    ELSE IF UpdateInterval = 1
    THEN [w EXCEPT !.old_actor = w.rollout_actor, !.rollout_actor = w.live]
    ELSE [w EXCEPT !.old_actor = w.live]

Push ==
    /\ update = "push" /\ update' = "idle"
    /\ weights' = RotateCopies([weights EXCEPT !.engines = weights.actor])
    /\ UNCHANGED <<driverVars, managerVars, job, lastSaved, crashes, args>>

CriticForward ==
    /\ job["critic"] = "forward"
    /\ job' = [job EXCEPT !["critic"] = IF CriticSyncs(rid) THEN "sync" ELSE "train"]
    /\ UNCHANGED <<driverVars, managerVars, weights, update, lastSaved, crashes, args>>

\* compute_log_prob with the rollout model.
ActorForward ==
    /\ job["actor"] = "forward"
    /\ job' = [job EXCEPT !["actor"] = IF UseCritic THEN "sync" ELSE "train"]
    /\ weights' = [weights EXCEPT !.live = IF KeepOldActor THEN weights.old_actor
                                           ELSE weights.actor]
    /\ UNCHANGED <<driverVars, managerVars, update, lastSaved, crashes, args>>

SyncActorCritic ==
    /\ \A m \in Role : job[m] = "sync"
    /\ job' = [m \in Role |-> "train"]
    /\ UNCHANGED <<driverVars, managerVars, weights, update, lastSaved, crashes, args>>

CriticTrain ==
    /\ job["critic"] = "train"
    /\ job' = [job EXCEPT !["critic"] = "idle"]
    /\ weights' = [weights EXCEPT !.critic = @ + 1]
    /\ UNCHANGED <<driverVars, managerVars, update, lastSaved, crashes, args>>

\* Back to the actor's weights if others are live, a training step, and the copy.
MutTrainedFrom(w) == w.live
TrainedFrom(w)    == w.actor

ActorTrain ==
    /\ job["actor"] = "train"
    /\ job' = [job EXCEPT !["actor"] = "idle"]
    /\ weights' = [weights EXCEPT !.live = TrainedFrom(weights) + 1,
                                  !.actor = TrainedFrom(weights) + 1]
    /\ UNCHANGED <<driverVars, managerVars, update, lastSaved, crashes, args>>

-----------------------------------------------------------------------------
\* The driver.  A state named after a call in progress (updating, generating,
\* training, saving, evaluating) is a ray.get that waits for it.

StayManager == UNCHANGED <<running, fetches, made, pos, saved>>

AskUpdate ==
    /\ driver \in {"first_update", "update"}
    /\ driver' = IF driver = "update" THEN "updating" ELSE "first_updating"
    /\ update' = "asked" /\ Send(Engines)
    /\ UNCHANGED <<rid, next, data, job, weights, lastSaved, crashes, args>> /\ StayManager

MutUpdated == TRUE              \* without the ray.get of update_weights
Updated    == update = "idle"

EndUpdate ==
    /\ driver \in {"first_updating", "updating"} /\ Updated
    /\ driver' = IF driver = "updating" THEN "eval" ELSE "launch"
    /\ UNCHANGED <<rid, next, data, managerVars, trainerVars, lastSaved, crashes, args>>

Launch ==       \* train_async.py starts the first rollout before its loop
    /\ driver = "launch" /\ driver' = "top"
    /\ IF Async THEN Send(Generate(StartId)) /\ next' = StartId
       ELSE UNCHANGED <<calls, next>>
    /\ UNCHANGED <<rid, data, trainerVars, lastSaved, crashes, args>> /\ StayManager

MutOver == rid > NumRollout
Over    == rid >= NumRollout

Finish ==
    /\ driver = "top" /\ Over
    /\ driver' = "done"
    /\ UNCHANGED <<rid, next, data, managerVars, trainerVars, lastSaved, crashes, args>>

\* train.py: the evaluation before training, unless it is skipped.
EvalFirst ==
    /\ ~Async /\ driver = "top" /\ ~Over
    /\ driver' = "generate"
    /\ \/ EvalInterval # 0 /\ rid = 0 /\ Send(Eval(rid))
       \/ UNCHANGED calls
    /\ UNCHANGED <<rid, next, data, trainerVars, lastSaved, crashes, args>> /\ StayManager

StartGenerate ==
    /\ driver = "generate" /\ ~Pending(Eval(rid))
    /\ driver' = "generating" /\ Send(Generate(rid))
    /\ UNCHANGED <<rid, next, data, trainerVars, lastSaved, crashes, args>> /\ StayManager

TakeData ==
    /\ driver = "generating" /\ ~Pending(Generate(rid))
    /\ driver' = "train" /\ data' = rid
    /\ UNCHANGED <<rid, next, managerVars, trainerVars, lastSaved, crashes, args>>

\* train_async.py: take the data of this rollout, already taken when the future
\* was synchronised before an update, and start the next rollout early.
MutGot == next
Got    == IF next # None THEN next ELSE data

TakeNext ==
    /\ Async /\ driver = "top" /\ ~Over
    /\ next # None => ~Pending(Generate(next))
    /\ driver' = "train" /\ data' = Got
    /\ IF rid + 1 < NumRollout THEN Send(Generate(rid + 1)) /\ next' = rid + 1
       ELSE UNCHANGED <<calls, next>>
    /\ UNCHANGED <<rid, trainerVars, lastSaved, crashes, args>> /\ StayManager

StartTraining ==
    /\ driver = "train" /\ driver' = "training"
    /\ job' = [critic |-> IF UseCritic THEN "forward" ELSE "idle",
               actor  |-> IF ActorTrains(rid) THEN "forward" ELSE "idle"]
    /\ UNCHANGED <<rid, next, data, managerVars, weights, update, lastSaved, crashes, args>>

AfterSave ==
    IF Async THEN IF (rid + 1) % UpdateInterval = 0 THEN "sync" ELSE "eval"
    ELSE IF CriticTrainOnly THEN "eval" ELSE "update"

MutTrained == job["actor"] = "idle"     \* without the ray.get of the critic
Trained    == \A m \in Role : job[m] = "idle"

EndTraining ==
    /\ driver = "training" /\ Trained
    /\ driver' = IF Periodic(rid, SaveInterval, TRUE) THEN "save" ELSE AfterSave
    /\ UNCHANGED <<rid, next, data, managerVars, trainerVars, lastSaved, crashes, args>>

\* save_model, whose call of save() is commented out (actor.py:536), and the
\* position of the data source.
SaveAll ==
    /\ driver = "save" /\ driver' = "saving"
    /\ Send(Save(rid))
    /\ UNCHANGED <<rid, next, data, trainerVars, lastSaved, crashes, args>> /\ StayManager

EndSave ==
    /\ driver = "saving" /\ ~Pending(Save(rid))
    /\ driver' = AfterSave /\ lastSaved' = rid
    /\ UNCHANGED <<rid, next, data, managerVars, trainerVars, crashes, args>>

\* train_async.py: no update of the weights in the middle of a generation.
SyncGenerate ==
    /\ driver = "sync"
    /\ next # None => ~Pending(Generate(next))
    /\ driver' = IF CriticTrainOnly THEN "eval" ELSE "update"
    /\ data' = next /\ next' = None
    /\ UNCHANGED <<rid, managerVars, trainerVars, lastSaved, crashes, args>>

StartEval ==
    /\ driver = "eval" /\ driver' = "evaluating"
    /\ IF Periodic(rid, EvalInterval, FALSE) THEN Send(Eval(rid)) ELSE UNCHANGED calls
    /\ UNCHANGED <<rid, next, data, trainerVars, lastSaved, crashes, args>> /\ StayManager

NextRollout ==
    /\ driver = "evaluating" /\ ~Pending(Eval(rid))
    /\ driver' = "top" /\ rid' = rid + 1
    /\ UNCHANGED <<next, data, managerVars, trainerVars, lastSaved, crashes, args>>

-----------------------------------------------------------------------------
DriverStep ==
    \/ AskUpdate \/ EndUpdate \/ Launch \/ Finish \/ EvalFirst \/ StartGenerate
    \/ TakeData \/ TakeNext \/ StartTraining \/ EndTraining \/ SaveAll \/ EndSave
    \/ SyncGenerate \/ StartEval \/ NextRollout
ManagerStep == BeginCall \/ GetSamples \/ EndCall \/ SavePosition \/ GiveEngines
TrainerStep == Push \/ CriticForward \/ ActorForward \/ SyncActorCritic \/ CriticTrain \/ ActorTrain

Next == Start \/ Crash \/ DriverStep \/ ManagerStep \/ TrainerStep

Spec == Init /\ [][Next]_vars

\* Every process goes on as long as it can, and every rollout gets its samples.
Fairness == /\ WF_vars(Start) /\ WF_vars(DriverStep)
            /\ WF_vars(BeginCall) /\ WF_vars(EndCall) /\ WF_vars(SavePosition)
            /\ WF_vars(GiveEngines) /\ WF_vars(GetSamples) /\ WF_vars(Push)
            /\ WF_vars(CriticForward) /\ WF_vars(ActorForward)
            /\ WF_vars(SyncActorCritic) /\ WF_vars(CriticTrain) /\ WF_vars(ActorTrain)
FairSpec == Spec /\ Fairness

-----------------------------------------------------------------------------
\* Properties.

\* The variables have the values the code gives them.
Position == [offset : Nat, epoch : Nat, groups : Nat, order : Nat]
File     == [offset : Nat, epoch : Nat, groups : Nat]

TypeOK ==
    /\ args \in Jobs
    /\ driver \in {"start", "first_update", "first_updating", "launch", "top", "generate",
                   "generating", "train", "training", "save", "saving", "sync", "update",
                   "updating", "eval", "evaluating", "done"}
    /\ rid \in StartId..NumRollout
    /\ next \in Rollout \cup {NumRollout, None}
    /\ data \in Rollout \cup {NumRollout, None}
    /\ calls \in Seq(Call) /\ running \in BOOLEAN /\ fetches \in 0..MaxFetches
    /\ made \in [Rollout -> Nat \cup {None}]
    /\ pos \in Position
    /\ DOMAIN saved \subseteq Rollout /\ \A r \in DOMAIN saved : saved[r] \in File
    /\ lastSaved \in Rollout \cup {-1}
    /\ job \in [Role -> {"idle", "forward", "sync", "train"}]
    /\ weights \in [live : Nat, actor : Nat, old_actor : Nat, rollout_actor : Nat,
                    critic : Nat, engines : Nat \cup {None}]
    /\ update \in {"idle", "asked", "push"}
    /\ crashes \in 0..MaxCrashes

\* A model that trains on rollout_id has the complete data of that rollout, also
\* when its future was awaited early for an update, and at the end of the
\* iteration each model was trained on every rollout so far once.
TrainsEachOnce ==
    /\ \A m \in Role : job[m] # "idle" => data = rid /\ ~Pending(Generate(rid))
    /\ driver = "top" =>
        /\ weights.actor = StartId + Cardinality({r \in StartId..(rid - 1) : ActorTrains(r)})
        /\ UseCritic => weights.critic = rid

\* train_async.py: no update of the weights in the middle of a generation, nor of
\* an evaluation, and none is waiting to begin with half of the new weights.
UpdatesAlone ==
    update = "push" => ~running /\ \A i \in DOMAIN calls : calls[i].op \notin {"generate", "eval"}

\* The data an actor trains on is of weights at most update_weights_interval
\* training steps old; train.py is on policy.
BoundedStaleness ==
    job["actor"] # "idle" =>
        /\ data \in Rollout /\ made[data] # None
        /\ weights.actor - made[data] <= IF Async THEN UpdateInterval ELSE 0

\* --keep-old-actor: how far the weights that a training step is measured against are from
\* those its rollout was generated with.  They are the same in train_async.py with an update
\* after every rollout.  In train.py they may be older, by one training step; with a larger
\* interval they may be newer, by as much as the data is old.
OldActorNear ==
    KeepOldActor /\ job["actor"] = "forward" =>
        /\ Async /\ UpdateInterval = 1 => weights.old_actor = made[data]
        /\ made[data] - weights.old_actor <= 1
        /\ weights.old_actor - made[data] <= IF Async THEN UpdateInterval ELSE 0

\* The help of --keep-old-actor (arguments.py:440): the rollout model is kept on the
\* training process, so that the log probs are those of the model that generated.
OldActorIsRolloutModel ==
    KeepOldActor /\ job["actor"] = "forward" => weights.old_actor = made[data]

\* Each prompt is handed out once per epoch, in the order of that epoch, also when
\* a batch spans two epochs and after a restart.
PromptsOncePerEpoch ==
    /\ pos.offset <= DatasetLen
    /\ pos.groups = pos.epoch * DatasetLen + pos.offset
    /\ Shuffle => pos.order = pos.epoch

\* A job begins where the checkpoint it loads left the dataset, whatever the jobs
\* before it have saved.
BeginsAtCheckpoint ==
    driver = "first_update" =>
        pos.groups = IF Loaded = -1 THEN 0 ELSE OldPosition.groups

\* The job ends with every rollout trained on.
AllTrained == <>(driver = "done")

\* docs/en/get_started/qa.md: with --load set to the --save directory, a job goes on
\* after the last rollout it has saved.
ResumesFromSave == driver = "first_update" => rid > lastSaved
=============================================================================
