-------------------------- MODULE MCTrainingDriver --------------------------
(* Instances of TrainingDriver for TLC. *)
EXTENDS TrainingDriver

\* train.py with a critic that first trains alone, two rollouts an epoch.
SyncJob ==
    [async |-> FALSE, num_rollout |-> 4, update_interval |-> 1, save_interval |-> 3,
     eval_interval |-> 3, per_epoch |-> 2, use_critic |-> TRUE, num_critic_only |-> 2,
     critic_train_only |-> FALSE, keep_old_actor |-> TRUE, shuffle |-> FALSE,
     dataset_len |-> 3, over_sampling |-> 2, loaded |-> -1]

\* train_async.py that goes on from a checkpoint, with a shuffled dataset.
AsyncJob ==
    [SyncJob EXCEPT !.async = TRUE, !.save_interval = 2, !.eval_interval = 2, !.per_epoch = 0,
                    !.use_critic = FALSE, !.num_critic_only = 0, !.shuffle = TRUE,
                    !.loaded = 0]

\* An update after every second rollout only.
IntervalJob ==
    [AsyncJob EXCEPT !.num_rollout = 5, !.update_interval = 2, !.use_critic = TRUE,
                     !.num_critic_only = 1, !.shuffle = FALSE, !.loaded = -1]

\* The critic is all that is trained.
CriticJob(asynchronous) ==
    [SyncJob EXCEPT !.async = asynchronous, !.num_rollout = 2, !.per_epoch = 0,
                    !.critic_train_only = TRUE, !.keep_old_actor = FALSE]

AllJobs == {SyncJob, AsyncJob, IntervalJob, CriticJob(FALSE), CriticJob(TRUE)}

\* train.py that saves after every rollout.
PlainJob ==
    [SyncJob EXCEPT !.num_rollout = 3, !.save_interval = 1, !.eval_interval = 0, !.per_epoch = 0,
                    !.use_critic = FALSE, !.num_critic_only = 0, !.over_sampling = 1,
                    !.keep_old_actor = FALSE]
PlainJobs == {PlainJob}

\* The same with --keep-old-actor.
KeepingJobs == {[PlainJob EXCEPT !.keep_old_actor = TRUE]}
=============================================================================
