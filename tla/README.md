# TLA+ models of slime

slime is a reinforcement-learning framework for language models: SGLang engines generate responses to
prompts, Megatron trains on them, and Ray actors move data and weights between the two. This directory
models the parts of `src/slime` where several activities interleave and the scheduling algorithms that
divide the data, states what makes them correct, checks it with TLC on small instances and proves the most
important of it with TLAPS for every instance. Paths below are relative to `src/slime/` unless they begin
with `src/`.

## 1. The system

| component | source | state | operations | interacts with |
|---|---|---|---|---|
| Rollout generation | `slime/rollout/sglang_rollout.py` | the singleton `GenerateState` (`remaining_batch_size`, `pendings`, `aborted`, semaphore), the batch, the status and reward of every sample | submit groups, collect and filter, abort, drain, reset; generate and score a sample | one event loop; draws from the data source, posts to engines over HTTP |
| Data source and buffer | `slime/rollout/data_source.py` | dataset position, epoch and order, group and sample counters, buffer of unfinished groups | `get_samples`, `add_samples`, `save`, `load` | called by rollout generation and by the rollout manager |
| Engine servers and rollout manager | `slime/ray/rollout.py` | engine actors by slot, `num_new_engines`, `rollout_id`, the offload flag of each group | generate, eval, save, load, offload, onload, recover, hand out engines, split training data | a Ray actor with one thread: its calls run one at a time; owns the monitor threads |
| Health monitor | `slime/utils/health_monitor.py` | pause event, `_need_first_wait`, where the round is | pause, resume, check, kill | threads in the rollout manager's process that write its engine list |
| Weight update on the trainer ranks | `slime/backends/megatron_utils/actor.py`, `.../update_weight/*.py` | connection to engines, weight version, position in the buckets | recover, connect, pause engines, push buckets, continue | every rank calls the rollout manager, the engines and the lock, and joins collectives |
| Ray lock | `slime/ray/utils.py` | `_locked` | acquire, release | serialises the broadcasts of the pipeline stages |
| Engine wrapper and engine | `slime/backends/sglang_utils/`, vendored SGLang under `src/sgl-workspace/` | pause flag, reader-writer lock, KV cache, weights | pause, flush, load a bucket, continue, answer a request | HTTP server in front of a scheduler process |
| Training drivers | `train.py`, `train_async.py` | `rollout_id`, futures | the training loop | call everything else |
| Placement and actor groups | `slime/ray/placement_group.py`, `actor_group.py` | `start_rollout_id` | start actors, choose where to begin, load the data source | called once by the driver |
| Model switching | `actor.py`, `slime/utils/tensor_backper.py`, `routing_replay.py`, `reloadable_process_group.py` | copies of the weights by tag, the live one, recorded routes, process groups | switch, backup, copy, record and replay, destroy and reload | inside the trainer ranks |
| Batching and balancing | `slime/utils/seqlen_balancing.py`, `slime/utils/data.py`, `.../megatron_utils/data.py`, end of `slime/ray/rollout.py` | partitions, numbers of micro-batches | trim, Karmarkar-Karp, first fit, agree, pack | from the rollout manager to all training ranks |
| Fully asynchronous rollout | `src/slime/examples/fully_async/fully_async_rollout.py` | worker thread, active tasks, output queue | submit, finish, put, collect a batch | an alternative rollout function of `train_async.py` |
| Sample life cycle | `slime/utils/types.py`, `generate` in `sglang_rollout.py` | tokens, loss mask, budget, metadata | append a partial answer, resume | rollout generation and conversion to training data |
| HTTP and async helpers | `slime/utils/http_utils.py`, `async_utils.py`, `misc.py` | retry counter, event-loop thread | post with retries, run a coroutine | rollout generation to engines |
| Rollout buffer plugin | `slime_plugins/rollout_buffer/` | groups by instance, temporary buffer | write, read, reset over HTTP, generator threads | an alternative data source |
| Arguments | `slime/utils/arguments.py` | none | checks on batch sizes, where to load from | assumptions of the models |

### What is hard

* **Interleaving.** Rollout generation is one event loop with many coroutines; an abort can fall between any
  two of their awaits. The monitor threads write the engine list while the manager's methods read it, and
  `pause()` only sets an event: it does not wait for the check or the kill under way. In the fully
  asynchronous rollout the worker thread and the rollout function share a queue and the data source.
* **Ordering.** The asynchronous driver trains on one rollout while the next is generated and must not change
  the weights under it; each rank of the trainer must see the same set of engines although rank 0 resets the
  counter that announces new ones; broadcasts of several pipeline stages must reach all engines in one order.
* **Stale state.** Partial groups outlive an abort and a rollout; KV caches outlive an update of the weights;
  the copies of the weights must be those the data came from; results wait in a queue over updates.
* **Failure.** Engines crash with the check, the kill, the recovery and the weight update at any point; jobs
  are started again from files; tasks of the asynchronous rollout raise.
* **Boundaries.** Several groups finish at once, with less room in the batch; batches span two epochs; the
  queue is full; a rank has no more samples than micro-batches.

`PROJECT.json` lists each hazard at its line with the properties that cover it, or why none does.

## 2. Modules

| module | models |
|---|---|
| `GroupLedger.tla` | abstract specification: what rollout generation promises about prompt groups |
| `RolloutGeneration.tla` | rollout generation with buffer, abort, partial rollout and group rewards; refines `GroupLedger` |
| `FaultTolerance.tla` | monitors, recovery, memory hand-over, ranks of the weight update, loop of `train.py` |
| `AtomicModel.tla` | abstract specification: what a weight update promises to the requests of a rollout |
| `WeightUpdate.tla` | `update_weights` from the trainer's ranks to the engines, with requests that go on; refines `AtomicModel` |
| `TrainingDriver.tla` | both drivers, the manager's call queue, models and weight copies, dataset position, files, restarts |
| `FullyAsync.tla` | the fully asynchronous rollout: worker, tasks, queue, rollout function, updates between its calls |
| `TrainData.tla` | from the samples of a rollout to the micro-batches of the ranks |
| `MC*.tla` | the instances for TLC: jobs and layouts as records |
| `*Proofs.tla` | the theorems about `RolloutGeneration`, `FaultTolerance`, `WeightUpdate`, `TrainingDriver`, `FullyAsync`, `TrainData` (two modules: `TrainDataProofs` about one division, `ScheduleProofs` about the schedule made of them) |
| `CountingLemmas.tla` | what the proofs about schedules need of numbers, sums and finite sets |

The modules look at the same loop at different depths. `RolloutGeneration` is the inside of one `generate`
call; `FaultTolerance` takes that call as one state in which engines may crash and monitors run;
`TrainingDriver` takes it as an entry of the manager's queue that reads prompts; `TrainData` is the end of it
and the beginning of `train`. `FaultTolerance` and `TrainingDriver` have the push of the weights as one step;
`WeightUpdate` is the inside of it. What one assumes of another is a property there: `QuiescentWhenIdle` (no
request is left at an engine when `generate` returns) is what lets `FaultTolerance` offload engines right
after; `UpdatesAlone` (no update falls into a generation) is why the jobs of `WeightUpdate` without `overlap`
begin with all requests answered; `RanksAgree` is why `WeightUpdate` has one set of engines for all ranks;
`UpdateEnds` and `KeepsAtomicModel` are what lets `TrainingDriver` keep one version for all engines.

The arguments of a run that are not sizes are a record chosen in `Init` (`job`, `args`, `layout`), so that one
run covers several configurations. In each module a definition `Mut<Name>` is a plausible bug in `<Name>`. No
specification uses it; with it in place of the original some property fails, which shows that the property
can tell the difference (`mutants` in `PROJECT.json`).

### 2.1 RolloutGeneration

State: `remaining`, `pendings`, `aborted` are the fields of `GenerateState`; `fresh` and `buffer` are
`sample_group_index` and `buffer` of the data source; `data` and `abortedSamples` are the locals of
`generate_rollout_async` and `abort`; `status`, `reward` and `pc` describe each sample and its coroutine,
`gtask` each group's task. `dropped`, `surplus`, `discarded` and `trained` record where groups have gone.
`partialRollout` is the argument, with either value.

An action is the code between two awaits. `Fetch` is the inner `while` with `get_samples` and
`submit_generate_tasks`; `Collect` the body after `asyncio.wait`: any set of finished tasks is returned, the
filter keeps any of them, the batch takes as many as it has room for. `Abort` and `SendAbort` set the flag and
tell the engines; `Drain` waits for each pending task and hands its group back with partial rollout;
`FinishRollout` resets the state and returns unfinished groups to the buffer. `StartGroup`, `JoinGroup`,
`ScoreGroup` are `generate_and_rm_group`; `Acquire`, `Reply`, `Score` are `generate_and_rm` around its
semaphore, its request and its reward. `Reply` chooses the outcome: completed, truncated, or aborted once the
abort was sent - but a request may also complete by itself after that.

Left out: tokens and texts, `eval_rollout`, custom generate functions that return lists, tracing and
metrics. `get_samples` gives as many groups as asked for, which is the case when the dataset is not smaller
than a batch (`TrainingDriver` has the other case in `NextEpoch`).

### 2.2 FaultTolerance

State: `present` (slots of `all_engines` that are not `None`), `alive` (processes that work), `mem` and
`current` (what each engine holds), `numNew`, `dead`, `todo` (variables of `recover`), `rank`, `seen`,
`connected` (each trainer rank in `update_weights`), `monitor`, `index`, `killing` (each monitor thread),
`paused` and `needWait` (its event and flag). The driver's steps are the remote calls of `train.py`'s loop in
order, with `recover` cut where it reads the dead slots, starts each group and hands memory over, since
monitors may run in between. A call on a crashed engine raises and the driver dies (`Go`). A check that raises for any
reason stops the engine: `CheckFails` happens to engines that are down and to engines that work and answer too
late. `generate` has three steps. `Answered`: all requests the rollout needs have come back, from `Answering`, the
listed engines of the updatable server that work. `GenerateEnds`: the rollout has aborted the rest and returned.
`RequestsFail`: with no such engine left, a request is given up after its 60 tries (`_post` in `http_utils.py`),
the exception goes through the rollout function, `generate` and `ray.get`, and the driver dies before it reaches
recovery. The same can happen in `eval`.

A layout says which groups belong to the server that gets weights and which are offloaded, and makes two
timing assumptions that are not guards of the code. `PauseIsJoin`: a check or a kill that was under way when
`pause()` is called ends before the caller goes on. `CrashesSeen`: engines crash while they generate and a
monitor sees it before the rollout ends. A property or a run either states that it needs them or shows what
happens without. They are usual in practice (a rollout takes much longer than the check interval), but nothing in
the code enforces them: a check may take as long as its timeout, and requests have none (`httpx.Timeout(None)`),
so that a rollout waits for an engine that hangs until its monitor has killed it.

Also assumed: as long as an updatable engine works, the router sends some try of each request to it; an abort that
a dead engine does not answer is only logged (`gather(..., return_exceptions=True)`).

Left out: `shutdown()` that raises in `_kill_engine` (the process is taken to be gone after `ray.kill` in any
case, although the server it started may be left behind), the branch of `recover` for servers without weight updates (lines 299-300, unreachable from
`recover_updatable_engines`), port allocation, and the
distinction of prefill and decode groups.

### 2.3 WeightUpdate

State: `stage` and `rank` are the part of `update_weights` between two barriers and where each source rank is
in it; `left` and `coming` are the buckets it still has and the engines its remote calls have not reached;
`locked` is `Lock._locked`. At each engine `mode` is the pause flag, `inbox` the weight calls its scheduler
has in the order they arrived, `part` the version of each part of the weights, `cache` the versions its KV
cache was computed with. `req`, `at`, `used` and `aborted` describe the requests.

`Pause`, `Flush`, `Barrier`, `Acquire`, `Arrive`, `Load`, `Release` and `Continue` follow
`update_weights_from_distributed`: dense buckets, then expert ones, a barrier between. A broadcast (`Load`) is
a collective of one rank and all engines: it happens only if the call of that rank is first at each of them.
With `fromTensor` one rank stands for the senders of `update_weights_from_tensor`, whose chunks hold
parameters of all stages. `overlap` is the fully asynchronous mode, in which requests go on.

The engine's side is vendored SGLang (`tokenizer_manager.py`, `aio_rwlock.py`): `pause_generation` aborts until
no request holds the reader lock (`AbortAll`), a request waits while the server is paused and while a writer
waits for the lock (`Admit`), is tokenized, scheduled with any part of the cache as its prefix, and computes
tokens with the weights there are.

`flush_cache` raises a `TimeoutError` when requests are still pending after 60 tries. `Flush` has no such outcome,
as `pause_generation` has returned by then, and it returns only when no request is pending.

Left out: engines on the GPUs of a critic beyond those of the actor (with `--colocate` they are offloaded, and
flushed, after every rollout), gathers within a stage, the conversion to Hugging Face names, quantisation hooks,
IPC handles, and broadcasts that raise (the lock stays taken and the job ends with the exception).

### 2.4 TrainingDriver

State: `driver`, `rid`, `next`, `data` are the driver's position and its `rollout_id`,
`rollout_data_next_future` and `rollout_data_curr_ref` (in `train.py`, `rollout_data_ref`). `calls` is the
queue of the rollout manager, whose first call is executed when `running`. `made` records the weights with
which each rollout began to be generated. `pos` and `saved` are the data source and its files. `weights`
holds versions: the live parameters of the actor, its copies `actor`, `old_actor` and `rollout_actor`, the
critic's parameters, the weights of the engines. `job` is where each model is in its `train` call, `update`
where the trainer is in `update_weights`.

`args.async` chooses the driver. A wait for a Ray future is a guard that its call is no longer in the queue.
The trainer's request for the engines goes through the same queue (`Engines`), as in the code. `Crash` loses
everything but the files; the next job begins with `Start`. Since the call that would write a model
checkpoint is commented out (`actor.py:536`), a job always begins from the checkpoint in `--load` (`Loaded`,
or none), with that checkpoint's dataset file, in a directory that may contain the files saved by earlier jobs.

Left out: offloading (in `FaultTolerance`), the reference and teacher copies (restored and overwritten within one
`train_actor`), the comparison of weights after the first update, and the evaluation of a job with
`--num-rollout 0`.

### 2.5 FullyAsync

State: `task` is `active_tasks`, `callbacks` the done tasks whose callback has not returned, `queue` the output
queue, `stuck` says that a callback waits in `put` and with it the event loop of the worker thread; `call`,
`completed` and `data` are the rollout function and its locals; `buffer` is the data source's buffer.
`result`, `waited` and `late` record how the task of each group ended, how many updates ago, and whether its
callback had to wait over one. `Submit` is a pass of the worker's loop; `Finish` and `Fail` end a task; `Put` and `Block` are
the callback; `Begin`, `Get`, `Empty`, `Process`, `Again`, `Return` the rollout function; `Update` is what
`train_async.py` does between two of its calls, which aborts the groups at the engines.

A group is a number that is used again once its group was trained on or got lost. `waited` is the time of one
result. It says nothing about the age of tokens: a group that was aborted keeps the samples it has completed and,
with partial rollout, the beginnings of the others (`sglang_rollout.py:229-233`), and may go through the buffer any
number of times. Left out: the age of what is kept, a race of the two threads within one call of the data source
(`Submit` and `Process` are single steps), stopping the worker at exit, warnings.

### 2.6 TrainData

`Trim`, `Split` and `SplitEnd` are the end of `_get_rollout_data` and `_split_train_data_by_dp`; `Iterate` is
`get_data_iterator` as far as it agrees on the number of micro-batches, `Pack` and `PackEnd` its packing, rank
by rank and step by step. `heap` is `states_pq` of Karmarkar and Karp's differencing: `Merge` pops the two
first states and pushes their join. With `equal_size` (the division over the ranks) the states begin as chunks of
the samples in `Ascending` order of length, otherwise (the packing) as single samples. A sample is its position in
the rollout and has a length; where the code breaks the last ties on lists of indices, the model chooses freely.
First fit is a fold over the samples, in the order of the rows; `Fill` puts one more into the first batch with room.

`phase = "failed"` is an assertion of the code that fails: there are enough samples for the parts, a division into
equal sizes comes out even, no part is empty and all parts together hold every sample (`Divides`), and the micro-batches
of a rank hold all its rows (`EachRowPacked`). `"raised"` is the `ValueError` for too few samples. `JobsAssumption` has
what Megatron asserts of the arguments, that `global_batch_size` is a multiple of `micro_batch_size` times the number
of data parallel ranks.

Left out: jobs without trimming (`--disable-rollout-trim-samples`, `--debug-rollout-only`) or with samples read from
a file (`--load-debug-rollout-data`), where nothing makes the number of samples divide and the assertions may fail;
`greedy_partition` and the reverse index, which nothing calls, context parallel slicing, logging.

## 3. Runs

| run | configuration | checks | distinct states |
|---|---|---|---|
| `rollout_partial` | 3 rollouts, batch 1 of 2 fetched, 1 sample per group, with and without partial rollout, 2 rejections | `TypeOK`, `WaitNeverEmpty`, `ExactBatch`, `GroupsConserved`, `BatchScored`, `ResumedScored`, `QuiescentWhenIdle`, `KeepsLedger` | 2,922,886 |
| `rollout_group_rm` | 2 rollouts, groups of 2 samples scored together | `BatchScored`, `RolloutEnds` | 538,988 |
| `fault_tolerance` | 2 groups of one engine on 2 nodes, 2 ranks, 2 faults (a crash, or a check that times out on an engine that works); layouts: two updatable groups colocated, two disaggregated with crashes at any moment, one colocated beside a frozen server with crashes not seen | `TypeOK`, `ServesCurrent`, `RanksAgree`, `MemoryPhases`, `ChecksOnboard`, `JobSurvives`, `NumNewMatches`, `FailsOnlyUnseen`, `UpdatableRestarted` | 657,676 |
| `weight_update` | 2 stages of 2 dense and 2 expert buckets, 2 engines, 2 requests, 2 updates; distributed with overlap, and colocated | `TypeOK`, `CallsAligned`, `KeepsAtomicModel`, `UpdateEnds`, `RequestsAnswered` | 10,324 |
| `driver` | five jobs: `train.py` with a critic, `train_async.py` with an update after every and after every second rollout, with a checkpoint to load, all three with `--keep-old-actor`, and both with the critic alone; 2 restarts | `TypeOK`, `TrainsEachOnce`, `UpdatesAlone`, `BoundedStaleness`, `OldActorNear`, `PromptsOncePerEpoch`, `BeginsAtCheckpoint`, `AllTrained` | 149,782 |
| `fully_async` | batches of 2, queue of 2, 4 groups, 1 task that raises | `TypeOK`, `OneOwner`, `ResultsTakenSoon`, `CallEnds` | 1,394,312 |
| `train_data` | eight jobs: rollouts of up to 8 samples of all lengths up to 3, 2 or 3 ranks, balanced or strided, 1 to 3 steps, by length or of fixed size | `TypeOK`, `AssertionsHold`, `Balanced`, `ScheduleComplete` | 249,591 |

What they show. Rollout generation loses no group and trains on none twice, through filtering, aborts and
resumption; what it returns is exactly one full, scored batch; its loop never waits for nothing; it leaves
nothing behind. Engines of the updatable server that crash, or are stopped for answering too late, are restarted and
serve only with the current weights; with the timing assumptions the driver dies only when a rollout or an
evaluation loses every updatable engine while it has requests out; all ranks connect to the same engines before a collective; the memory shared with the trainer is
free when it trains. An update of the weights is atomic to the requests: each answer, cached prefixes
included, comes from one version of the model, broadcasts never cross, updates end and requests are answered.
Both drivers train each model on every rollout once, on its own data, never change weights during a
generation, and the age of the data is at most the update interval; the copy `--keep-old-actor` measures against is
the rollout's model in `train_async.py` with an update after every rollout, and near it otherwise. The dataset is read evenly across epochs
and restarts. The asynchronous rollout has every group in one place, its batches are complete, a result waits over
at most two updates before a batch has it, and its calls end although the worker may stand still. The division of the training data
balances as it says, no assertion fails, all ranks run equally many micro-batches and every sample is trained
once.

### Bounds

Bounds limit how often things happen: `MaxRollouts`, `MaxDrops`, `MaxGroup` (rollouts, rejections, groups),
`MaxCrashes` (job crashes), `MaxFaults` (engine crashes and
late checks), `MaxFetches` (reads of the dataset per rollout), `MaxUpdates`,
`MaxFails`, `MaxWaited` (where the count of updates stops; it is above what the property allows). Three rollouts
are enough for a group to be aborted in one, stopped again in the next and trained on in the third; a batch
with less room than finished tasks needs over-sampling by one; a loop that waits for nothing needs two
rejections, all the groups of one fetch. Two engine crashes are enough for one to fall in another one's
recovery or to take every engine of a rollout, two nodes for a partial kill, two ranks for a reset between two readings, two stages and two engines for calls that cross, two updates
for a cache that survives one. Five rollouts cover two full rounds of an update interval of two; three prompts
in batches of up to two make batches span epochs. A queue of two places is full with one batch. The lengths
of `train_data` are few but all combinations of them are tried. `MaxGroup` of `RolloutGeneration` is large
enough never to be the reason a rollout cannot fetch (`EnoughGroups`).

### Fairness

`RolloutEnds`: weak fairness of `RolloutStep` as a whole: the event loop runs what is ready, and when only
requests are left an engine answers one. Together with boundedly many rejections that is enough, because every
other step makes progress; a filter that rejects everything makes the real loop run for ever too.
`UpdatableRestarted`: the driver and each monitor thread run; nothing forces a crash or an evaluation. It makes an
exception for the engine whose loss leaves a rollout without any: the driver may then die of its requests.
`UpdateEnds`, `RequestsAnswered`: the ranks, each engine's pause loop and each request go on; no update and no
request has to begin. `AllTrained`: the driver, the manager, the trainer run, and a rollout gets its samples,
which is `RolloutEnds`. `CallEnds`: the worker's loop, the callback when the queue has room, the rollout
function and each generation go on.

The runs of `TrainingDriver` and `TrainData` switch deadlock checking off because a finished job, or a rollout
that has been divided, stops; that a job does not stop earlier is `AllTrained`. The other modules keep deadlock checking on: their final states (`Stopped`
when all rollouts are done, `Failed` when the driver has died) stutter explicitly, or they have none.

## 4. Disagreements with documentation, comments and assertions

Each is a run that expects a violation; `PROJECT.json` quotes the lines.

| run | property | what happens |
|---|---|---|
| `fault_assertion` | `NumNewMatches` | a kill that was in flight when `recover` paused the monitors empties a slot after the dead ones were counted: the assertion at `slime/ray/rollout.py:293` fails and ends the job |
| `driver_old_actor` | `OldActorIsRolloutModel` | `--keep-old-actor` should keep the rollout model (`slime/utils/arguments.py:440`); in `train.py` the copy is one training step older than the model that generated |
| `driver_resume` | `ResumesFromSave` | nothing writes a model checkpoint, so a job with `--load` set to `--save` begins again at rollout 0, against `docs/en/get_started/qa.md:34` |
| `train_tokens` | `MicroBatchFits` | first fit finds a number of micro-batches, Karmarkar-Karp packs them without a limit: one may hold more than `max_tokens_per_gpu` |
| `train_rows` | `RowsAligned` | `logits_masks` come whole to every rank and are not re-indexed: a rank trains with the masks of another rank's samples |

## 5. Proofs

All theorems hold for every value of the constants that satisfies the named assumptions of the modules
(sizes are positive integers; records have their fields). Each module proves one inductive invariant `IInv`:
`Init => IInv`, one lemma per action for `IInv /\ [Next]_vars => IInv'`, and the theorems from it.

| module | theorem | property |
|---|---|---|
| `RolloutGenerationProofs` | `TypeCorrect` | `TypeOK` |
| | `NoGroupLostOrTwice` | `GroupsConserved` |
| | `NeverWaitsForNothing` | `WaitNeverEmpty` |
| | `BatchIsExact` | `ExactBatch` |
| | `BatchIsScored` | `BatchScored` |
| | `ResumedIsScored` | `ResumedScored` |
| | `IdleIsQuiescent` | `QuiescentWhenIdle` |
| | `ImplementsLedger` | `KeepsLedger` (refinement) |
| `FaultToleranceProofs` | `TypeCorrect` | `TypeOK` |
| | `CurrentWeights` | `ServesCurrent` |
| | `SameEngines` | `RanksAgree` |
| | `MemoryHandedOver` | `MemoryPhases` |
| | `RecoverCounts` | `NumNewMatches`, under `PauseIsJoin` |
| | `ChecksReady` | `ChecksOnboard` (its premise is `PauseIsJoin`) |
| | `FailsUnseen` | `FailsOnlyUnseen` (its premise is `PauseIsJoin`) |
| | `SurvivesCrashes` | `JobSurvives` (its premise names both timing assumptions) |
| `WeightUpdateProofs` | `TypeCorrect` | `TypeOK` |
| | `BroadcastsAligned` | `CallsAligned` |
| | `UpdatesWhole` | `KeepsAtomicModel` (refinement) |
| `TrainingDriverProofs` | `TypeCorrect` | `TypeOK` |
| | `TrainsOnce` | `TrainsEachOnce` |
| | `UpdatesNothingElse` | `UpdatesAlone` |
| | `Staleness` | `BoundedStaleness` |
| | `BeginsWhereLoaded` | `BeginsAtCheckpoint` |
| | `OldActor` | `OldActorNear` |
| | `PromptsOnce` | `PromptsOncePerEpoch`, for batches not larger than the dataset |
| `FullyAsyncProofs` | `TypeCorrect` | `TypeOK` |
| | `OnePlace` | `OneOwner` |
| | `TakenSoon` | `ResultsTakenSoon` |
| `TrainDataProofs` | `DivisionIsBalanced` | `Balanced` |
| | `NoPartitionIsEmpty` | the part of `AssertionsHold` about empty partitions |
| `ScheduleProofs` | `NoAssertionFails` | `AssertionsHold` |
| | `TypeCorrect` | `TypeOK`, if fixed micro-batches fit (`FixedSizes`) |
| | `ScheduleIsComplete` | `ScheduleComplete`, if fixed micro-batches fit |
| | `RowsAlignedAtOneRank` | `RowsAligned`, with one data parallel rank |
| | `OverrunIsBounded` | none of a run: a micro-batch exceeds the token limit by at most one sample |

**Rollout generation.** `IInv == TypeOK /\ GroupsConserved /\ Counted`. Neither `WaitNeverEmpty` nor
`ExactBatch` is inductive: both depend on what `remaining` counts. `Counted` says it: in the collect phase
`remaining` is the number of pending tasks plus the number of kept groups, the batch never exceeds its
target, and it is full afterwards. That sum is right only if pending and kept groups are different groups,
hence `GroupsConserved` is part of the invariant; a fetch adds exactly `OverSampling` groups only if the
buffer holds no group twice and none that is running. Lemmas about sequences (`AppendElements`,
`ConcatElements`, `PopElements`) say what the list operations do to the set of elements and to the absence
of repetitions, and the actions of samples and groups are dealt with by a frame lemma. `ImplementsLedger` maps
each action to `Start`, `Lose`, `Deliver` or a stutter of the ledger.

The three theorems about samples rest on a second invariant, `SInv`, over the places of the tasks in the code.
Only the samples of a group whose task runs are at work, and the task of such a group is one the loop still
waits for, so nothing is at work once the loop waits for nothing (`ActiveAwaited`, `IdleUnlessRunning`). While
the loop collects, nothing is aborted, so a request that came back is complete (`CollectSamples`) and a group
that finished has its rewards (`CollectGroups`): those are the groups it keeps. An abort may end a group
anywhere else; what holds then is `ScoredOrScoring`, that a complete sample has its reward or is being scored,
which is why a group handed back to the buffer can be resumed.

**Fault tolerance.** `IInv` says for each phase of the loop what holds of the engines: after a push all
updatable ones have the weights (`CurrentInv`); the ranks are connected alike outside an update, and inside
one either none connects or all do before the counter is cleared (`AgreeInv`); an offloaded engine of the list
holds what its phase says (`MemInv`). The last is the hard one: while groups are started an engine may hold
anything, and the hand-over afterwards only reaches engines with a slot in `dead`, although `start_engines`
fills every slot that is empty by then. It goes through because the assertion compares the two numbers: for a
group that is done there is a set of new slots that contains the dead ones and has `numNew` elements, so that
equal numbers make the sets equal (`FS_Subset` on finite sets). `RecoverCounts` needs `[]PauseIsJoin`, without which
it is refuted by `fault_assertion`. `ChecksReady` has the same premise in its property: the monitors are paused, and
none is checking, before memory is released (`CheckInv`).

`FailsUnseen` and `SurvivesCrashes` need an invariant of their own, `Survives`, which holds as long as the driver
lives if pauses wait. An engine of several nodes is stopped and started whole, unless its own monitor is in the
middle of it (`WholeInv`). After a restart the ranks are connected to the engines of the list, or `num_new_engines`
tells them to connect (`RanksInv`, `LinkedInv`), so that no rank pushes to an engine that is gone. From this, no step
of the driver fails while all listed engines work, but for requests that no engine answers (`WorkingSuffices`): that is
`FailsUnseen`. If crashes are seen as well, every listed engine works outside a rollout (`UpInv`): what crashes does so
in a rollout, and is off the list when the rollout ends. What is left is the rollout that has no engine to answer it.

**Weight update.** `IInv` says that one rank at a time is between acquire and release (`OneSender`), that the
flag says so (`LockHeld`), and that an engine has no call or that of the sender (`OneCall`). That a rank which
sends has buckets left (`SomeLeft`) keeps the count in its type.

`UpdatesWhole` says that each step of the update is `Publish`, `Compute`, `Answer` or a stutter of the abstract
model. Its invariant `ModelInv` says which buckets an engine has loaded at which place of `update_weights`: none
before the first barrier, all dense ones before the first expert one, all at the end (`PartInv`, which the barriers
make true); that from the flush to `continue_generation` nothing runs and nothing is cached at any engine
(`QuietInv`); and that answers and caches are of the version served (`OneVersion`). An engine counts as serving the
oldest version of its buckets, so that the `Load` of the last one publishes.

**Drivers.** `IInv` ties the queue of the manager to where the driver is (`QueueInv`): it holds nothing but the
calls the driver waits for and the rollout that `train_async.py` has started early, so that it is empty when an
update begins (`UpdatesNothingElse`). `DataInv` says where the data of the next rollout is: with the future, or in
the variable an early synchronisation has put it in. `TrainInv` counts the training steps; the two `if`s of
driver and critic count alike. For `Staleness` two things are needed: a rollout that was asked for and is running or
done was begun with the weights the engines still have (`MadeInv`), because no update happens before its data is
taken; and the engines are at most `rid % UpdateInterval` steps behind the actor (`AgeInv`, with the arithmetic in
`Intervals`), one more once the actor is trained. `FileInv` and `PromptInv` speak of the files: a restart replaces
the position by what an earlier job has written, and no job writes over the file the next one begins with.

`OldActor` says how `--keep-old-actor` rotates the copies (`RotateInv`): `rollout_actor` has the engines' weights,
and a push hands to `old_actor` those the engines had before, with which the next rollout was begun. The first
push, with no rollout before it, and the rollout started before the loop are the exceptions (`FirstPushInv`). That is
the first conjunct of `OldActorNear`, for `train_async.py` with an update after every rollout. In any other job
`LagInv` says how far the copies are apart: `rollout_actor` has the engines' weights and `old_actor` those of the push
before, one training step older, or `old_actor` has the engines' weights, which a rollout begun before the push lacks.
The unconditional `OldActorIsRolloutModel` is refuted by `driver_old_actor`.

**Fully asynchronous rollout.** `IInv` says that the six places of a group are disjoint and no sequence holds one
twice (`PlaceInv`), that running tasks and waiting callbacks are no more than a batch (`LimitInv`), and how long the
results of each place have waited (`SoonInv`). That none waits over two updates unless its callback had to is a matter
of counting (`CountInv`): a result that was there at an update has, in the queue, in the callbacks and among the
tasks before it, fewer than a batch of others, because the worker starts no task while a callback waits. So the
next call, which returns a whole batch, has taken it or dropped it. That holds for every size of the queue.

**Training data.** The sets of every state are sorted by weight and differ by at most one sample (`Good`): the
join of two such states, heaviest with lightest, has the same property, and sorting it does not change it. No
partition is empty because of the shape of all states: either no set is empty or no set has more than one
item, and joining two states keeps that. When one state is left in `k` sets that have at most one item each,
`k` samples in fewer sets contradict the pigeonhole principle (`Covered`).

`ScheduleProofs` follows the schedule from the trimming to the last packing. `Numbers`: whole steps are kept, so that
each rank has `Steps * perStep` rows (`StepsFacts`) and every step of every rank has `perStep` of them
(`SamplesFacts`). `Parted`: the ranks have disjoint parts of one size, which `Apart`, `Splitting` (no sample is in two
sets; together the states hold all samples, and within a state the sets have one size) carry through the merges. First fit
needs between one batch and as many as there are samples (`FirstFitBound`), so the number the ranks agree on, rounded or
not, is between 1 and `perStep` (`Agreed`): that is why `karmarkar_karp` is never entered with fewer samples than parts,
even for a rank whose own samples would fit into fewer micro-batches. `Progress` counts what has been packed: when
it is the turn of a step, the micro-batches of the rank are those of the steps before, and each of those steps is
complete (`Scheduled`). From this come `NoAssertionFails` and `ScheduleIsComplete`.

`TypeCorrect` and `ScheduleIsComplete` have a hypothesis. With a fixed `micro_batch_size` and
`use_dynamic_global_batch_size` the one step is made of all samples there are; the code does not check that a
rank's share is a multiple of the micro-batch, and if it is not, the remainder is silently not trained. `FixedSizes`
says that it is a multiple; with the two other ways to run (by tokens, or a given global batch size) it says nothing.

Two theorems limit what the runs `train_rows` and `train_tokens` refute. With one data parallel rank the masks are
those of the samples, because its part is the whole rollout in order (`RowsAlignedAtOneRank`). `OverrunIsBounded` says
how much memory to spare: a micro-batch has at most `max_tokens_per_gpu` (times `cp_size`), or the longest sample if
that is more, plus one sample; with a virtual pipeline of groups of `vpp` that limit counts `vpp` times. Its
invariant `OInv` says that sets know the sums of their items (`Summed`) and that the agreed numbers of
micro-batches are enough for what first fit put into each (`Roomy`); if one set of the last state were above the
bound, all of them would be above the average (`SetsLimited`). TLC has checked `OverrunBounded` and `OInv` on the
instances of `train_data` and `train_tokens`.

The prover cannot instantiate the induction theorems of its library, as they take an operator. `CountingLemmas` states
induction on sets of numbers instead (`Induction`, from the least element of the complement), and from it the
recursion a fold is defined by (`Recursion`), that sums do not depend on the order of addition (`AddsUpAnyOrder`), and
what else of sums, positions and slices the schedules need.

Only model-checked: the six liveness properties (`RolloutEnds`, `UpdatableRestarted`, `UpdateEnds`, `RequestsAnswered`,
`AllTrained`, `CallEnds`), as fairness and ENABLED are out of the prover's reach. Every other property of a passing run is
the statement of a theorem, under the hypotheses the table names.

## 6. Not modelled

* **Vendored code.** `src/Megatron-LM` and `src/sgl-workspace` are complete copies of Megatron-LM and SGLang,
  more than nine tenths of the lines of the repository. They are other projects with tensor kernels, model
  definitions and servers; only what the weight update calls in SGLang is modelled. The share of all lines that
  the models can cover is small for this reason.
* **Tensor computation** (`loss.py`, `ppo_utils.py`, `model.py`, converters): floating point, out of reach of TLC.
* **Reward and filter functions**: string matching; a free choice in the models.
* **`patch/`**: an experimental rollout for a board game. Its second rollout manager needs `args.patch`, which
  `train.py` sets to `False`.
* **Rollout buffer plugin**: a separate HTTP service with generators of its own; no driver calls it.
* **Start-up code**: GPU placement, ports, routers, argument parsing; sequential and without shared state.
* **Sample data**: tokens, masks and budgets of resumed samples; no control depends on them but the token
  count of a resumed request.
* **HTTP retries**: the tries of a request before it is answered or, after 60, given up (`RequestsFail` in
  `FaultTolerance`). A second copy at an engine takes time and changes no state of the rollout.
* **Untrimmed or loaded samples**: `--disable-rollout-trim-samples`, `--debug-rollout-only`,
  `--load-debug-rollout-data`. `AssertionsHold` says nothing of them.
* **The age of tokens** that an aborted group keeps.

## 7. Plan

What is left to model: token budgets and masks of resumed samples, and evaluation (`eval_rollout`), which shares the
semaphore of a rollout but runs alone. What is left to prove: the safety part of the liveness properties, that is, that
the steps which fairness makes happen decrease a measure.
