---------------------------- MODULE WeightUpdate ----------------------------
(***************************************************************************)
(* update_weights of slime/backends/megatron_utils/update_weight, from the *)
(* call on the trainer's ranks to the engines, with the requests that are  *)
(* there when it begins or arrive meanwhile.                               *)
(*                                                                         *)
(* A rank is the source rank of a pipeline stage: the others only take     *)
(* part in gathers and barriers.  With UpdateWeightFromDistributed each    *)
(* rank broadcasts its own buckets to all engines, one rank at a time (the *)
(* Lock of slime/ray/utils.py).  With UpdateWeightFromTensor every chunk   *)
(* holds the parameters of all stages: one rank stands for the senders.    *)
(* A part of the model is what one bucket holds.  The engine's side is the *)
(* vendored SGLang server.  Mut<Name> is a plausible bug in Name.          *)
(***************************************************************************)
EXTENDS Integers, Sequences, FiniteSets

CONSTANTS
    Engine, Request,
    NumStages,    \* pipeline stages of the trainer
    NumBuckets,   \* buckets of one stage and kind of parameters
    Jobs,         \* the jobs to look at
    MaxUpdates    \* bound: calls of update_weights

ASSUME UpdateAssumption ==
    /\ {NumStages, NumBuckets} \subseteq Nat \ {0} /\ MaxUpdates \in Nat
    /\ Jobs \subseteq [fromTensor : BOOLEAN, overlap : BOOLEAN]

VARIABLES
    job,
    stage,      \* the part of update_weights between two barriers
    rank,       \* where each rank is in it
    left,       \* buckets it has still to send
    coming,     \* engines that its calls have not reached yet
    locked,     \* Lock._locked
    version,    \* weight_version
    mode,       \* generation at each engine: open, pausing, paused
    inbox,      \* weight update calls at each engine, by their rank
    part,       \* the version of each part of an engine's weights
    cache,      \* the versions that its KV cache was computed with
    req,        \* where each request is: out, waiting, tokenizing, scheduled
    at,         \* its engine
    used,       \* the versions its answer has been computed with so far
    aborted     \* requests whose abort has reached the scheduler

trainerVars == <<stage, rank, left, coming, locked, version>>
modelVars   == <<inbox, part, cache>>
requestVars == <<req, at, used, aborted>>
vars == <<job, trainerVars, mode, modelVars, requestVars>>

FromTensor == job.fromTensor    \* UpdateWeightFromTensor
Overlap    == job.overlap       \* requests go on during an update (fully_async)

Rank    == IF FromTensor THEN {0} ELSE 0..(NumStages - 1)
Kind    == IF FromTensor THEN {"dense"} ELSE {"dense", "expert"}
Part    == Rank \X Kind \X (1..NumBuckets)
Version == 0..MaxUpdates

At(e)        == {r \in Request : at[r] = e}
Scheduled(e) == {r \in At(e) : req[r] = "scheduled"}
Readers(e)   == {r \in At(e) : req[r] \in {"tokenizing", "scheduled"}}  \* of model_update_lock
Versions(e)  == {part[e][k] : k \in Part}
Writer(e)    == inbox[e] # <<>> /\ mode[e] = "open"     \* waits for the lock or has it

Init ==
    /\ job \in Jobs
    /\ stage = "idle" /\ rank = [p \in Rank |-> "barrier"]
    /\ left = [p \in Rank |-> 0] /\ coming = [p \in Rank |-> {}]
    /\ locked = FALSE /\ version = 0
    /\ mode = [e \in Engine |-> "open"] /\ inbox = [e \in Engine |-> <<>>]
    /\ part = [e \in Engine |-> [k \in Part |-> 0]] /\ cache = [e \in Engine |-> {}]
    /\ req = [r \in Request |-> "out"] /\ at \in [Request -> Engine]
    /\ used = [r \in Request |-> {}] /\ aborted = {}

-----------------------------------------------------------------------------
\* The trainer.

\* The driver calls update_weights; without Overlap every answer is there by then.
Begin ==
    /\ stage = "idle" /\ version < MaxUpdates
    /\ Overlap \/ \A r \in Request : req[r] = "out"
    /\ stage' = "pause" /\ version' = version + 1
    /\ rank' = [p \in Rank |-> IF p = 0 THEN "pause" ELSE "barrier"]
    /\ UNCHANGED <<job, left, coming, locked, mode, modelVars, requestVars>>

Pause ==
    /\ rank[0] = "pause"
    /\ rank' = [rank EXCEPT ![0] = "flush"]
    /\ mode' = [e \in Engine |-> "pausing"]
    /\ UNCHANGED <<job, stage, left, coming, locked, version, modelVars, requestVars>>

\* The engines have answered.  flush_cache is tried up to 60 times while requests are pending:
\* pause_generation returns when none is, so that it succeeds at once and never times out.
MutFlushed(e) == cache[e]
Flushed(e)    == {}

Flush ==
    /\ rank[0] = "flush"
    /\ \A e \in Engine : mode[e] = "paused" /\ Scheduled(e) = {}
    /\ rank' = [rank EXCEPT ![0] = "barrier"]
    /\ cache' = [e \in Engine |-> Flushed(e)]
    /\ UNCHANGED <<job, stage, left, coming, locked, version, mode, inbox, part, requestVars>>

\* The four barriers.
Following ==
    CASE stage = "pause"  -> "dense"
      [] stage = "dense"  -> IF FromTensor THEN "resume" ELSE "expert"
      [] stage = "expert" -> "resume"
      [] stage = "resume" -> "idle"

Work(s, p) == IF s \in {"dense", "expert"} THEN "lock"
              ELSE IF s = "resume" /\ p = 0 THEN "resume" ELSE "barrier"

AtBarrier == \A p \in Rank : rank[p] = "barrier"

Barrier ==
    /\ stage # "idle" /\ AtBarrier
    /\ stage' = Following
    /\ rank' = [p \in Rank |-> Work(stage', p)]
    /\ left' = [p \in Rank |-> IF stage' \in {"dense", "expert"} THEN NumBuckets ELSE 0]
    /\ UNCHANGED <<job, coming, locked, version, mode, modelVars, requestVars>>

\* A refused acquire is tried again.
MutMayAcquire == TRUE
MayAcquire    == FromTensor \/ ~locked

Acquire(p) ==
    /\ rank[p] = "lock" /\ MayAcquire
    /\ rank' = [rank EXCEPT ![p] = "send"] /\ locked' = ~FromTensor
    /\ coming' = [coming EXCEPT ![p] = Engine]
    /\ UNCHANGED <<job, stage, left, version, mode, modelVars, requestVars>>

\* The remote calls of update_weights_from_distributed reach the engines in any order.
Arrive(p, e) ==
    /\ rank[p] = "send" /\ e \in coming[p]
    /\ coming' = [coming EXCEPT ![p] = @ \ {e}]
    /\ inbox' = [inbox EXCEPT ![e] = Append(@, p)]
    /\ UNCHANGED <<job, stage, rank, left, locked, version, mode, part, cache, requestVars>>

\* The broadcast: rank p and every engine, whose scheduler is at p's call.  An engine
\* that is not paused takes the writer lock first.  With FromTensor the sender waits for the
\* calls of a chunk at all engines, which are one step here too.
Load(p) ==
    /\ rank[p] = "send"
    /\ \A e \in Engine : /\ inbox[e] # <<>> /\ Head(inbox[e]) = p
                         /\ mode[e] = "open" => Readers(e) = {}
    /\ part' = [e \in Engine |->
                  [k \in Part |-> IF k = <<p, stage, left[p]>> THEN version ELSE part[e][k]]]
    /\ inbox' = [e \in Engine |-> Tail(inbox[e])]
    /\ rank' = [rank EXCEPT ![p] = "release"]
    /\ UNCHANGED <<job, stage, left, coming, locked, version, mode, cache, requestVars>>

\* release asserts that the lock is held.
MutMore(p) == left[p] > 0       \* one bucket too many
More(p)    == left[p] > 1

Release(p) ==
    /\ rank[p] = "release"
    /\ FromTensor \/ locked
    /\ locked' = FALSE
    /\ left' = [left EXCEPT ![p] = @ - 1]
    /\ rank' = [rank EXCEPT ![p] = IF More(p) THEN "lock" ELSE "barrier"]
    /\ UNCHANGED <<job, stage, coming, version, mode, modelVars, requestVars>>

Continue ==
    /\ rank[0] = "resume"
    /\ rank' = [rank EXCEPT ![0] = "barrier"]
    /\ mode' = [e \in Engine |-> "open"]
    /\ UNCHANGED <<job, stage, left, coming, locked, version, modelVars, requestVars>>

-----------------------------------------------------------------------------
\* The engine.

\* One round of pause_generation: abort what the scheduler has, and return when no
\* request holds the lock; one that is still being tokenized needs another round.
MutQuiet(e) == \A r \in At(e) : req[r] = "out"     \* counts those that wait for the end
Quiet(e)    == Readers(e) = {}

AbortAll(e) ==
    /\ mode[e] = "pausing"
    /\ aborted' = aborted \cup Scheduled(e)
    /\ mode' = IF Quiet(e) THEN [mode EXCEPT ![e] = "paused"] ELSE mode
    /\ UNCHANGED <<job, trainerVars, modelVars, req, at, used>>

\* A request of the rollout arrives at an engine.
Post(r, e) ==
    /\ req[r] = "out"
    /\ Overlap \/ stage = "idle"
    /\ req' = [req EXCEPT ![r] = "waiting"] /\ at' = [at EXCEPT ![r] = e]
    /\ UNCHANGED <<job, trainerVars, mode, modelVars, used, aborted>>

\* generate_request: not paused, and no writer at the lock.
Admit(r) ==
    /\ req[r] = "waiting" /\ mode[at[r]] = "open" /\ ~Writer(at[r])
    /\ req' = [req EXCEPT ![r] = "tokenizing"]
    /\ UNCHANGED <<job, trainerVars, mode, modelVars, at, used, aborted>>

\* The scheduler takes it; a prefix of its prompt may be in the cache.
Schedule(r) ==
    /\ req[r] = "tokenizing"
    /\ req' = [req EXCEPT ![r] = "scheduled"]
    /\ \E hit \in SUBSET cache[at[r]] : used' = [used EXCEPT ![r] = hit]
    /\ UNCHANGED <<job, trainerVars, mode, modelVars, at, aborted>>

\* A token, whose keys and values the cache may keep.
Token(r) ==
    /\ req[r] = "scheduled" /\ r \notin aborted
    /\ used' = [used EXCEPT ![r] = @ \cup Versions(at[r])]
    /\ cache' = [cache EXCEPT ![at[r]] = @ \cup used'[r]]
    /\ UNCHANGED <<job, trainerVars, mode, inbox, part, req, at, aborted>>

\* It ends by itself or aborted, and releases the lock.
Finish(r) ==
    /\ req[r] = "scheduled" /\ (r \in aborted \/ used[r] # {})
    /\ req' = [req EXCEPT ![r] = "out"]
    /\ used' = [used EXCEPT ![r] = {}] /\ aborted' = aborted \ {r}
    /\ UNCHANGED <<job, trainerVars, mode, modelVars, at>>

-----------------------------------------------------------------------------
RankStep(p)  == Acquire(p) \/ Load(p) \/ Release(p) \/ \E e \in Engine : Arrive(p, e)
TrainerStep  == Pause \/ Flush \/ Barrier \/ Continue \/ \E p \in Rank : RankStep(p)
RequestStep(r) == Admit(r) \/ Schedule(r) \/ Finish(r)

Next == \/ Begin \/ TrainerStep
        \/ \E e \in Engine : AbortAll(e) \/ \E r \in Request : Post(r, e)
        \/ \E r \in Request : RequestStep(r) \/ Token(r)

Spec == Init /\ [][Next]_vars

\* Ranks, engines and requests go on; no update and no request has to begin.
FairSpec ==
    /\ Spec /\ WF_vars(TrainerStep)
    /\ \A e \in Engine : WF_vars(AbortAll(e))
    /\ \A r \in Request : WF_vars(Token(r)) /\ WF_vars(RequestStep(r))

-----------------------------------------------------------------------------
TypeOK ==
    /\ job \in Jobs
    /\ stage \in {"idle", "pause", "dense", "expert", "resume"}
    /\ rank \in [Rank -> {"pause", "flush", "lock", "send", "release", "resume", "barrier"}]
    /\ left \in [Rank -> 0..NumBuckets] /\ coming \in [Rank -> SUBSET Engine]
    /\ locked \in BOOLEAN /\ version \in Version
    /\ mode \in [Engine -> {"open", "pausing", "paused"}]
    /\ inbox \in [Engine -> Seq(Rank)]
    /\ part \in [Engine -> [Part -> Version]] /\ cache \in [Engine -> SUBSET Version]
    /\ req \in [Request -> {"out", "waiting", "tokenizing", "scheduled"}]
    /\ at \in [Request -> Engine] /\ used \in [Request -> SUBSET Version]
    /\ aborted \subseteq Request

\* The calls of two ranks never stand in different orders at two engines, where each
\* engine would wait in a broadcast for the other (the deadlock the Lock prevents).
CallsAligned ==
    \A e, f \in Engine : inbox[e] # <<>> /\ inbox[f] # <<>> => Head(inbox[e]) = Head(inbox[f])

\* An update serves whole models: an engine has the next version when its last part
\* has arrived, and no answer mixes two versions, not even by a cached prefix.
Served(e) == CHOOSE v \in Versions(e) : \A w \in Versions(e) : v <= w

Atomic == INSTANCE AtomicModel WITH
    model <- [e \in Engine |-> Served(e)],
    drawn <- [r \in Request |-> [e \in Engine |-> IF e = at[r] THEN used[r] ELSE {}]]

KeepsAtomicModel == Atomic!AtomicSpec

\* An update that has begun ends, on all ranks and engines.
UpdateEnds ==
    stage # "idle" ~> stage = "idle" /\ \A e \in Engine : Versions(e) = {version}

\* Every request is answered, also one that a pause has aborted or kept waiting.
RequestsAnswered == \A r \in Request : req[r] # "out" ~> req[r] = "out"
=============================================================================
