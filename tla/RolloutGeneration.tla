-------------------------- MODULE RolloutGeneration --------------------------
(***************************************************************************)
(* One rollout of slime/rollout/sglang_rollout.py and the prompt buffer of *)
(* slime/rollout/data_source.py it draws from.  generate_rollout_async     *)
(* keeps submitting groups of n_samples_per_prompt samples until           *)
(* rollout_batch_size groups pass the dynamic filter, aborts what is still *)
(* running, and (with partial_rollout) hands the unfinished groups back to *)
(* the buffer, from which a later rollout resumes them.                    *)
(*                                                                         *)
(* A group is named by its sample_group_index.  The program is one asyncio *)
(* event loop: an action is the code between two awaits, and the order of  *)
(* the awakenings is the nondeterminism.                                   *)
(*                                                                         *)
(* A definition Mut<Name> is a plausible bug in Name; no specification     *)
(* uses it.  It shows that the properties can tell the difference.         *)
(***************************************************************************)
EXTENDS Integers, Sequences, FiniteSets

CONSTANTS
    Target,          \* args.rollout_batch_size
    OverSampling,    \* args.over_sampling_batch_size
    NumSamples,      \* args.n_samples_per_prompt
    Concurrency,     \* permits of GenerateState.semaphore
    GroupRM,         \* args.group_rm
    HasFilter,       \* args.dynamic_sampling_filter_path is not None
    MaxRollouts,     \* bound: rollouts run by the driver
    MaxDrops,        \* bound: groups the dynamic filter rejects
    MaxGroup         \* bound: sample_group_index

ASSUME BatchAssumption ==
    /\ Target \in Nat \ {0}
    /\ OverSampling \in Nat
    /\ OverSampling >= Target          \* asserted in slime_validate_args
    /\ NumSamples \in Nat \ {0}
    /\ Concurrency \in Nat \ {0}
    /\ {GroupRM, HasFilter} \subseteq BOOLEAN

ASSUME BoundAssumption ==
    /\ MaxRollouts \in Nat
    /\ MaxDrops \in Nat
    /\ MaxGroup \in Nat

VARIABLES
    partialRollout,  \* args.partial_rollout, with either value
    phase,           \* where generate_rollout is: idle, collect, abort, drain
    rolloutId,       \* rollouts begun so far
    fresh,           \* RolloutDataSource.sample_group_index
    buffer,          \* RolloutDataSourceWithBuffer.buffer
    remaining,       \* GenerateState.remaining_batch_size
    pendings,        \* GenerateState.pendings, by the group of each task
    aborted,         \* GenerateState.aborted
    data,            \* the groups kept for training by this rollout
    abortedSamples,  \* the list abort() builds
    gtask,           \* progress of each group's task
    pc,              \* progress of each sample's coroutine
    status,          \* Sample.status
    reward,          \* Sample.reward is not None
    abortSent,       \* the engines have been told to abort_all
    dropped,         \* groups the dynamic filter rejected
    surplus,         \* groups kept by the filter after the batch was full
    discarded,       \* unfinished groups thrown away (no partial_rollout)
    trained          \* groups returned for training

sourceVars == <<fresh, buffer>>
stateVars  == <<remaining, pendings, aborted>>
localVars  == <<phase, rolloutId, data, abortedSamples, abortSent>>
taskVars   == <<gtask, pc, status, reward>>
lostVars   == <<dropped, surplus, discarded, trained>>
vars == <<partialRollout, sourceVars, stateVars, localVars, taskVars, lostVars>>

Group   == 1..MaxGroup
Sample  == Group \X (1..NumSamples)
SamplesOf(g) == {g} \X (1..NumSamples)
Elements(s) == {s[i] : i \in DOMAIN s}
MinOf(a, b) == IF a <= b THEN a ELSE b

Finished    == {g \in pendings : gtask[g] = "finished"}
InFlight    == {s \in Sample : pc[s] = "inflight"}
Complete(s) == status[s] \in {"COMPLETED", "TRUNCATED"}

Init ==
    /\ partialRollout \in BOOLEAN
    /\ phase = "idle" /\ rolloutId = 0
    /\ fresh = 1 /\ buffer = <<>>
    /\ remaining = 0 /\ pendings = {} /\ aborted = FALSE
    /\ data = {} /\ abortedSamples = <<>> /\ abortSent = FALSE
    /\ gtask  = [g \in Group |-> "none"]
    /\ pc     = [s \in Sample |-> "idle"]
    /\ status = [s \in Sample |-> "PENDING"]
    /\ reward = [s \in Sample |-> FALSE]
    /\ dropped = {} /\ surplus = {} /\ discarded = {} /\ trained = {}

-----------------------------------------------------------------------------
\* generate_rollout_async

BeginRollout ==
    /\ phase = "idle" /\ rolloutId < MaxRollouts
    /\ phase' = "collect" /\ rolloutId' = rolloutId + 1
    /\ data' = {} /\ abortedSamples' = <<>> /\ abortSent' = FALSE
    /\ UNCHANGED <<partialRollout, sourceVars, stateVars, taskVars, lostVars>>

\* data_source.get_samples: pop_first from the buffer, new prompts for the rest.
FromBuffer == MinOf(Len(buffer), OverSampling)
Popped     == Elements(SubSeq(buffer, 1, FromBuffer))
MutRest    == buffer                    \* pop_first without its del
Rest       == SubSeq(buffer, FromBuffer + 1, Len(buffer))
NewGroups  == fresh..(fresh + OverSampling - FromBuffer - 1)

\* The inner while: fetch over_sampling_batch_size groups and submit a task each.
Fetch ==
    /\ phase = "collect" /\ Cardinality(data) < Target /\ remaining < Target
    /\ fresh + OverSampling - FromBuffer - 1 <= MaxGroup
    /\ buffer' = Rest
    /\ fresh' = fresh + OverSampling - FromBuffer
    /\ pendings' = pendings \cup Popped \cup NewGroups
    /\ remaining' = remaining + OverSampling
    /\ gtask' = [g \in Group |-> IF g \in Popped \cup NewGroups THEN "created" ELSE gtask[g]]
    /\ UNCHANGED <<partialRollout, aborted, localVars, pc, status, reward, lostVars>>

\* How many of the kept groups still fit, and what remaining_batch_size loses.
MutRoom(keep) == Cardinality(keep)
Room(keep)    == MinOf(Cardinality(keep), Target - Cardinality(data))

MutUncount(drops) == 0
Uncount(drops)    == Cardinality(drops)

\* asyncio.wait(FIRST_COMPLETED) hands over every finished task, in any order.
\* The filter keeps some; the batch takes what it still needs of those.
Collect ==
    /\ phase = "collect" /\ Cardinality(data) < Target /\ remaining >= Target
    /\ Finished # {}
    /\ \E keep \in SUBSET Finished : \E taken \in SUBSET keep :
        /\ HasFilter \/ keep = Finished
        /\ Cardinality(dropped \cup (Finished \ keep)) <= MaxDrops
        /\ Cardinality(taken) = Room(keep)
        /\ data' = data \cup taken
        /\ surplus' = surplus \cup (keep \ taken)
        /\ dropped' = dropped \cup (Finished \ keep)
        /\ remaining' = remaining - Uncount(Finished \ keep)
    /\ pendings' = pendings \ Finished
    /\ UNCHANGED <<partialRollout, sourceVars, aborted, phase, rolloutId, abortedSamples, abortSent,
                   taskVars, discarded, trained>>

\* abort(): the flag first, then (after awaiting the worker list) the requests.
Abort ==
    /\ phase = "collect" /\ Cardinality(data) >= Target
    /\ phase' = "abort" /\ aborted' = TRUE
    /\ UNCHANGED <<partialRollout, sourceVars, remaining, pendings, rolloutId, data, abortedSamples,
                   abortSent, taskVars, lostVars>>

SendAbort ==
    /\ phase = "abort"
    /\ phase' = "drain" /\ abortSent' = TRUE
    /\ UNCHANGED <<partialRollout, sourceVars, stateVars, rolloutId, data, abortedSamples,
                   taskVars, lostVars>>

\* The while state.pendings loop of abort(), one finished task at a time.
MutDrain(g) ==      \* the result of asyncio.wait is not stored in state.pendings
    /\ phase = "drain" /\ g \in Finished
    /\ discarded' = discarded \cup {g}
    /\ UNCHANGED <<partialRollout, sourceVars, stateVars, localVars, taskVars, dropped, surplus,
                   trained>>

Drain(g) ==
    /\ phase = "drain" /\ g \in Finished
    /\ pendings' = pendings \ {g}
    /\ IF partialRollout
       THEN abortedSamples' = Append(abortedSamples, g) /\ UNCHANGED discarded
       ELSE discarded' = discarded \cup {g} /\ UNCHANGED abortedSamples
    /\ UNCHANGED <<partialRollout, sourceVars, remaining, aborted, phase, rolloutId, data,
                   abortSent, taskVars, dropped, surplus, trained>>

MutReset == pendings' = {} /\ aborted' = FALSE /\ UNCHANGED remaining
Reset    == pendings' = {} /\ aborted' = FALSE /\ remaining' = 0

MutReturned == buffer                   \* the partial groups are not handed back
Returned    == buffer \o abortedSamples

\* state.reset(), the return of the batch, and generate_rollout's add_samples.
FinishRollout ==
    /\ phase = "drain" /\ pendings = {}
    /\ phase' = "idle"
    /\ Reset
    /\ buffer' = Returned
    /\ trained' = trained \cup data
    /\ data' = {} /\ abortedSamples' = <<>>
    /\ UNCHANGED <<partialRollout, fresh, rolloutId, abortSent, taskVars, dropped, surplus,
                   discarded>>

-----------------------------------------------------------------------------
\* generate_and_rm_group, one task per group

\* An abort before the task first runs returns the group untouched.  Otherwise
\* every sample gets a coroutine; a sample already complete returns at once.
StartGroup(g) ==
    /\ gtask[g] = "created"
    /\ IF aborted
       THEN gtask' = [gtask EXCEPT ![g] = "finished"] /\ UNCHANGED pc
       ELSE /\ gtask' = [gtask EXCEPT ![g] = "running"]
            /\ pc' = [s \in Sample |-> IF s \notin SamplesOf(g) THEN pc[s]
                                       ELSE IF Complete(s) THEN "done" ELSE "ready"]
    /\ UNCHANGED <<partialRollout, sourceVars, stateVars, localVars, status, reward, lostVars>>

\* After the gather: the group reward, unless the rollout has been aborted.
MutAfterGather == "finished"
AfterGather    == IF GroupRM /\ ~aborted THEN "scoring" ELSE "finished"

JoinGroup(g) ==
    /\ gtask[g] = "running" /\ \A s \in SamplesOf(g) : pc[s] = "done"
    /\ gtask' = [gtask EXCEPT ![g] = AfterGather]
    /\ pc' = [s \in Sample |-> IF s \in SamplesOf(g) THEN "idle" ELSE pc[s]]
    /\ UNCHANGED <<partialRollout, sourceVars, stateVars, localVars, status, reward, lostVars>>

ScoreGroup(g) ==
    /\ gtask[g] = "scoring"
    /\ gtask' = [gtask EXCEPT ![g] = "finished"]
    /\ reward' = [s \in Sample |-> s \in SamplesOf(g) \/ reward[s]]
    /\ UNCHANGED <<partialRollout, sourceVars, stateVars, localVars, pc, status, lostVars>>

-----------------------------------------------------------------------------
\* generate_and_rm, one coroutine per sample

\* async with state.semaphore, then the test of state.aborted inside it.
MutAcquire(s) ==    \* marked with the status that generate refuses to resume
    /\ pc[s] = "ready" /\ Cardinality(InFlight) < Concurrency
    /\ IF aborted
       THEN status' = [status EXCEPT ![s] = "FAILED"] /\ pc' = [pc EXCEPT ![s] = "done"]
       ELSE pc' = [pc EXCEPT ![s] = "inflight"] /\ UNCHANGED status
    /\ UNCHANGED <<partialRollout, sourceVars, stateVars, localVars, gtask, reward, lostVars>>

Acquire(s) ==
    /\ pc[s] = "ready" /\ Cardinality(InFlight) < Concurrency
    /\ IF aborted
       THEN status' = [status EXCEPT ![s] = "ABORTED"] /\ pc' = [pc EXCEPT ![s] = "done"]
       ELSE pc' = [pc EXCEPT ![s] = "inflight"] /\ UNCHANGED status
    /\ UNCHANGED <<partialRollout, sourceVars, stateVars, localVars, gtask, reward, lostVars>>

\* What a sample still needs when its request has been answered.
MutAfterReply(s, outcome) ==    \* no reward once the rollout is aborted
    IF GroupRM \/ outcome = "ABORTED" \/ reward[s] \/ aborted THEN "done" ELSE "scoring"
AfterReply(s, outcome) ==
    IF GroupRM \/ outcome = "ABORTED" \/ reward[s] THEN "done" ELSE "scoring"

\* The answer of the engine: an abort only if one was asked for, and then only
\* if the request had not finished and its worker got the message.
Reply(s, outcome) ==
    /\ pc[s] = "inflight"
    /\ outcome = "ABORTED" => abortSent
    /\ status' = [status EXCEPT ![s] = outcome]
    /\ pc' = [pc EXCEPT ![s] = AfterReply(s, outcome)]
    /\ UNCHANGED <<partialRollout, sourceVars, stateVars, localVars, gtask, reward, lostVars>>

\* await async_rm
Score(s) ==
    /\ pc[s] = "scoring"
    /\ reward' = [reward EXCEPT ![s] = TRUE]
    /\ pc' = [pc EXCEPT ![s] = "done"]
    /\ UNCHANGED <<partialRollout, sourceVars, stateVars, localVars, gtask, status, lostVars>>

-----------------------------------------------------------------------------
GroupStep(g)  == StartGroup(g) \/ JoinGroup(g) \/ ScoreGroup(g)
SampleStep(s) == \/ Acquire(s) \/ Score(s)
                 \/ \E o \in {"COMPLETED", "TRUNCATED", "ABORTED"} : Reply(s, o)

RolloutStep ==
    \/ Fetch \/ Collect \/ Abort \/ SendAbort \/ FinishRollout
    \/ \E g \in Group : Drain(g) \/ GroupStep(g)
    \/ \E s \in Sample : SampleStep(s)

\* The driver has run its MaxRollouts rollouts.
Stopped == phase = "idle" /\ rolloutId = MaxRollouts /\ UNCHANGED vars

Next == BeginRollout \/ RolloutStep \/ Stopped

Spec == Init /\ [][Next]_vars

\* The event loop runs, the engines and the reward model answer.
FairSpec == Spec /\ WF_vars(RolloutStep)

-----------------------------------------------------------------------------
TypeOK ==
    /\ partialRollout \in BOOLEAN
    /\ phase \in {"idle", "collect", "abort", "drain"}
    /\ rolloutId \in 0..MaxRollouts
    /\ fresh \in 1..(MaxGroup + 1)
    /\ buffer \in Seq(Group) /\ abortedSamples \in Seq(Group)
    /\ remaining \in Int
    /\ pendings \in SUBSET Group /\ data \in SUBSET Group
    /\ aborted \in BOOLEAN /\ abortSent \in BOOLEAN
    /\ gtask \in [Group -> {"none", "created", "running", "scoring", "finished"}]
    /\ pc \in [Sample -> {"idle", "ready", "inflight", "scoring", "done"}]
    /\ status \in [Sample -> {"PENDING", "COMPLETED", "TRUNCATED", "ABORTED"}]
    /\ reward \in [Sample -> BOOLEAN]
    /\ dropped \in SUBSET Group /\ surplus \in SUBSET Group
    /\ discarded \in SUBSET Group /\ trained \in SUBSET Group

\* remaining_batch_size counts the running tasks and the groups already kept:
\* whenever the collect loop is about to wait for a task there is one to wait
\* for.  asyncio.wait raises ValueError on an empty set, and a count that is
\* too high would make the loop wait instead of fetching.
WaitNeverEmpty ==
    phase = "collect" /\ Cardinality(data) < Target /\ remaining >= Target => pendings # {}

\* The assertion before the sort: exactly rollout_batch_size groups are
\* returned, however many tasks finished in the batch that filled it.
ExactBatch == phase \in {"abort", "drain"} => Cardinality(data) = Target

\* Every group ever created is in exactly one place: running, kept, handed back,
\* waiting in the buffer, trained, or lost; in particular none is trained on
\* twice, or both trained on and resumed.
Lost   == dropped \cup surplus \cup discarded
Places == <<pendings, data, Elements(abortedSamples), Elements(buffer), trained, Lost>>

NoRepeats(s) == \A i, j \in DOMAIN s : s[i] = s[j] => i = j

GroupsConserved ==
    /\ 1..(fresh - 1) = UNION {Places[i] : i \in 1..6}
    /\ \A i, j \in 1..6 : i # j => Places[i] \cap Places[j] = {}
    /\ NoRepeats(buffer) /\ NoRepeats(abortedSamples)

\* A group kept for training is whole: every sample ended by itself and has a
\* reward, although an abort of this or of an earlier rollout may have stopped it.
BatchScored ==
    \A g \in data \cup trained : \A s \in SamplesOf(g) : Complete(s) /\ reward[s]

\* generate_and_rm asserts on entry that a complete sample has its reward: a
\* sample that completed while the rollout was being aborted must still be scored.
ResumedScored ==
    ~GroupRM => \A g \in Elements(buffer) \cup Elements(abortedSamples) :
                    \A s \in SamplesOf(g) : Complete(s) => reward[s]

\* When generate_rollout returns, no request of the rollout is at an engine and
\* the shared GenerateState is as new: what offload, update_weights and eval,
\* which come next, rely on.
QuiescentWhenIdle ==
    phase = "idle" =>
        /\ remaining = 0 /\ pendings = {} /\ ~aborted
        /\ \A s \in Sample : pc[s] = "idle"

\* The rollout, seen from outside, keeps the group ledger: the batch, the tasks
\* and the aborted list are the running groups, the buffer the waiting ones.
Ledger == INSTANCE GroupLedger WITH
    waiting <- Elements(buffer),
    running <- pendings \cup data \cup Elements(abortedSamples),
    lost    <- Lost

KeepsLedger == Ledger!LedgerSpec

\* A rollout that has begun returns its batch.
RolloutEnds == phase = "collect" ~> phase = "idle"
=============================================================================
