------------------------------ MODULE TrainData ------------------------------
(***************************************************************************)
(* From the samples of one rollout to the micro-batches of the training    *)
(* ranks: RolloutManager trims them to whole global batches and splits     *)
(* them over the data parallel ranks (ray/rollout.py), each rank re-indexes *)
(* its part (utils/data.py), agrees with the others on a number of          *)
(* micro-batches for each step and packs them (megatron_utils/data.py).     *)
(* Both divisions are done by Karmarkar and Karp's differencing             *)
(* (utils/seqlen_balancing.py), modelled merge by merge.                    *)
(*                                                                         *)
(* A sample is its position in the rollout; of its data only the length    *)
(* matters. The last tie-break of the code, on lists of indices, is a free  *)
(* choice. The ranks pack one after the other: they share nothing then.     *)
(***************************************************************************)
EXTENDS Integers, Sequences, FiniteSets, SequencesExt

CONSTANT
    Jobs    \* the arguments of a run and the size of its rollout, see JobsAssumption

\* Megatron asserts that globalBatch is a multiple of microBatch times dp. tokens is
\* max_tokens_per_gpu times cp_size (0 without use_dynamic_batch_size), microBatch the
\* fixed size, and vpp the group size of a virtual pipeline (1 without).
ASSUME JobsAssumption ==
    \A j \in Jobs :
        /\ {j.collected, j.longest, j.dp, j.globalBatch, j.microBatch, j.vpp} \subseteq Nat \ {0}
        /\ j.globalBatch % (j.microBatch * j.dp) = 0
        /\ j.tokens \in Nat
        /\ {j.dynamicGlobal, j.balance} \subseteq BOOLEAN

VARIABLES
    job,        \* the job
    length,     \* total length of each collected sample
    phase,      \* what is being done
    kept,       \* samples left by the trimming, 1..kept
    perStep,    \* global batch size over dp_size: rows of a rank in one step
    heap,       \* states_pq of the division in progress
    parts,      \* partition of each rank: its rows are these samples in ascending order
    count,      \* num_microbatches of each rank, for each step
    batches,    \* micro_batch_indices of each rank, by the samples of the rows
    turn        \* the rank and step whose samples are packed next

vars == <<job, length, phase, kept, perStep, heap, parts, count, batches, turn>>

Rank == 1..job.dp

----------------------------------------------------------------------------
\* Karmarkar-Karp. A Set has a sum and items; a state has k of them, heaviest first.

Empty == [sum |-> 0, items |-> {}]

One(s) == [sum |-> length[s], items |-> {s}]

Heavier(b, c) ==
    \/ b.sum > c.sum
    \/ b.sum = c.sum /\ Cardinality(b.items) > Cardinality(c.items)

Ordered(st) ==
    {t \in {[i \in DOMAIN st |-> st[p[i]]] : p \in Bijection(DOMAIN st, DOMAIN st)} :
        \A i, j \in DOMAIN t : i < j => ~Heavier(t[j], t[i])}

MutJoined(st, other) ==
    [i \in DOMAIN st |-> [sum |-> st[i].sum + other[i].sum,
                         items |-> st[i].items \cup other[i].items]]

\* State.merge: the heaviest set of one takes the lightest of the other.
Joined(st, other) ==
    [i \in DOMAIN st |->
        LET o == other[Len(st) + 1 - i]
        IN  [sum |-> st[i].sum + o.sum, items |-> st[i].items \cup o.items]]

Spread(st) == st[1].sum - st[Len(st)].sum

\* The states heapq.heappop may return: the widest spread, then the heaviest first set.
First(H) ==
    {st \in H : \A o \in H :
        /\ Spread(o) <= Spread(st)
        /\ Spread(o) = Spread(st) => ~Heavier(o[1], st[1])}

\* sorted_seqlen_list: the samples in ascending order of length, then of index.
NotAfter(q, s) ==
    \/ length[q] < length[s]
    \/ length[q] = length[s] /\ q <= s

Position(s) == Cardinality({q \in 1..kept : NotAfter(q, s)})

Ascending == [p \in 1..kept |-> CHOOSE s \in 1..kept : Position(s) = p]

\* equal_size: k samples at a time in ascending order, one to each set.
Chunks(k) == {[i \in 1..k |-> One(Ascending[c * k + k + 1 - i])] : c \in 0..(kept \div k - 1)}

Singles(S, k) == {[i \in 1..k |-> IF i = 1 THEN One(s) ELSE Empty] : s \in S}

\* The assertions on the partitions of S: they hold S, none is empty, and with equal_size
\* all have the same number of items.
Divides(st, S, equal) ==
    /\ UNION {st[i].items : i \in DOMAIN st} = S
    /\ \A i \in DOMAIN st :
          /\ st[i].items # {}
          /\ equal => Cardinality(st[i].items) * Len(st) = Cardinality(S)

Merge ==
    /\ phase \in {"split", "pack"}
    /\ \E st \in First(heap) : \E other \in First(heap \ {st}) :
           \E merged \in Ordered(Joined(st, other)) :
               heap' = (heap \ {st, other}) \cup {merged}
    /\ UNCHANGED <<job, length, phase, kept, perStep, parts, count, batches, turn>>

----------------------------------------------------------------------------
\* RolloutManager.

\* _compute_dynamic_global_batch_size makes one step of everything.
GlobalBatch ==
    LET whole == (job.collected \div job.dp) * job.dp
    IN  IF ~job.dynamicGlobal THEN job.globalBatch ELSE IF whole = 0 THEN job.dp ELSE whole

\* The end of _get_rollout_data. Too few samples raise a ValueError.  Jobs that switch
\* trimming off (--disable-rollout-trim-samples, --debug-rollout-only) or read their
\* samples from a file (--load-debug-rollout-data) are not modelled: nothing makes
\* the number of their samples divide.
Trim ==
    /\ phase = "collected"
    /\ kept' = (job.collected \div GlobalBatch) * GlobalBatch
    /\ perStep' = GlobalBatch \div job.dp
    /\ phase' = IF kept' = 0 THEN "raised" ELSE "trimmed"
    /\ UNCHANGED <<job, length, heap, parts, count, batches, turn>>

Strided(r) == {s \in 1..kept : (s - r) % job.dp = 0}

\* _split_train_data_by_dp.
Split ==
    /\ phase = "trimmed"
    /\ IF job.balance
         THEN /\ heap' = Chunks(job.dp)
              /\ phase' = IF kept % job.dp = 0 THEN "split" ELSE "failed"
              /\ parts' = parts
         ELSE /\ parts' = [r \in Rank |-> Strided(r)]
              /\ phase' = "received"
              /\ heap' = heap
    /\ UNCHANGED <<job, length, kept, perStep, count, batches, turn>>

\* The end of get_seqlen_balanced_partitions, which sorts each partition.
SplitEnd ==
    /\ phase = "split"
    /\ \E st \in heap :
        /\ heap = {st}
        /\ heap' = {}
        /\ parts' = [r \in Rank |-> st[r].items]
        /\ phase' = IF Divides(st, 1..kept, TRUE) THEN "received" ELSE "failed"
    /\ UNCHANGED <<job, length, kept, perStep, count, batches, turn>>

----------------------------------------------------------------------------
\* The training ranks: process_rollout_data, then get_data_iterator.

Steps == Cardinality(parts[1]) \div perStep

\* The index of a sample at its rank.
Row(r, s) == Cardinality({q \in parts[r] : q <= s})

RowsOf(step) == ((step - 1) * perStep + 1)..(step * perStep)

SamplesAt(r, rows) == {s \in parts[r] : Row(r, s) \in rows}

SamplesOf(r, step) == SamplesAt(r, RowsOf(step))

\* get_minimum_num_micro_batch_size: each sample goes to the first batch with room.
Fill(s, filled) ==
    LET fits == {i \in DOMAIN filled : filled[i] + length[s] <= job.tokens}
    IN  IF fits = {} THEN Append(filled, length[s])
        ELSE [filled EXCEPT ![Min(fits)] = @ + length[s]]

\* The samples are placed in the order of their rows: Max is the last one.
FirstFit(r, step) == Len(MapThenFoldSet(Fill, <<>>, LAMBDA s : s, Max, SamplesOf(r, step)))

MutReduced(r, step) == FirstFit(r, step)

\* The all_reduce over the data parallel group.
Reduced(r, step) == Max({FirstFit(q, step) : q \in Rank})

MutGrouped(n) == (n \div job.vpp) * job.vpp

MutGroupedUp(n) == ((n + job.vpp - 1) \div job.vpp) * job.vpp

\* A virtual pipeline rounds down to whole groups, and to 1 rather than 0.
Grouped(n) == Max({(n \div job.vpp) * job.vpp, 1})

Iterate ==
    /\ phase = "received"
    /\ IF job.tokens > 0
         THEN /\ count' = [r \in Rank |-> [i \in 1..Steps |-> Grouped(Reduced(r, i))]]
              /\ phase' = "pack"
              /\ batches' = batches
         ELSE LET size == job.microBatch
                  each == perStep \div size
              IN  /\ count' = [r \in Rank |-> [i \in 1..Steps |-> each]]
                  /\ phase' = "done"
                  /\ batches' = [r \in Rank |-> [b \in 1..(Steps * each) |->
                                    SamplesAt(r, ((b - 1) * size + 1)..(b * size))]]
    /\ UNCHANGED <<job, length, kept, perStep, heap, parts, turn>>

\* The ranks pack one after the other, each its steps in order.
Packing(r, step) == turn = (r - 1) * Steps + step

\* karmarkar_karp is entered for the samples of one step; the assertion comes first.
Pack(r, step) ==
    /\ Packing(r, step)
    /\ heap = {}
    /\ IF count[r][step] \in 1..Cardinality(SamplesOf(r, step))
         THEN heap' = Singles(SamplesOf(r, step), count[r][step]) /\ phase' = phase
         ELSE heap' = heap /\ phase' = "failed"
    /\ UNCHANGED <<job, length, kept, perStep, parts, count, batches, turn>>

\* The assertion after the packing, on the set of all indices.
EachRowPacked(r, micro) == Cardinality(UNION {micro[b] : b \in DOMAIN micro})
                               = Cardinality(parts[r])

PackEnd(r, step) ==
    /\ Packing(r, step)
    /\ \E st \in heap :
        /\ heap = {st}
        /\ heap' = {}
        /\ turn' = turn + 1
        /\ batches' = [batches EXCEPT ![r] = @ \o [i \in DOMAIN st |-> st[i].items]]
        /\ phase' = IF \/ ~Divides(st, SamplesOf(r, step), FALSE)
                       \/ step = Steps /\ ~EachRowPacked(r, batches'[r])
                    THEN "failed" ELSE
                    IF r = job.dp /\ step = Steps THEN "done" ELSE "pack"
    /\ UNCHANGED <<job, length, kept, perStep, parts, count>>

----------------------------------------------------------------------------
Init ==
    /\ job \in Jobs
    /\ length \in [1..job.collected -> 1..job.longest]
    /\ phase = "collected"
    /\ kept = 0
    /\ perStep = 0
    /\ heap = {}
    /\ parts = [r \in Rank |-> {}]
    /\ count = [r \in Rank |-> <<>>]
    /\ batches = [r \in Rank |-> <<>>]
    /\ turn = 1

Next ==
    \/ Trim \/ Split \/ Merge \/ SplitEnd \/ Iterate
    \/ /\ phase = "pack"
       /\ \E r \in Rank : \E step \in 1..Steps : Pack(r, step) \/ PackEnd(r, step)

Spec == Init /\ [][Next]_vars

----------------------------------------------------------------------------
\* The state has its type; every step has at least one micro-batch.
TypeOK ==
    /\ job \in Jobs
    /\ length \in [1..job.collected -> 1..job.longest]
    /\ phase \in {"collected", "trimmed", "split", "received", "pack", "done", "raised", "failed"}
    /\ kept \in 0..job.collected
    /\ perStep \in Nat
    /\ \A st \in heap : \A i \in DOMAIN st : st[i].sum \in Nat /\ st[i].items \subseteq 1..kept
    /\ parts \in [Rank -> SUBSET (1..kept)]
    /\ count \in [Rank -> Seq(Nat \ {0})]
    /\ batches \in [Rank -> Seq(SUBSET (1..kept))]
    /\ turn \in Nat

\* No assertion of the two files fails: the first-fit number of the fullest rank never
\* exceeds the samples of another, and no micro-batch and no rank is left without samples.
AssertionsHold == phase # "failed"

\* The differencing keeps its promise ("Balance the number of tokens"): at every moment
\* the sets of a state differ by no more than the longest sample.
Balanced ==
    \A st \in heap : \A i, j \in DOMAIN st :
        \E s \in 1..kept : st[i].sum - st[j].sum <= length[s]

\* When the ranks start to train they run equally many micro-batches in each step (or
\* their collectives would not meet), each step takes its own rows and no others, and
\* every sample that was kept is trained by one rank.
ScheduleComplete ==
    phase = "done" =>
        /\ \A r, q \in Rank :
              /\ count[r] = count[q] /\ Cardinality(parts[r]) = Cardinality(parts[q])
              /\ r # q => parts[r] \cap parts[q] = {}
        /\ UNION {parts[r] : r \in Rank} = 1..kept
        /\ \A r \in Rank, step \in 1..Steps :
              LET before == FoldFunctionOnSet(+, 0, count[r], 1..(step - 1))
                  mine == (before + 1)..(before + count[r][step])
              IN  /\ mine \subseteq DOMAIN batches[r]
                  /\ UNION {batches[r][b] : b \in mine} = SamplesOf(r, step)
                  /\ \A b, c \in mine : b # c => batches[r][b] \cap batches[r][c] = {}

\* "max_tokens_per_gpu ... defines the maximum number of tokens that can be processed on
\* each GPU" (docs/en/get_started/qa.md): a micro-batch stays below it, or is one sample.
MicroBatchFits ==
    phase = "done" /\ job.tokens > 0 =>
        \A r \in Rank : \A b \in DOMAIN batches[r] :
            \/ Cardinality(batches[r][b]) = 1
            \/ FoldFunctionOnSet(+, 0, length, batches[r][b]) <= job.tokens

\* The sample whose masks DataIterator hands out with the tokens of s: logits_masks comes
\* whole, like total_lengths, but process_rollout_data does not re-index it.
MasksOf(r, s) == Row(r, s)

\* A sample is trained with its own masks ("keys that need to be splited at train side").
RowsAligned == phase = "done" => \A r \in Rank : \A s \in parts[r] : MasksOf(r, s) = s
=============================================================================
