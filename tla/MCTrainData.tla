----------------------------- MODULE MCTrainData -----------------------------
(* Runs and rollouts for TLC: one field of Job is changed at a time. *)
EXTENDS TrainData

Job == [collected |-> 7, longest |-> 3, dp |-> 2, globalBatch |-> 6, dynamicGlobal |-> FALSE,
        balance |-> TRUE, tokens |-> 4, microBatch |-> 1, vpp |-> 1]

\* Balanced, strided, three ranks, two steps, too few samples, pipeline groups, fixed size.
AllJobs == {
    [Job EXCEPT !.collected = 6],
    [Job EXCEPT !.balance = FALSE],
    [Job EXCEPT !.dp = 3, !.dynamicGlobal = TRUE],
    [Job EXCEPT !.collected = 8, !.longest = 2, !.globalBatch = 4, !.tokens = 3],
    [Job EXCEPT !.collected = 1, !.dynamicGlobal = TRUE],
    [Job EXCEPT !.collected = 6, !.vpp = 2, !.tokens = 3],
    [Job EXCEPT !.collected = 6, !.longest = 2, !.globalBatch = 2, !.tokens = 0],
    [Job EXCEPT !.collected = 8, !.longest = 2, !.globalBatch = 8, !.tokens = 0, !.microBatch = 2]}

\* One rank packs five samples.
OneRank == {[Job EXCEPT !.collected = 5, !.dp = 1, !.globalBatch = 5, !.tokens = 6]}

TwoRanks == {[Job EXCEPT !.collected = 2, !.globalBatch = 2, !.balance = b] : b \in BOOLEAN}
=============================================================================
