--------------------------- MODULE MCWeightUpdate ---------------------------
(* Instances of WeightUpdate for TLC. *)
EXTENDS WeightUpdate

\* Separate engines whose requests go on during an update.
Separate  == [fromTensor |-> FALSE, overlap |-> TRUE]

\* Engines on the GPUs of the trainer.
Colocated == [fromTensor |-> TRUE, overlap |-> FALSE]

BothJobs == {Separate, Colocated}
=============================================================================
