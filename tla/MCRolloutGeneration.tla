------------------------ MODULE MCRolloutGeneration ------------------------
(* Instances of RolloutGeneration for TLC. *)
EXTENDS RolloutGeneration

\* The bound on groups never stops a fetch: a fetch follows the start of a
\* rollout or a drop.
ASSUME EnoughGroups == MaxGroup >= OverSampling * (MaxRollouts + MaxDrops)
=============================================================================
