-------------------------- MODULE MCFaultTolerance --------------------------
(* Instances of FaultTolerance for TLC. *)
EXTENDS FaultTolerance

\* Every instance has a server to recover.
ASSUME SomeUpdatable == \A l \in Layouts : l.updatable # {}

\* Two groups of the updatable server on the trainer's GPUs.
Colocated ==
    [updatable |-> {1, 2}, offloaded |-> {1, 2}, pauseIsJoin |-> TRUE, crashesSeen |-> TRUE]

\* An updatable and a frozen server on the trainer's GPUs: the updatable one has
\* no second engine to go on with.
Frozen == [Colocated EXCEPT !.updatable = {1}]

\* The groups on GPUs of their own, with engines that crash at any moment.
Disaggregated == [Colocated EXCEPT !.offloaded = {}, !.crashesSeen = FALSE]

\* Colocated servers with crashes that no monitor has seen when the rollout ends.
Unseen == [Frozen EXCEPT !.crashesSeen = FALSE]

AllLayouts == {Colocated, Disaggregated, Unseen}

\* A monitor may still be killing when recover() looks for the dead.
Hasty == {[updatable |-> {1}, offloaded |-> {}, pauseIsJoin |-> FALSE, crashesSeen |-> FALSE]}
=============================================================================
