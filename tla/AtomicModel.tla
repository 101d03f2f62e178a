---------------------------- MODULE AtomicModel ----------------------------
(***************************************************************************)
(* What a weight update promises to the requests of a rollout: at any      *)
(* time an engine serves one version of the model, an answer is computed   *)
(* with one version from its first token to its last, and an engine goes   *)
(* from one version to the next as a whole, with no answer half computed.  *)
(***************************************************************************)
EXTENDS Integers

CONSTANTS Engine, Request

VARIABLES
    model,     \* the version each engine serves
    drawn      \* of each request, its engine and the versions its answer comes from
atomic == <<model, drawn>>

Nothing == [e \in Engine |-> {}]

AtomicInit == model = [e \in Engine |-> 0] /\ drawn = [r \in Request |-> Nothing]

\* An engine goes on with an answer.
Compute(r, e) ==
    /\ \A f \in Engine : drawn[r][f] \subseteq {model[f]}
    /\ drawn' = [drawn EXCEPT ![r][e] = {model[e]}]
    /\ UNCHANGED model

Answer(r) ==
    /\ drawn' = [drawn EXCEPT ![r] = Nothing]
    /\ UNCHANGED model

\* Some engines get the next version.
Publish ==
    \E E \in SUBSET Engine :
        /\ \A e \in E, r \in Request : drawn[r][e] = {}
        /\ model' = [e \in Engine |-> IF e \in E THEN model[e] + 1 ELSE model[e]]
        /\ UNCHANGED drawn

AtomicNext == Publish \/ \E r \in Request : Answer(r) \/ \E e \in Engine : Compute(r, e)

AtomicSpec == AtomicInit /\ [][AtomicNext]_atomic
=============================================================================
