----------------------------- MODULE GroupLedger -----------------------------
(***************************************************************************)
(* What rollout generation promises about prompt groups, whatever happens  *)
(* inside it: a group is created once, is either waiting or running, and   *)
(* leaves at most once: trained on, in batches of exactly Target groups,   *)
(* or lost.  A group that left is never seen again.                        *)
(***************************************************************************)
EXTENDS Integers, FiniteSets

CONSTANT Target      \* groups of a training batch

VARIABLES waiting, running, trained, lost
ledger == <<waiting, running, trained, lost>>

LedgerInit == waiting = {} /\ running = {} /\ trained = {} /\ lost = {}

\* Waiting groups, and groups never seen before, start running.
Start ==
    /\ running \subseteq running'
    /\ (running' \ running) \cap (trained \cup lost) = {}
    /\ waiting' = waiting \ running'
    /\ UNCHANGED <<trained, lost>>

\* Running groups are rejected, superfluous, or thrown away.
Lose ==
    /\ lost \subseteq lost' /\ lost' \ lost \subseteq running
    /\ running' = running \ lost'
    /\ UNCHANGED <<waiting, trained>>

\* A rollout ends: a full batch is trained on and the rest waits again.
Deliver ==
    LET batch == trained' \ trained IN
    /\ trained \subseteq trained' /\ batch \subseteq running
    /\ Cardinality(batch) = Target
    /\ waiting' = waiting \cup (running \ batch)
    /\ running' = {}
    /\ UNCHANGED lost

LedgerSpec == LedgerInit /\ [][Start \/ Lose \/ Deliver]_ledger
=============================================================================
