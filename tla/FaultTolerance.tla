---------------------------- MODULE FaultTolerance ----------------------------
(***************************************************************************)
(* Rollout fault tolerance (--use-fault-tolerance): one health monitor     *)
(* thread per server group (slime/utils/health_monitor.py), the recovery   *)
(* and the memory hand-over of slime/ray/rollout.py, the ranks of the      *)
(* trainer that connect to the recovered engines                           *)
(* (slime/backends/megatron_utils/actor.py, update_weights), and the loop  *)
(* of train.py that orders them.                                           *)
(*                                                                         *)
(* A slot is an entry of ServerGroup.all_engines, named by its group, its  *)
(* engine and its node.  The monitors run in threads of the RolloutManager *)
(* and interleave with its methods, which the driver calls one at a time.  *)
(* Mut<Name> is a plausible bug in Name that no specification uses.        *)
(***************************************************************************)
EXTENDS Integers, FiniteSets

CONSTANTS
    NumGroups,       \* server groups
    NumEngines,      \* engines of a group
    NodesPerEngine,  \* slots of an engine
    NumRanks,        \* ranks of the actor model
    Layouts,         \* the jobs to look at: which groups get weights and are offloaded,
                     \* and what is assumed of their timing
    MaxFaults        \* bound: processes that crash and checks that time out
                     \* on an engine that works

Group  == 1..NumGroups
Rank   == 0..(NumRanks - 1)
Engine == Group \X (1..NumEngines)
Node   == 0..(NodesPerEngine - 1)
Slot   == Group \X (1..NumEngines) \X Node

ASSUME ServerAssumption ==
    /\ {NumGroups, NumEngines, NodesPerEngine, NumRanks} \subseteq Nat \ {0}
    /\ Layouts \subseteq [updatable : SUBSET Group, offloaded : SUBSET Group,
                          pauseIsJoin : BOOLEAN, crashesSeen : BOOLEAN]
    /\ MaxFaults \in Nat

VARIABLES
    layout,
    driver,       \* where the driver's loop is
    present,      \* slots whose all_engines entry is not None
    alive,        \* slots whose process works
    mem,          \* what each engine holds on its GPUs
    current,      \* engines with the trainer's latest weights
    numNew,       \* ServerGroup.num_new_engines
    begun,        \* RolloutManager.rollout_id # -1
    todo,         \* groups recover() has still to start
    dead,         \* dead_per_group
    rank,         \* where each rank is in update_weights
    seen,         \* the engines a rank was given
    connected,    \* the engines a rank is connected to
    monitor,      \* where each group's monitor thread is
    index,        \* the engine its round is at
    killing,      \* the node its kill is at
    paused,       \* _pause_event
    needWait,     \* _need_first_wait
    faults

engineVars  == <<present, alive, mem, current, faults>>
recoverVars == <<numNew, todo, dead>>
rankVars    == <<rank, seen, connected>>
eventVars   == <<paused, needWait>>
threadVars  == <<monitor, index, killing>>
vars == <<layout, driver, begun, engineVars, recoverVars, rankVars, eventVars, threadVars>>

Updatable   == layout.updatable     \* the groups of the server that gets the trained weights
Offloaded   == layout.offloaded     \* the groups with needs_offload
PauseIsJoin == layout.pauseIsJoin   \* timing assumption: a check or a kill begun before a
                                    \* pause ends before the call that paused goes on
CrashesSeen == layout.crashesSeen   \* timing assumption: engines crash while generating and
                                    \* a monitor sees it before the rollout ends

GPU == {"weights", "kv"}

Slots(e)    == {<<e[1], e[2], n>> : n \in Node}
Head(e)     == <<e[1], e[2], 0>>
EnginesOf(G) == {e \in Engine : e[1] \in G}
Listed      == {e \in Engine : Head(e) \in present}       \* ServerGroup.engines
Healthy     == {e \in Engine : Slots(e) \subseteq alive}
Given       == Listed \cap EnginesOf(Updatable)   \* get_updatable_engines_and_lock
Answering   == Given \cap Healthy                 \* the router has them for a rollout
Busy        == {g \in Group : monitor[g] \in {"check", "kill"}}

Init ==     \* create_rollout_manager: every engine started, then offloaded
    /\ layout \in Layouts
    /\ driver = "onload_weights" /\ begun = FALSE
    /\ present = Slot /\ alive = Slot /\ current = {} /\ faults = 0
    /\ mem = [e \in Engine |-> IF e[1] \in Offloaded THEN {} ELSE GPU]
    /\ numNew = [g \in Group |-> NumEngines * NodesPerEngine]
    /\ todo = {} /\ dead = [g \in Group |-> {}]
    /\ rank = [r \in Rank |-> "idle"]
    /\ seen = [r \in Rank |-> {}] /\ connected = [r \in Rank |-> {}]
    /\ monitor = [g \in Group |-> "top"]
    /\ index = [g \in Group |-> 1] /\ killing = [g \in Group |-> 0]
    /\ paused = TRUE /\ needWait = [g \in Group |-> TRUE]

-----------------------------------------------------------------------------
\* The driver.  A remote call on an engine that has crashed raises in ray.get,
\* and nothing in the driver catches it.

Go(next, touched) == driver' = IF touched \subseteq Healthy THEN next ELSE "failed"

PauseMonitors  == paused' = TRUE /\ UNCHANGED needWait
ResumeMonitors == paused' = FALSE /\ needWait' = [g \in Group |-> TRUE]

MutAfterOnload == "onload_kv"       \* a step without actor_model.update_weights()
AfterOnload    == "update"

OnloadWeights ==
    LET on == Listed \cap EnginesOf(Offloaded) IN
    /\ driver = "onload_weights"
    /\ Go(AfterOnload, on)
    /\ mem' = [e \in Engine |-> IF e \in on THEN mem[e] \cup {"weights"} ELSE mem[e]]
    /\ UNCHANGED <<layout, begun, present, alive, current, faults, recoverVars, rankVars,
                   eventVars, threadVars>>

\* recover_updatable_engines, called by rank 0: nothing to do before the first
\* rollout, when every engine is new and num_new_engines says so.
MutNoSkip    == FALSE
MutSkip      == TRUE
SkipRecovery == ~begun

Recover ==
    /\ driver = "update"
    /\ PauseMonitors
    /\ driver' = IF SkipRecovery THEN "ranks" ELSE "recover"
    /\ rank' = [r \in Rank |-> IF SkipRecovery THEN "fetch" ELSE "idle"]
    /\ UNCHANGED <<layout, begun, engineVars, recoverVars, seen, connected, threadVars>>

\* RolloutServer.recover: the dead slots, recorded before anything is started.
RecordDead ==
    /\ driver = "recover" /\ (PauseIsJoin => Busy = {})
    /\ driver' = "start" /\ todo' = Updatable
    /\ dead' = [g \in Group |-> {s \in Slot \ present : s[1] = g /\ g \in Updatable}]
    /\ UNCHANGED <<layout, begun, engineVars, numNew, rankVars, eventVars, threadVars>>

\* ServerGroup.start_engines: an actor for every slot that is None by now.
MutCount(new) == Cardinality({e \in Engine : Slots(e) \cap new # {}})
Count(new)    == Cardinality(new)

StartEngines ==
    /\ driver = "start" /\ todo # {}
    /\ \E g \in todo :
        LET new == {s \in Slot \ present : s[1] = g} IN
        /\ \A h \in todo : g <= h
        /\ todo' = todo \ {g}
        /\ numNew' = [numNew EXCEPT ![g] = Count(new)]
        /\ present' = present \cup new /\ alive' = alive \cup new
        /\ mem' = [e \in Engine |-> IF Slots(e) \cap new # {} THEN GPU ELSE mem[e]]
        /\ current' = {e \in current : Slots(e) \cap new = {}}
    /\ UNCHANGED <<layout, driver, begun, faults, dead, rankVars, eventVars, threadVars>>

\* The rest of recover: wait for the servers (an engine whose slots are not all
\* new never comes up), the assertion on num_new_engines, and for a group that
\* is offloaded release everything and resume the weights.
MutHandOver(mm, e) == mm[e]
HandOver(mm, e)    == IF e[1] \in Offloaded THEN {"weights"} ELSE mm[e]

FinishRecover ==
    LET fresh == {e \in Engine : Slots(e) \cap UNION {dead[g] : g \in Group} # {}} IN
    /\ driver = "start" /\ todo = {}
    /\ IF /\ \A g \in Updatable : numNew[g] = Cardinality(dead[g])
          /\ \A e \in fresh : Slots(e) \subseteq dead[e[1]]
          /\ fresh \subseteq Healthy
       THEN /\ driver' = "ranks" /\ rank' = [r \in Rank |-> "fetch"]
            /\ mem' = [e \in Engine |-> IF e \in fresh THEN HandOver(mem, e) ELSE mem[e]]
       ELSE driver' = "failed" /\ UNCHANGED <<rank, mem>>
    /\ UNCHANGED <<layout, begun, present, alive, current, faults, recoverVars, seen, connected,
                   eventVars, threadVars>>

OnloadKv ==
    LET on == Listed \cap EnginesOf(Offloaded) IN
    /\ driver = "onload_kv"
    /\ Go("ready", on)
    /\ mem' = [e \in Engine |-> IF e \in on THEN mem[e] \cup {"kv"} ELSE mem[e]]
    /\ UNCHANGED <<layout, begun, present, alive, current, faults, recoverVars, rankVars,
                   eventVars, threadVars>>

\* RolloutManager.eval, when it is due, and generate: both resume the monitors.
Eval ==
    /\ driver = "ready" /\ ResumeMonitors
    /\ UNCHANGED <<layout, driver, begun, engineVars, recoverVars, rankVars, monitor, index,
                   killing>>

Generate ==
    /\ driver = "ready" /\ driver' = "generate" /\ begun' = TRUE
    /\ ResumeMonitors
    /\ UNCHANGED <<layout, engineVars, recoverVars, rankVars, monitor, index, killing>>

\* Every answer the rollout needs has come; what is left are its abort and the
\* conversion of the samples.
Answered ==
    /\ driver = "generate" /\ Answering # {} /\ driver' = "abort"
    /\ UNCHANGED <<layout, begun, engineVars, recoverVars, rankVars, eventVars, threadVars>>

\* _post tries a request 60 times and raises when no engine ever answers it;
\* generate or eval raises with it, and so does the driver.
Unanswered ==
    /\ driver = "generate" \/ (driver = "ready" /\ ~paused)
    /\ Answering = {}

RequestsFail ==
    /\ Unanswered /\ driver' = "failed"
    /\ UNCHANGED <<layout, begun, engineVars, recoverVars, rankVars, eventVars, threadVars>>

GenerateEnds ==
    /\ driver = "abort" /\ (CrashesSeen => Listed \subseteq Healthy)
    /\ driver' = IF Offloaded = {} THEN "train" ELSE "pause"
    /\ UNCHANGED <<layout, begun, engineVars, recoverVars, rankVars, eventVars, threadVars>>

\* RolloutManager.offload: pause the monitors, then release the memory.
MutBeforeRelease == UNCHANGED eventVars
BeforeRelease    == PauseMonitors

PauseOffload ==
    /\ driver = "pause" /\ driver' = "offload"
    /\ BeforeRelease
    /\ UNCHANGED <<layout, begun, engineVars, recoverVars, rankVars, threadVars>>

Offload ==
    LET off == Listed \cap EnginesOf(Offloaded) IN
    /\ driver = "offload" /\ (PauseIsJoin => Busy = {})
    /\ Go("train", off)
    /\ mem' = [e \in Engine |-> IF e \in off THEN {} ELSE mem[e]]
    /\ UNCHANGED <<layout, begun, present, alive, current, faults, recoverVars, rankVars,
                   eventVars, threadVars>>

Train ==
    /\ driver = "train" /\ driver' = "onload_weights"
    /\ current' = {}
    /\ UNCHANGED <<layout, begun, present, alive, mem, faults, recoverVars, rankVars, eventVars,
                   threadVars>>

-----------------------------------------------------------------------------
\* update_weights on every rank, after the barrier behind rank 0's recovery

AnyNew == \E g \in Updatable : numNew[g] > 0

\* get_updatable_engines_and_lock; connect only if some engine is new.
Fetch(r) ==
    /\ driver = "ranks" /\ rank[r] = "fetch"
    /\ seen' = [seen EXCEPT ![r] = Given]
    /\ rank' = [rank EXCEPT ![r] = IF AnyNew THEN "connect" ELSE "push"]
    /\ UNCHANGED <<layout, driver, begun, engineVars, recoverVars, connected, eventVars,
                   threadVars>>

\* connect_rollout_engines: every entry of the list must be an engine that answers.
Connect(r) ==
    /\ driver = "ranks" /\ rank[r] = "connect"
    /\ IF seen[r] = EnginesOf(Updatable) /\ seen[r] \subseteq Healthy
       THEN /\ connected' = [connected EXCEPT ![r] = seen[r]]
            /\ rank' = [rank EXCEPT ![r] = "barrier"] /\ UNCHANGED driver
       ELSE driver' = "failed" /\ UNCHANGED <<connected, rank>>
    /\ UNCHANGED <<layout, begun, engineVars, recoverVars, seen, eventVars, threadVars>>

\* The barrier, and rank 0's clear_updatable_num_new_engines behind it.
MutBehind == rank[0] = "barrier"
Behind    == \A r \in Rank : rank[r] = "barrier"

ClearNew ==
    /\ driver = "ranks" /\ Behind
    /\ rank' = [r \in Rank |-> IF rank[r] = "barrier" THEN "push" ELSE rank[r]]
    /\ numNew' = [g \in Group |-> IF g \in Updatable THEN 0 ELSE numNew[g]]
    /\ UNCHANGED <<layout, driver, begun, engineVars, todo, dead, seen, connected, eventVars,
                   threadVars>>

\* weight_updater.update_weights, a collective of all ranks over the handles each
\* is connected with; a handle of an engine killed since is of no use.
Push ==
    /\ driver = "ranks" /\ \A r \in Rank : rank[r] = "push"
    /\ rank' = [r \in Rank |-> "idle"]
    /\ driver' = IF /\ \A r \in Rank : connected[r] = EnginesOf(Updatable)
                     /\ EnginesOf(Updatable) \subseteq Healthy
                  THEN "onload_kv" ELSE "failed"
    /\ current' = IF driver' = "failed" THEN current ELSE current \cup EnginesOf(Updatable)
    /\ UNCHANGED <<layout, begun, present, alive, mem, faults, recoverVars, seen, connected,
                   eventVars, threadVars>>

-----------------------------------------------------------------------------
\* RolloutHealthMonitor._health_monitor_loop, one thread per group

Move(g, place) == monitor' = [monitor EXCEPT ![g] = place]

\* Behind the inner while: not paused.
LeavePause(g) ==
    /\ monitor[g] = "top" /\ ~paused
    /\ Move(g, IF needWait[g] THEN "first_wait" ELSE "round")
    /\ UNCHANGED <<layout, driver, begun, engineVars, recoverVars, rankVars, eventVars, index,
                   killing>>

EndFirstWait(g) ==
    /\ monitor[g] = "first_wait"
    /\ IF paused
       THEN Move(g, "top") /\ UNCHANGED needWait
       ELSE Move(g, "round") /\ needWait' = [needWait EXCEPT ![g] = FALSE]
    /\ UNCHANGED <<layout, driver, begun, engineVars, recoverVars, rankVars, paused, index,
                   killing>>

\* _run_health_checks, engine by engine; None entries are skipped, a pause ends it.
BeginRound(g) ==
    /\ monitor[g] = "round"
    /\ Move(g, IF paused THEN "interval" ELSE "next")
    /\ index' = [index EXCEPT ![g] = 1]
    /\ UNCHANGED <<layout, driver, begun, engineVars, recoverVars, rankVars, eventVars, killing>>

MutPastEnd(g) == index[g] > NumEngines + 1
PastEnd(g)    == index[g] > NumEngines

NextEngine(g) ==
    /\ monitor[g] = "next"
    /\ IF paused \/ PastEnd(g)
       THEN Move(g, "interval") /\ UNCHANGED index
       ELSE IF <<g, index[g]>> \in Listed
            THEN Move(g, "check") /\ UNCHANGED index
            ELSE index' = [index EXCEPT ![g] = @ + 1] /\ UNCHANGED monitor
    /\ UNCHANGED <<layout, driver, begun, engineVars, recoverVars, rankVars, eventVars, killing>>

\* The answer of health_generate.  An engine generates a token only if it works
\* and has its memory, and it may still be too slow: any exception kills it.
InTime(g) ==
    LET e == <<g, index[g]>> IN
    /\ monitor[g] = "check" /\ e \in Healthy /\ mem[e] = GPU
    /\ Move(g, "next") /\ index' = [index EXCEPT ![g] = @ + 1]
    /\ UNCHANGED <<layout, driver, begun, engineVars, recoverVars, rankVars, eventVars, killing>>

CheckFails(g) ==
    LET e == <<g, index[g]>> IN
    /\ monitor[g] = "check"
    /\ IF e \in Healthy /\ mem[e] = GPU
       THEN faults < MaxFaults /\ faults' = faults + 1
       ELSE UNCHANGED faults
    /\ Move(g, "kill") /\ killing' = [killing EXCEPT ![g] = 0]
    /\ UNCHANGED <<layout, driver, begun, present, alive, mem, current, recoverVars, rankVars,
                   eventVars, index>>

\* _kill_engine: one node after another, each with blocking calls.
MutLastNode == 0
LastNode    == NodesPerEngine - 1

KillNode(g) ==
    LET s == <<g, index[g], killing[g]>> IN
    /\ monitor[g] = "kill"
    /\ present' = present \ {s} /\ alive' = alive \ {s}
    /\ connected' = [r \in Rank |-> connected[r] \ {<<g, index[g]>>}]
    /\ IF killing[g] = LastNode
       THEN Move(g, "next") /\ index' = [index EXCEPT ![g] = @ + 1] /\ UNCHANGED killing
       ELSE killing' = [killing EXCEPT ![g] = @ + 1] /\ UNCHANGED <<monitor, index>>
    /\ UNCHANGED <<layout, driver, begun, mem, current, faults, recoverVars, rank, seen,
                   eventVars>>

EndInterval(g) ==
    /\ monitor[g] = "interval" /\ Move(g, "top")
    /\ UNCHANGED <<layout, driver, begun, engineVars, recoverVars, rankVars, eventVars, index,
                   killing>>

\* The environment: a server process dies, or hangs for good.
Crash(s) ==
    /\ faults < MaxFaults /\ s \in alive
    /\ CrashesSeen => driver \in {"generate", "abort"}
    /\ alive' = alive \ {s} /\ faults' = faults + 1
    /\ UNCHANGED <<layout, driver, begun, present, mem, current, recoverVars, rankVars, eventVars,
                   threadVars>>

-----------------------------------------------------------------------------
DriverStep ==
    \/ OnloadWeights \/ Recover \/ RecordDead \/ StartEngines \/ FinishRecover
    \/ OnloadKv \/ Generate \/ Answered \/ RequestsFail \/ GenerateEnds \/ PauseOffload
    \/ Offload \/ Train \/ ClearNew \/ Push \/ \E r \in Rank : Fetch(r) \/ Connect(r)

MonitorStep(g) ==
    \/ LeavePause(g) \/ EndFirstWait(g) \/ BeginRound(g) \/ NextEngine(g)
    \/ InTime(g) \/ CheckFails(g) \/ KillNode(g) \/ EndInterval(g)

\* The driver has died of an exception.
Failed == driver = "failed" /\ UNCHANGED vars

Next == \/ DriverStep \/ Eval \/ Failed
        \/ \E g \in Group : MonitorStep(g)
        \/ \E s \in Slot : Crash(s)

Spec == Init /\ [][Next]_vars

\* The driver and the threads run; no crash or evaluation has to happen.
FairSpec == Spec /\ WF_vars(DriverStep) /\ \A g \in Group : WF_vars(MonitorStep(g))

-----------------------------------------------------------------------------
TypeOK ==
    /\ layout \in Layouts
    /\ driver \in {"onload_weights", "update", "recover", "start", "ranks", "onload_kv",
                   "ready", "generate", "abort", "pause", "offload", "train", "failed"}
    /\ begun \in BOOLEAN /\ paused \in BOOLEAN
    /\ present \subseteq Slot /\ alive \subseteq Slot /\ current \subseteq Engine
    /\ mem \in [Engine -> SUBSET GPU]
    /\ numNew \in [Group -> 0..(NumEngines * NodesPerEngine)]
    /\ todo \subseteq Group /\ dead \in [Group -> SUBSET Slot]
    /\ rank \in [Rank -> {"idle", "fetch", "connect", "barrier", "push"}]
    /\ seen \in [Rank -> SUBSET Engine] /\ connected \in [Rank -> SUBSET Engine]
    /\ monitor \in [Group -> {"top", "first_wait", "round", "next", "check", "kill", "interval"}]
    /\ index \in [Group -> 1..(NumEngines + 1)]
    /\ killing \in [Group -> Node]
    /\ needWait \in [Group -> BOOLEAN]
    /\ faults \in 0..MaxFaults

\* An engine that serves a rollout has the weights of the last training step,
\* also one that recover() started a moment before (num_new_engines tells the
\* ranks to connect to it; it is set by one method and cleared by another).
ServesCurrent == driver \in {"onload_kv", "ready", "generate", "abort"} => Given \subseteq current

\* The collective starts on every rank with the same engines: rank 0 resets
\* num_new_engines only when every rank has read it.
RanksAgree ==
    driver = "ranks" /\ (\A r \in Rank : rank[r] = "push") =>
        \A r, q \in Rank : connected[r] = connected[q]

\* The GPUs an offloaded group shares with the trainer: free while it trains,
\* holding the weights only during a push, and everything during a rollout;
\* the same for an engine that was restarted in between.
MemoryPhases ==
    \A e \in Listed \cap EnginesOf(Offloaded) :
        /\ driver = "train" => mem[e] = {}
        /\ driver = "ranks" => mem[e] = {"weights"}
        /\ driver \in {"ready", "generate", "abort"} => mem[e] = GPU

\* recover() asserts: num_new_engines does not match dead_indices length.
NumNewMatches ==
    driver = "start" /\ todo = {} => \A g \in Updatable : numNew[g] = Cardinality(dead[g])

\* Monitors are paused before the memory goes: no check is out on an engine that
\* cannot answer it for want of memory, and then kill an engine without a fault.
ChecksOnboard ==
    PauseIsJoin => \A g \in Group : monitor[g] = "check" => mem[<<g, index[g]>>] = GPU

\* With every crash seen in time, the job survives crashes and kills, the restart
\* and the reconnection included, unless a rollout loses its last engine while it
\* has requests out.
Dies == driver # "failed" /\ driver' = "failed"

JobSurvives == [][PauseIsJoin /\ CrashesSeen /\ Dies => Unanswered]_vars

\* Otherwise the driver dies also of an engine that crashed and was not yet seen.
FailsOnlyUnseen ==
    [][PauseIsJoin /\ Dies => Unanswered \/ \E e \in Listed : e \notin Healthy]_vars

\* An engine of the updatable server that stops is restarted with current weights,
\* if the rollout that lost it had another engine to go on with.
Serving(e) == e \in Listed \cap Healthy

UpdatableRestarted ==
    \A e \in Engine : PauseIsJoin /\ CrashesSeen /\ e[1] \in Updatable /\ ~Serving(e)
                      ~> \/ Serving(e) /\ e \in current
                         \/ driver = "failed" /\ Answering = {}
=============================================================================
