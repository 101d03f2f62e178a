------------------------ MODULE FaultToleranceProofs ------------------------
(* Proofs about FaultTolerance: types, the weights an engine serves, the engines the *)
(* ranks push to and the memory hand-over, for any number of groups, engines, nodes  *)
(* and ranks, any crashes and any timing of the monitors. *)
EXTENDS FaultTolerance, FiniteSetTheorems, TLAPS

\* A monitor checks and kills engines that its group has.
InRange == \A g \in Group : monitor[g] \in {"check", "kill"} => index[g] \in 1..NumEngines

Types == TypeOK /\ InRange

\* After a push every updatable engine has the weights, until it is started again or
\* the next training step ends.
CurrentInv ==
    driver \in {"onload_kv", "ready", "generate", "abort"} => EnginesOf(Updatable) \subseteq current

\* Between two updates all ranks are connected to the same engines. In an update either
\* none of them connects, or all do before num_new_engines is cleared; one that has
\* connected lost no engine that still answers.
AllAgree == \A r, q \in Rank : connected[r] = connected[q]

ConnectedInv ==
    \A r, q \in Rank : rank[r] = "barrier" /\ rank[q] = "barrier" =>
        /\ connected[r] = connected[q]
        /\ EnginesOf(Updatable) \cap Healthy \subseteq connected[r]
        /\ connected[r] \subseteq EnginesOf(Updatable)

AgreeInv ==
    /\ driver \notin {"ranks", "failed"} => AllAgree
    /\ driver = "ranks" /\ AnyNew =>
         ConnectedInv /\ \A r \in Rank : rank[r] \in {"fetch", "connect", "barrier"}
    /\ driver = "ranks" /\ ~AnyNew =>
         AllAgree /\ \A r \in Rank : rank[r] \in {"fetch", "push"}

\* What an offloaded engine of the list holds in each phase. While engines are started,
\* those of a group that is done hold just the weights unless they were started: in one
\* of its slots an actor is new, and the new slots are at least those that were dead.
Onboard(e, m) == e \in Listed /\ e[1] \in Offloaded => mem[e] = m

PhaseMem ==
    \A e \in Engine :
        /\ driver \in {"onload_weights", "train"} => Onboard(e, {})
        /\ driver \in {"update", "recover", "ranks", "onload_kv"} => Onboard(e, {"weights"})
        /\ driver \in {"ready", "generate", "abort", "pause", "offload"} => Onboard(e, GPU)
        /\ driver = "start" /\ e[1] \notin Updatable \ todo => Onboard(e, {"weights"})

SlotsOf(g) == {s \in Slot : s[1] = g}

StartedMem ==
    driver = "start" =>
        /\ todo \subseteq Updatable
        /\ \A g \in todo : dead[g] \subseteq SlotsOf(g) \ present
        /\ \A g \in Updatable \ todo :
              \E new \in SUBSET SlotsOf(g) :
                  /\ numNew[g] = Cardinality(new) /\ dead[g] \subseteq new
                  /\ \A e \in Engine : e[1] = g /\ Slots(e) \cap new = {} =>
                        Onboard(e, {"weights"})

MemInv == PhaseMem /\ StartedMem

IInv == Types /\ CurrentInv /\ AgreeInv /\ MemInv

----------------------------------------------------------------------------
\* Slots and engines.
LEMMA Layout ==
    /\ NumGroups \in Nat \ {0} /\ NumEngines \in Nat \ {0} /\ NodesPerEngine \in Nat \ {0}
    /\ NumRanks \in Nat \ {0} /\ MaxFaults \in Nat /\ 0 \in Node /\ 0 \in Rank
  BY ServerAssumption DEF Node, Rank

LEMMA SlotFacts ==
    /\ \A e \in Engine : /\ e[1] \in Group /\ Slots(e) \subseteq Slot
                         /\ Head(e) \in Slots(e)
                         /\ \A s \in Slots(e) : s[1] = e[1]
    /\ \A g \in Group, i \in 1..NumEngines, n \in Node :
          <<g, i>> \in Engine /\ <<g, i, n>> \in Slots(<<g, i>>) /\ <<g, i, n>> \in Slot
<1>1. ASSUME NEW e \in Engine
      PROVE  /\ e[1] \in Group /\ Slots(e) \subseteq Slot
             /\ Head(e) \in Slots(e)
             /\ \A s \in Slots(e) : s[1] = e[1]
  <2>1. e[1] \in Group /\ e[2] \in 1..NumEngines  BY DEF Engine
  <2>2. ASSUME NEW s \in Slots(e)  PROVE s \in Slot /\ s[1] = e[1]
    <3>1. PICK n \in Node : s = <<e[1], e[2], n>>  BY DEF Slots
    <3> QED  BY <2>1, <3>1 DEF Slot
  <2>3. Head(e) \in Slots(e)  BY Layout DEF Head, Slots
  <2> QED  BY <2>1, <2>2, <2>3
<1>2. ASSUME NEW g \in Group, NEW i \in 1..NumEngines, NEW n \in Node
      PROVE  <<g, i>> \in Engine /\ <<g, i, n>> \in Slots(<<g, i>>) /\ <<g, i, n>> \in Slot
  BY DEF Engine, Slots, Slot
<1> QED  BY <1>1, <1>2

\* A group has NumEngines * NodesPerEngine slots.
LEMMA GroupSlots ==
    ASSUME NEW g \in Group, NEW S \in SUBSET SlotsOf(g)
    PROVE  IsFiniteSet(S) /\ Cardinality(S) \in 0..(NumEngines * NodesPerEngine)
<1> DEFINE P == (1..NumEngines) \X Node
<1> DEFINE f == [s \in S |-> <<s[2], s[3]>>]
<1>1. IsFiniteSet(1..NumEngines) /\ Cardinality(1..NumEngines) = NumEngines
  BY Layout, FS_Interval
<1>2. IsFiniteSet(Node) /\ Cardinality(Node) = NodesPerEngine
  BY Layout, FS_Interval DEF Node
<1>3. IsFiniteSet(P) /\ Cardinality(P) = NumEngines * NodesPerEngine
  BY <1>1, <1>2, FS_Product
<1>4. \A s \in S : /\ s = <<s[1], s[2], s[3]>> /\ s[1] = g
                   /\ s[2] \in 1..NumEngines /\ s[3] \in Node
  BY DEF SlotsOf, Slot
<1>5. f \in [S -> P]  BY <1>4
<1>6. \A s, t \in S : f[s] = f[t] => s = t
  <2> SUFFICES ASSUME NEW s \in S, NEW t \in S, f[s] = f[t]  PROVE s = t
    OBVIOUS
  <2>1. s[2] = t[2] /\ s[3] = t[3]  OBVIOUS
  <2> QED  BY <1>4, <2>1
<1> HIDE DEF f, P
<1>7. f \in Injection(S, P)  BY <1>5, <1>6 DEF Injection, IsInjective
<1>8. IsFiniteSet(S) /\ Cardinality(S) <= Cardinality(P)  BY <1>3, <1>7, FS_Injection
<1> QED  BY <1>3, <1>8, FS_CardinalityType

LEMMA InitInv == Init => IInv
<1> SUFFICES ASSUME Init  PROVE IInv
  OBVIOUS
<1>1. TypeOK
  <2>1. NumEngines * NodesPerEngine \in 0..(NumEngines * NodesPerEngine)  BY Layout
  <2>2. 1 \in 1..(NumEngines + 1) /\ 0 \in 0..MaxFaults  BY Layout
  <2> QED  BY Layout, <2>1, <2>2 DEF Init, TypeOK, GPU
<1>2. InRange /\ CurrentInv /\ AgreeInv  BY DEF Init, InRange, CurrentInv, AgreeInv, AllAgree
<1>3. MemInv
  BY SlotFacts DEF Init, MemInv, PhaseMem, StartedMem, Onboard, EnginesOf, Listed
<1> QED  BY <1>1, <1>2, <1>3 DEF IInv, Types

----------------------------------------------------------------------------
\* Steps of the threads, and the calls that only resume them.

\* The three invariants other than the types do not depend on the monitors.
LEMMA MonitorQuiet ==
    ASSUME IInv, Types',
           UNCHANGED <<layout, driver, present, alive, mem, current, recoverVars, rankVars>>
    PROVE  IInv'
<1>1. /\ layout' = layout /\ driver' = driver /\ present' = present /\ alive' = alive
      /\ mem' = mem /\ current' = current
      /\ numNew' = numNew /\ todo' = todo /\ dead' = dead
      /\ rank' = rank /\ connected' = connected
  BY DEF recoverVars, rankVars
<1>2. CurrentInv'  BY <1>1 DEF IInv, CurrentInv, EnginesOf, Updatable
<1>3. AgreeInv'
  BY <1>1 DEF IInv, AgreeInv, AllAgree, ConnectedInv, AnyNew, EnginesOf, Healthy, Updatable
<1>4. MemInv'
  BY <1>1
  DEF IInv, MemInv, PhaseMem, StartedMem, Onboard, Listed, Offloaded, Updatable
<1> QED  BY <1>2, <1>3, <1>4 DEF IInv

LEMMA MonitorTypes ==
    ASSUME IInv, NEW g \in Group,
           LeavePause(g) \/ EndFirstWait(g) \/ BeginRound(g) \/ NextEngine(g)
             \/ InTime(g) \/ CheckFails(g) \/ EndInterval(g)
    PROVE  /\ Types'
           /\ UNCHANGED <<layout, driver, present, alive, mem, current, recoverVars, rankVars>>
<1>1. TypeOK /\ InRange  BY DEF IInv, Types
<1>2. index[g] \in 1..(NumEngines + 1)  BY <1>1 DEF TypeOK
<1>3. CASE LeavePause(g)
  BY <1>1, <1>3
  DEF LeavePause, Move, Types, TypeOK, InRange, engineVars, recoverVars, rankVars, eventVars
<1>4. CASE EndFirstWait(g)
  BY <1>1, <1>4
  DEF EndFirstWait, Move, Types, TypeOK, InRange, engineVars, recoverVars, rankVars
<1>5. CASE BeginRound(g)
  <2>1. 1 \in 1..(NumEngines + 1)  BY Layout
  <2> QED
    BY <1>1, <1>5, <2>1
    DEF BeginRound, Move, Types, TypeOK, InRange, engineVars, recoverVars, rankVars, eventVars
<1>6. CASE NextEngine(g)
  <2>1. CASE paused \/ PastEnd(g)
    BY <1>1, <1>6, <2>1
    DEF NextEngine, Move, Types, TypeOK, InRange, engineVars, recoverVars, rankVars, eventVars
  <2>2. CASE ~(paused \/ PastEnd(g)) /\ <<g, index[g]>> \in Listed
    <3>1. index[g] \in 1..NumEngines  BY <2>2 DEF Listed, Engine
    <3> QED
      BY <1>1, <1>6, <2>2, <3>1
      DEF NextEngine, Move, Types, TypeOK, InRange, engineVars, recoverVars, rankVars,
          eventVars
  <2>3. CASE ~(paused \/ PastEnd(g)) /\ <<g, index[g]>> \notin Listed
    <3>1. index[g] + 1 \in 1..(NumEngines + 1)  BY <1>2, <2>3, Layout DEF PastEnd
    <3>2. index' = [index EXCEPT ![g] = index[g] + 1] /\ monitor' = monitor
      BY <1>6, <2>3 DEF NextEngine
    <3>3. monitor[g] = "next"  BY <1>6 DEF NextEngine
    <3> QED
      BY <1>1, <1>6, <2>3, <3>1, <3>2, <3>3
      DEF NextEngine, Types, TypeOK, InRange, engineVars, recoverVars, rankVars, eventVars
  <2> QED  BY <2>1, <2>2, <2>3
<1>7. CASE InTime(g)
  <2>1. index[g] \in 1..NumEngines  BY <1>1, <1>7 DEF InTime, InRange
  <2>2. index[g] + 1 \in 1..(NumEngines + 1)  BY <2>1, Layout
  <2> QED
    BY <1>1, <1>7, <2>2, Layout
    DEF InTime, Move, Types, TypeOK, InRange, engineVars, recoverVars, rankVars, eventVars
<1>9. CASE CheckFails(g)
  <2>1. index[g] \in 1..NumEngines  BY <1>1, <1>9 DEF CheckFails, InRange
  <2>2. faults' \in 0..MaxFaults  BY <1>1, <1>9, Layout DEF CheckFails, TypeOK
  <2> QED
    BY <1>1, <1>9, <2>1, <2>2, Layout
    DEF CheckFails, Move, Types, TypeOK, InRange, recoverVars, rankVars, eventVars
<1>8. CASE EndInterval(g)
  BY <1>1, <1>8
  DEF EndInterval, Move, Types, TypeOK, InRange, engineVars, recoverVars, rankVars, eventVars
<1> QED  BY <1>3, <1>4, <1>5, <1>6, <1>7, <1>8, <1>9

LEMMA EvalTypes ==
    ASSUME IInv, Eval
    PROVE  /\ Types'
           /\ UNCHANGED <<layout, driver, present, alive, mem, current, recoverVars, rankVars>>
  BY DEF IInv, Eval, ResumeMonitors, Types, TypeOK, InRange, engineVars, recoverVars, rankVars

LEMMA StutterTypes ==
    ASSUME IInv, UNCHANGED vars
    PROVE  /\ Types'
           /\ UNCHANGED <<layout, driver, present, alive, mem, current, recoverVars, rankVars>>
  BY DEF IInv, vars, Types, TypeOK, InRange, engineVars, recoverVars, rankVars, eventVars,
         threadVars

\* A crash and a kill take something from the engines, and a kill from all ranks alike.
LEMMA Losing ==
    ASSUME IInv, Types', NEW E \in SUBSET Engine, E \cap Healthy' = {},
           UNCHANGED <<layout, driver, mem, current, recoverVars, rank>>,
           present' \subseteq present, alive' \subseteq alive,
           \A r \in Rank : connected'[r] = connected[r] \ E
    PROVE  IInv'
<1>1. /\ layout' = layout /\ driver' = driver /\ mem' = mem /\ current' = current
      /\ numNew' = numNew /\ todo' = todo /\ dead' = dead /\ rank' = rank
  BY DEF recoverVars
<1>2. EnginesOf(Updatable)' = EnginesOf(Updatable) /\ Offloaded' = Offloaded
      /\ Updatable' = Updatable /\ AnyNew' = AnyNew
  BY <1>1 DEF EnginesOf, Updatable, Offloaded, AnyNew
<1>3. CurrentInv'  BY <1>1, <1>2 DEF IInv, CurrentInv
<1>4. Healthy' \subseteq Healthy  BY DEF Healthy
<1>5. AllAgree => AllAgree'  BY DEF AllAgree
<1>6. ConnectedInv => ConnectedInv'
  <2> SUFFICES ASSUME ConnectedInv, NEW r \in Rank, NEW q \in Rank,
                      rank[r] = "barrier", rank[q] = "barrier"
               PROVE  /\ connected'[r] = connected'[q]
                      /\ EnginesOf(Updatable) \cap Healthy' \subseteq connected'[r]
                      /\ connected'[r] \subseteq EnginesOf(Updatable)
    BY <1>1, <1>2 DEF ConnectedInv
  <2>1. /\ connected[r] = connected[q]
        /\ EnginesOf(Updatable) \cap Healthy \subseteq connected[r]
        /\ connected[r] \subseteq EnginesOf(Updatable)
    BY DEF ConnectedInv
  <2> QED  BY <1>4, <2>1
<1>7. AgreeInv'  BY <1>1, <1>2, <1>5, <1>6 DEF IInv, AgreeInv
<1>8. Listed' \subseteq Listed  BY DEF Listed
<1>9. \A e, m : Onboard(e, m) => Onboard(e, m)'  BY <1>1, <1>2, <1>8 DEF Onboard
<1>10. PhaseMem'  BY <1>1, <1>2, <1>9 DEF IInv, MemInv, PhaseMem
<1>11. StartedMem'
  <2> SUFFICES ASSUME driver = "start"
               PROVE  /\ \A g \in todo : dead[g] \subseteq SlotsOf(g) \ present'
                      /\ todo \subseteq Updatable
                      /\ \A g \in Updatable \ todo :
                            \E new \in SUBSET SlotsOf(g) :
                                /\ numNew[g] = Cardinality(new) /\ dead[g] \subseteq new
                                /\ \A e \in Engine : e[1] = g /\ Slots(e) \cap new = {} =>
                                      Onboard(e, {"weights"})'
    BY <1>1, <1>2 DEF StartedMem
  <2>1. /\ todo \subseteq Updatable
        /\ \A g \in todo : dead[g] \subseteq SlotsOf(g) \ present
        /\ \A g \in Updatable \ todo :
              \E new \in SUBSET SlotsOf(g) :
                  /\ numNew[g] = Cardinality(new) /\ dead[g] \subseteq new
                  /\ \A e \in Engine : e[1] = g /\ Slots(e) \cap new = {} =>
                        Onboard(e, {"weights"})
    BY DEF IInv, MemInv, StartedMem
  <2>2. \A g \in todo : dead[g] \subseteq SlotsOf(g) \ present'  BY <2>1
  <2>3. ASSUME NEW g \in Updatable \ todo
        PROVE  \E new \in SUBSET SlotsOf(g) :
                   /\ numNew[g] = Cardinality(new) /\ dead[g] \subseteq new
                   /\ \A e \in Engine : e[1] = g /\ Slots(e) \cap new = {} =>
                         Onboard(e, {"weights"})'
    <3>1. PICK new \in SUBSET SlotsOf(g) :
              /\ numNew[g] = Cardinality(new) /\ dead[g] \subseteq new
              /\ \A e \in Engine : e[1] = g /\ Slots(e) \cap new = {} =>
                    Onboard(e, {"weights"})
      BY <2>1
    <3>2. \A e \in Engine : e[1] = g /\ Slots(e) \cap new = {} => Onboard(e, {"weights"})'
      BY <1>9, <3>1
    <3> QED  BY <3>1, <3>2
  <2> QED  BY <2>1, <2>2, <2>3
<1> QED  BY <1>3, <1>7, <1>10, <1>11 DEF IInv, MemInv

LEMMA KillInv ==
    ASSUME IInv, NEW g \in Group, KillNode(g)
    PROVE  IInv'
<1> DEFINE e == <<g, index[g]>>
<1>1. /\ monitor[g] = "kill"
      /\ present' = present \ {<<g, index[g], killing[g]>>}
      /\ alive' = alive \ {<<g, index[g], killing[g]>>}
      /\ connected' = [r \in Rank |-> connected[r] \ {e}]
  BY DEF KillNode
<1>2. index[g] \in 1..NumEngines /\ killing[g] \in Node
  BY <1>1 DEF IInv, Types, TypeOK, InRange
<1>3. e \in Engine /\ <<g, index[g], killing[g]>> \in Slots(e)  BY <1>2, SlotFacts
<1>4. {e} \cap Healthy' = {}
  <2>1. ~(Slots(e) \subseteq alive')  BY <1>1, <1>3
  <2> HIDE DEF e
  <2> QED  BY <2>1 DEF Healthy
<1>5. Types'
  <2>1. index[g] + 1 \in 1..(NumEngines + 1)  BY <1>2, Layout
  <2>2. killing[g] # LastNode => killing[g] + 1 \in Node  BY <1>2, Layout DEF LastNode, Node
  <2>3. connected' \in [Rank -> SUBSET Engine]  BY <1>1 DEF IInv, Types, TypeOK
  <2>4. present' \subseteq Slot /\ alive' \subseteq Slot  BY <1>1 DEF IInv, Types, TypeOK
  <2>5. CASE killing[g] = LastNode
    BY <1>1, <2>1, <2>3, <2>4, <2>5
    DEF KillNode, Move, IInv, Types, TypeOK, InRange, recoverVars, eventVars
  <2>6. CASE killing[g] # LastNode
    BY <1>1, <2>2, <2>3, <2>4, <2>6
    DEF KillNode, Move, IInv, Types, TypeOK, InRange, recoverVars, eventVars
  <2> QED  BY <2>5, <2>6
<1> QED  BY <1>1, <1>3, <1>4, <1>5, Losing DEF KillNode

LEMMA CrashInv ==
    ASSUME IInv, NEW s \in Slot, Crash(s)
    PROVE  IInv'
<1>1. Types'
  <2>1. faults + 1 \in 0..MaxFaults  BY Layout DEF Crash, IInv, Types, TypeOK
  <2> QED
    BY <2>1
    DEF Crash, IInv, Types, TypeOK, InRange, recoverVars, rankVars, eventVars, threadVars
<1>2. {} \in SUBSET Engine /\ {} \cap Healthy' = {}  OBVIOUS
<1>3. \A r \in Rank : connected'[r] = connected[r] \ {}  BY DEF Crash, rankVars
<1>4. present' \subseteq present /\ alive' \subseteq alive  BY DEF Crash
<1> QED  BY <1>1, <1>2, <1>3, <1>4, Losing DEF Crash, rankVars

----------------------------------------------------------------------------
\* Steps of the driver.

\* What has its type does not change with the phase.
LEMMA PhaseTypes ==
    ASSUME IInv, driver' \in {"onload_weights", "update", "recover", "start", "ranks",
                              "onload_kv", "ready", "generate", "abort", "pause", "offload",
                              "train", "failed"},
           UNCHANGED <<layout, present, alive, faults, threadVars>>,
           begun' \in BOOLEAN, paused' \in BOOLEAN, needWait' \in [Group -> BOOLEAN],
           current' \subseteq Engine, mem' \in [Engine -> SUBSET GPU],
           numNew' \in [Group -> 0..(NumEngines * NodesPerEngine)],
           todo' \subseteq Group, dead' \in [Group -> SUBSET Slot],
           rank' \in [Rank -> {"idle", "fetch", "connect", "barrier", "push"}],
           seen' \in [Rank -> SUBSET Engine], connected' \in [Rank -> SUBSET Engine]
    PROVE  Types'
  BY DEF IInv, Types, TypeOK, InRange, threadVars

\* Steps of the loop outside an update, that leave the ranks alone.
LEMMA LoopStep ==
    ASSUME IInv, Types', driver \notin {"ranks", "failed"}, connected' = connected,
           driver' \notin {"ranks", "start", "onload_kv"},
           layout' = layout, present' = present,
           driver' = "ready" => driver = "onload_kv",
           driver' = "generate" => driver = "ready",
           driver' = "abort" => driver = "generate",
           driver' \in {"ready", "generate", "abort"} => current' = current,
           \A e \in Engine :
               /\ driver' \in {"onload_weights", "train"} => Onboard(e, {})'
               /\ driver' \in {"update", "recover"} => Onboard(e, {"weights"})'
               /\ driver' \in {"ready", "generate", "abort", "pause", "offload"}
                      => Onboard(e, GPU)'
    PROVE  IInv'
<1>1. CurrentInv'  BY DEF IInv, CurrentInv, EnginesOf, Updatable
<1>2. AgreeInv'  BY DEF IInv, AgreeInv, AllAgree
<1>3. MemInv'  BY DEF MemInv, PhaseMem, StartedMem
<1> QED  BY <1>1, <1>2, <1>3 DEF IInv

LEMMA OnloadWeightsInv ==
    ASSUME IInv, OnloadWeights
    PROVE  IInv'
<1> DEFINE on == Listed \cap EnginesOf(Offloaded)
<1>1. /\ driver = "onload_weights" /\ driver' \in {"update", "failed"}
      /\ mem' = [e \in Engine |-> IF e \in on THEN mem[e] \cup {"weights"} ELSE mem[e]]
      /\ layout' = layout /\ present' = present
  BY DEF OnloadWeights, Go, AfterOnload
<1>2. Types'
  <2>1. mem' \in [Engine -> SUBSET GPU]  BY <1>1 DEF IInv, Types, TypeOK, GPU
  <2> QED
    BY <1>1, <2>1, PhaseTypes
    DEF OnloadWeights, recoverVars, rankVars, eventVars, IInv, Types, TypeOK
<1>3. \A e \in Engine : driver' \in {"update", "recover"} => Onboard(e, {"weights"})'
  <2> SUFFICES ASSUME NEW e \in Engine, e \in Listed, e[1] \in Offloaded
               PROVE  mem'[e] = {"weights"}
    BY <1>1 DEF Onboard, Listed, Offloaded
  <2>1. mem[e] = {}  BY <1>1 DEF IInv, MemInv, PhaseMem, Onboard
  <2>2. e \in on  BY DEF EnginesOf
  <2> QED  BY <1>1, <2>1, <2>2
<1> QED  BY <1>1, <1>2, <1>3, LoopStep DEF OnloadWeights, rankVars

LEMMA RecoverInv ==
    ASSUME IInv, Recover
    PROVE  IInv'
<1>1. /\ driver = "update" /\ driver' \in {"ranks", "recover"}
      /\ rank' \in [Rank -> {"fetch", "idle"}]
      /\ driver' = "ranks" => \A r \in Rank : rank'[r] = "fetch"
      /\ layout' = layout /\ present' = present /\ mem' = mem /\ numNew' = numNew
      /\ connected' = connected /\ current' = current
  BY DEF Recover, engineVars, recoverVars
<1>2. Types'
  <2>1. rank' \in [Rank -> {"idle", "fetch", "connect", "barrier", "push"}]  BY <1>1
  <2> QED
    BY <1>1, <2>1, PhaseTypes
    DEF Recover, PauseMonitors, engineVars, recoverVars, IInv, Types, TypeOK
<1>3. CurrentInv'  BY <1>1 DEF CurrentInv
<1>4. AgreeInv'
  BY <1>1 DEF IInv, AgreeInv, AllAgree, ConnectedInv
<1>5. MemInv'
  BY <1>1 DEF IInv, MemInv, PhaseMem, StartedMem, Onboard, Listed, Offloaded
<1> QED  BY <1>2, <1>3, <1>4, <1>5 DEF IInv

LEMMA RecordDeadInv ==
    ASSUME IInv, RecordDead
    PROVE  IInv'
<1>1. /\ driver = "recover" /\ driver' = "start" /\ todo' = Updatable
      /\ dead' = [g \in Group |-> {s \in Slot \ present : s[1] = g /\ g \in Updatable}]
      /\ layout' = layout /\ present' = present /\ mem' = mem /\ connected' = connected
  BY DEF RecordDead, engineVars, rankVars
<1>2. Updatable \subseteq Group  BY ServerAssumption DEF IInv, Types, TypeOK, Updatable
<1>3. Types'
  <2>1. dead' \in [Group -> SUBSET Slot]  BY <1>1
  <2> QED
    BY <1>1, <1>2, <2>1, PhaseTypes
    DEF RecordDead, engineVars, rankVars, eventVars, IInv, Types, TypeOK
<1>4. CurrentInv' /\ AgreeInv'  BY <1>1 DEF CurrentInv, IInv, AgreeInv, AllAgree
<1>5. PhaseMem'
  BY <1>1 DEF IInv, MemInv, PhaseMem, Onboard, Listed, Offloaded
<1>6. StartedMem'
  <2>1. Updatable' = Updatable  BY <1>1 DEF Updatable
  <2>2. \A g \in Updatable : dead'[g] \subseteq SlotsOf(g) \ present
    BY <1>1, <1>2 DEF SlotsOf
  <2> QED  BY <1>1, <2>1, <2>2 DEF StartedMem
<1> QED  BY <1>3, <1>4, <1>5, <1>6 DEF IInv, MemInv

LEMMA StartEnginesInv ==
    ASSUME IInv, StartEngines
    PROVE  IInv'
<1>1. PICK g \in todo :
          LET new == {s \in Slot \ present : s[1] = g} IN
          /\ todo' = todo \ {g}
          /\ numNew' = [numNew EXCEPT ![g] = Count(new)]
          /\ present' = present \cup new /\ alive' = alive \cup new
          /\ mem' = [e \in Engine |-> IF Slots(e) \cap new # {} THEN GPU ELSE mem[e]]
          /\ current' = {e \in current : Slots(e) \cap new = {}}
  BY DEF StartEngines
<1>2. PICK new : new = {s \in Slot \ present : s[1] = g}  OBVIOUS
<1>3. /\ todo' = todo \ {g}
      /\ numNew' = [numNew EXCEPT ![g] = Cardinality(new)]
      /\ present' = present \cup new /\ alive' = alive \cup new
      /\ mem' = [e \in Engine |-> IF Slots(e) \cap new # {} THEN GPU ELSE mem[e]]
      /\ current' = {e \in current : Slots(e) \cap new = {}}
  BY <1>1, <1>2 DEF Count
<1>4. /\ driver = "start" /\ driver' = "start" /\ layout' = layout /\ dead' = dead
      /\ connected' = connected
  BY DEF StartEngines, rankVars
<1>5. new \in SUBSET SlotsOf(g) /\ g \in Group /\ \A s \in new : s[1] = g
  BY <1>2 DEF IInv, Types, TypeOK, SlotsOf
<1>6. Types'
  <2>1. numNew' \in [Group -> 0..(NumEngines * NodesPerEngine)]
    <3>1. Cardinality(new) \in 0..(NumEngines * NodesPerEngine)  BY <1>5, GroupSlots
    <3> QED  BY <1>3, <3>1 DEF IInv, Types, TypeOK
  <2>2. present' \subseteq Slot /\ alive' \subseteq Slot /\ current' \subseteq Engine
    BY <1>2, <1>3 DEF IInv, Types, TypeOK
  <2>3. mem' \in [Engine -> SUBSET GPU]  BY <1>3 DEF IInv, Types, TypeOK
  <2>4. todo' \subseteq Group  BY <1>3 DEF IInv, Types, TypeOK
  <2> QED
    BY <1>4, <2>1, <2>2, <2>3, <2>4
    DEF StartEngines, rankVars, eventVars, threadVars, IInv, Types, TypeOK, InRange
<1>7. CurrentInv' /\ AgreeInv'  BY <1>4 DEF CurrentInv, IInv, AgreeInv, AllAgree
<1>8. Updatable' = Updatable /\ Offloaded' = Offloaded  BY <1>4 DEF Updatable, Offloaded
<1>9. /\ todo \subseteq Updatable
      /\ \A h \in todo : dead[h] \subseteq SlotsOf(h) \ present
      /\ \A h \in Updatable \ todo :
            \E old \in SUBSET SlotsOf(h) :
                /\ numNew[h] = Cardinality(old) /\ dead[h] \subseteq old
                /\ \A e \in Engine : e[1] = h /\ Slots(e) \cap old = {} =>
                      Onboard(e, {"weights"})
  BY <1>4 DEF IInv, MemInv, StartedMem
<1>10. ASSUME NEW e \in Engine, Slots(e) \cap new = {}, Onboard(e, {"weights"})
       PROVE  Onboard(e, {"weights"})'
  <2> SUFFICES ASSUME Head(e) \in present', e[1] \in Offloaded
               PROVE  mem'[e] = {"weights"}
    BY <1>8 DEF Onboard, Listed
  <2>1. Head(e) \in present  BY <1>3, <1>10, SlotFacts
  <2>2. mem[e] = {"weights"}  BY <1>10, <2>1 DEF Onboard, Listed
  <2> QED  BY <1>3, <1>10, <2>2
<1>11. \A e \in Engine : e[1] # g => Slots(e) \cap new = {}  BY <1>5, SlotFacts
<1>12. PhaseMem'
  <2> SUFFICES ASSUME NEW e \in Engine, e[1] \notin Updatable \ todo'
               PROVE  Onboard(e, {"weights"})'
    BY <1>4, <1>8 DEF PhaseMem
  <2>1. e[1] # g /\ e[1] \notin Updatable \ todo  BY <1>3, <1>9
  <2>2. Onboard(e, {"weights"})  BY <1>4, <2>1 DEF IInv, MemInv, PhaseMem
  <2> QED  BY <1>10, <1>11, <2>1, <2>2
<1>13. StartedMem'
  <2>1. todo' \subseteq Updatable  BY <1>3, <1>9
  <2>2. \A h \in todo' : dead[h] \subseteq SlotsOf(h) \ present'
    <3> SUFFICES ASSUME NEW h \in todo', NEW s \in dead[h]
                 PROVE  s \in SlotsOf(h) \ present'
      OBVIOUS
    <3>1. h # g /\ s \in SlotsOf(h) \ present  BY <1>3, <1>9
    <3>2. s \notin new  BY <1>5, <3>1 DEF SlotsOf
    <3> QED  BY <1>3, <3>1, <3>2
  <2>3. ASSUME NEW h \in Updatable \ todo'
        PROVE  \E old \in SUBSET SlotsOf(h) :
                   /\ numNew'[h] = Cardinality(old) /\ dead[h] \subseteq old
                   /\ \A e \in Engine : e[1] = h /\ Slots(e) \cap old = {} =>
                         Onboard(e, {"weights"})'
    <3>1. CASE h = g
      <4>1. numNew'[g] = Cardinality(new)
        BY <1>3, <1>5 DEF IInv, Types, TypeOK
      <4>2. dead[g] \subseteq new  BY <1>2, <1>9 DEF SlotsOf
      <4>3. \A e \in Engine : e[1] = g => Onboard(e, {"weights"})
        BY <1>4 DEF IInv, MemInv, PhaseMem
      <4> QED  BY <1>5, <1>10, <3>1, <4>1, <4>2, <4>3
    <3>2. CASE h # g
      <4>1. h \in Updatable \ todo  BY <1>3, <3>2
      <4>2. PICK old \in SUBSET SlotsOf(h) :
                /\ numNew[h] = Cardinality(old) /\ dead[h] \subseteq old
                /\ \A e \in Engine : e[1] = h /\ Slots(e) \cap old = {} =>
                      Onboard(e, {"weights"})
        BY <1>9, <4>1
      <4>3. numNew'[h] = numNew[h]  BY <1>3, <3>2 DEF IInv, Types, TypeOK
      <4>4. \A e \in Engine : e[1] = h /\ Slots(e) \cap old = {} =>
                Onboard(e, {"weights"})'
        BY <1>10, <1>11, <3>2, <4>2
      <4> QED  BY <4>2, <4>3, <4>4
    <3> QED  BY <3>1, <3>2
  <2> QED  BY <1>4, <1>8, <2>1, <2>2, <2>3 DEF StartedMem
<1> QED  BY <1>6, <1>7, <1>12, <1>13 DEF IInv, MemInv

LEMMA FinishRecoverInv ==
    ASSUME IInv, FinishRecover
    PROVE  IInv'
<1> DEFINE lost == UNION {dead[g] : g \in Group}
<1> DEFINE fresh == {e \in Engine : Slots(e) \cap lost # {}}
<1>1. /\ driver = "start" /\ todo = {} /\ driver' \in {"ranks", "failed"}
      /\ layout' = layout /\ present' = present /\ connected' = connected
      /\ driver' = "ranks" =>
            /\ \A g \in Updatable : numNew[g] = Cardinality(dead[g])
            /\ rank' = [r \in Rank |-> "fetch"]
            /\ mem' = [e \in Engine |-> IF e \in fresh THEN HandOver(mem, e) ELSE mem[e]]
      /\ driver' = "failed" => rank' = rank /\ mem' = mem
  BY DEF FinishRecover
<1>2. Updatable \subseteq Group  BY ServerAssumption DEF IInv, Types, TypeOK, Updatable
<1>3. Types'
  <2>1. mem' \in [Engine -> SUBSET GPU]
    <3>1. \A e \in Engine : HandOver(mem, e) \in SUBSET GPU
      BY DEF HandOver, IInv, Types, TypeOK, GPU
    <3> QED  BY <1>1, <3>1 DEF IInv, Types, TypeOK
  <2>2. rank' \in [Rank -> {"idle", "fetch", "connect", "barrier", "push"}]
    BY <1>1 DEF IInv, Types, TypeOK
  <2> QED
    BY <1>1, <2>1, <2>2, PhaseTypes
    DEF FinishRecover, recoverVars, eventVars, IInv, Types, TypeOK
<1>4. CurrentInv'  BY <1>1 DEF CurrentInv
<1>5. AgreeInv'
  <2>1. driver' = "ranks" => \A r \in Rank : rank'[r] = "fetch"  BY <1>1
  <2> QED  BY <1>1, <2>1 DEF IInv, AgreeInv, AllAgree, ConnectedInv
<1>6. ASSUME NEW e \in Engine, driver' = "ranks"
      PROVE  Onboard(e, {"weights"})'
  <2> SUFFICES ASSUME e \in Listed, e[1] \in Offloaded
               PROVE  mem'[e] = {"weights"}
    BY <1>1 DEF Onboard, Listed, Offloaded
  <2>1. CASE e \in fresh  BY <1>1, <1>6, <2>1 DEF HandOver
  <2>2. CASE e \notin fresh
    <3>1. mem'[e] = mem[e]  BY <1>1, <1>6, <2>2
    <3>2. CASE e[1] \notin Updatable
      BY <1>1, <3>1, <3>2 DEF IInv, MemInv, PhaseMem, Onboard
    <3>3. CASE e[1] \in Updatable
      <4>1. PICK new \in SUBSET SlotsOf(e[1]) :
                /\ numNew[e[1]] = Cardinality(new) /\ dead[e[1]] \subseteq new
                /\ \A d \in Engine : d[1] = e[1] /\ Slots(d) \cap new = {} =>
                      Onboard(d, {"weights"})
        BY <1>1, <3>3 DEF IInv, MemInv, StartedMem
      <4>2. e[1] \in Group  BY <1>2, <3>3
      <4>3. IsFiniteSet(new)  BY <4>1, <4>2, GroupSlots
      <4>4. Cardinality(new) = Cardinality(dead[e[1]])  BY <1>1, <1>6, <3>3, <4>1
      <4>5. new = dead[e[1]]  BY <4>1, <4>3, <4>4, FS_Subset
      <4>6. dead[e[1]] \subseteq lost  BY <4>2
      <4>7. Slots(e) \cap new = {}  BY <2>2, <4>5, <4>6
      <4> QED  BY <3>1, <4>1, <4>7 DEF Onboard
    <3> QED  BY <3>2, <3>3
  <2> QED  BY <2>1, <2>2
<1>7. MemInv'  BY <1>1, <1>6 DEF MemInv, PhaseMem, StartedMem
<1> QED  BY <1>3, <1>4, <1>5, <1>7 DEF IInv

LEMMA OnloadKvInv ==
    ASSUME IInv, OnloadKv
    PROVE  IInv'
<1> DEFINE on == Listed \cap EnginesOf(Offloaded)
<1>1. /\ driver = "onload_kv" /\ driver' \in {"ready", "failed"}
      /\ mem' = [e \in Engine |-> IF e \in on THEN mem[e] \cup {"kv"} ELSE mem[e]]
      /\ layout' = layout /\ present' = present
  BY DEF OnloadKv, Go
<1>2. Types'
  <2>1. mem' \in [Engine -> SUBSET GPU]  BY <1>1 DEF IInv, Types, TypeOK, GPU
  <2> QED
    BY <1>1, <2>1, PhaseTypes
    DEF OnloadKv, recoverVars, rankVars, eventVars, IInv, Types, TypeOK
<1>3. \A e \in Engine : driver' = "ready" => Onboard(e, GPU)'
  <2> SUFFICES ASSUME NEW e \in Engine, e \in Listed, e[1] \in Offloaded
               PROVE  mem'[e] = GPU
    BY <1>1 DEF Onboard, Listed, Offloaded, GPU
  <2>1. mem[e] = {"weights"}  BY <1>1 DEF IInv, MemInv, PhaseMem, Onboard
  <2>2. e \in on  BY DEF EnginesOf
  <2> QED  BY <1>1, <2>1, <2>2 DEF GPU
<1> QED  BY <1>1, <1>2, <1>3, LoopStep DEF OnloadKv, rankVars

LEMMA GenerateInv ==
    ASSUME IInv, Generate
    PROVE  IInv'
<1>1. /\ driver = "ready" /\ driver' = "generate"
      /\ UNCHANGED <<layout, engineVars, recoverVars, rankVars, monitor, index, killing>>
  BY DEF Generate
<1>2. Types'
  BY <1>1, PhaseTypes
  DEF Generate, ResumeMonitors, engineVars, recoverVars, rankVars, threadVars, IInv, Types,
      TypeOK
<1>3. \A e \in Engine : Onboard(e, GPU)'
  BY <1>1 DEF IInv, MemInv, PhaseMem, Onboard, Listed, Offloaded, engineVars
<1> QED  BY <1>1, <1>2, <1>3, LoopStep DEF engineVars, rankVars

LEMMA GenerateEndsInv ==
    ASSUME IInv, Answered \/ RequestsFail \/ GenerateEnds
    PROVE  IInv'
<1>1. /\ UNCHANGED <<layout, begun, engineVars, recoverVars, rankVars, eventVars, threadVars>>
      /\ \/ driver = "generate" /\ driver' = "abort"
         \/ driver \in {"generate", "ready"} /\ driver' = "failed"
         \/ driver = "abort" /\ driver' = IF Offloaded = {} THEN "train" ELSE "pause"
  BY DEF Answered, RequestsFail, Unanswered, GenerateEnds
<1>2. Types'
  BY <1>1, PhaseTypes
  DEF engineVars, recoverVars, rankVars, eventVars, IInv, Types, TypeOK
<1>3. \A e \in Engine : driver' \in {"abort", "pause"} => Onboard(e, GPU)'
  BY <1>1 DEF IInv, MemInv, PhaseMem, Onboard, Listed, Offloaded, engineVars
<1>4. \A e \in Engine : driver' = "train" => Onboard(e, {})'
  BY <1>1 DEF Onboard, Offloaded
<1> QED  BY <1>1, <1>2, <1>3, <1>4, LoopStep DEF engineVars, rankVars

LEMMA PauseOffloadInv ==
    ASSUME IInv, PauseOffload
    PROVE  IInv'
<1>1. /\ driver = "pause" /\ driver' = "offload"
      /\ UNCHANGED <<layout, begun, engineVars, recoverVars, rankVars, threadVars>>
  BY DEF PauseOffload
<1>2. Types'
  BY <1>1, PhaseTypes
  DEF PauseOffload, BeforeRelease, PauseMonitors, engineVars, recoverVars, rankVars, IInv,
      Types, TypeOK
<1>3. \A e \in Engine : Onboard(e, GPU)'
  BY <1>1 DEF IInv, MemInv, PhaseMem, Onboard, Listed, Offloaded, engineVars
<1> QED  BY <1>1, <1>2, <1>3, LoopStep DEF engineVars, rankVars

LEMMA OffloadInv ==
    ASSUME IInv, Offload
    PROVE  IInv'
<1> DEFINE off == Listed \cap EnginesOf(Offloaded)
<1>1. /\ driver = "offload" /\ driver' \in {"train", "failed"}
      /\ mem' = [e \in Engine |-> IF e \in off THEN {} ELSE mem[e]]
      /\ layout' = layout /\ present' = present
  BY DEF Offload, Go
<1>2. Types'
  <2>1. mem' \in [Engine -> SUBSET GPU]  BY <1>1 DEF IInv, Types, TypeOK
  <2> QED
    BY <1>1, <2>1, PhaseTypes
    DEF Offload, recoverVars, rankVars, eventVars, IInv, Types, TypeOK
<1>3. \A e \in Engine : Onboard(e, {})'
  <2> SUFFICES ASSUME NEW e \in Engine, e \in Listed, e[1] \in Offloaded
               PROVE  mem'[e] = {}
    BY <1>1 DEF Onboard, Listed, Offloaded
  <2>1. e \in off  BY DEF EnginesOf
  <2> QED  BY <1>1, <2>1
<1> QED  BY <1>1, <1>2, <1>3, LoopStep DEF Offload, rankVars

LEMMA TrainInv ==
    ASSUME IInv, Train
    PROVE  IInv'
<1>1. /\ driver = "train" /\ driver' = "onload_weights" /\ current' = {}
      /\ layout' = layout /\ present' = present /\ mem' = mem
  BY DEF Train
<1>2. Types'
  BY <1>1, PhaseTypes
  DEF Train, recoverVars, rankVars, eventVars, IInv, Types, TypeOK
<1>3. \A e \in Engine : Onboard(e, {})'
  BY <1>1 DEF IInv, MemInv, PhaseMem, Onboard, Listed, Offloaded
<1> QED  BY <1>1, <1>2, <1>3, LoopStep DEF Train, rankVars

----------------------------------------------------------------------------
\* Steps of the ranks.

LEMMA FetchInv ==
    ASSUME IInv, NEW r \in Rank, Fetch(r)
    PROVE  IInv'
<1>1. /\ driver = "ranks" /\ driver' = "ranks" /\ rank[r] = "fetch"
      /\ rank' = [rank EXCEPT ![r] = IF AnyNew THEN "connect" ELSE "push"]
      /\ seen' = [seen EXCEPT ![r] = Given]
      /\ layout' = layout /\ present' = present /\ alive' = alive /\ mem' = mem
      /\ connected' = connected /\ numNew' = numNew
  BY DEF Fetch, engineVars, recoverVars
<1>2. rank \in [Rank -> {"idle", "fetch", "connect", "barrier", "push"}]
  BY DEF IInv, Types, TypeOK
<1>3. Types'
  <2>1. Given \subseteq Engine  BY DEF Given, Listed
  <2>2. seen' \in [Rank -> SUBSET Engine]  BY <1>1, <2>1 DEF IInv, Types, TypeOK
  <2>3. rank' \in [Rank -> {"idle", "fetch", "connect", "barrier", "push"}]  BY <1>1, <1>2
  <2> QED
    BY <1>1, <2>2, <2>3, PhaseTypes
    DEF Fetch, engineVars, recoverVars, eventVars, IInv, Types, TypeOK
<1>4. AnyNew' = AnyNew  BY <1>1 DEF AnyNew, Updatable
<1>5. CurrentInv'  BY <1>1 DEF CurrentInv
<1>6. AgreeInv'
  <2>1. CASE AnyNew
    <3>1. \A q \in Rank : rank'[q] = "barrier" <=> rank[q] = "barrier"  BY <1>1, <1>2, <2>1
    <3>2. \A q \in Rank : rank'[q] \in {"fetch", "connect", "barrier"}
      BY <1>1, <1>2, <2>1 DEF IInv, AgreeInv
    <3>3. ConnectedInv  BY <1>1, <2>1 DEF IInv, AgreeInv
    <3>4. EnginesOf(Updatable)' = EnginesOf(Updatable) /\ Healthy' = Healthy
      BY <1>1 DEF EnginesOf, Updatable, Healthy
    <3>5. ConnectedInv'  BY <1>1, <3>1, <3>3, <3>4 DEF ConnectedInv
    <3> QED  BY <1>1, <1>4, <2>1, <3>2, <3>5 DEF AgreeInv
  <2>2. CASE ~AnyNew
    BY <1>1, <1>2, <1>4, <2>2 DEF IInv, AgreeInv, AllAgree
  <2> QED  BY <2>1, <2>2
<1>7. MemInv'
  BY <1>1 DEF IInv, MemInv, PhaseMem, StartedMem, Onboard, Listed, Offloaded
<1> QED  BY <1>3, <1>5, <1>6, <1>7 DEF IInv

LEMMA ConnectInv ==
    ASSUME IInv, NEW r \in Rank, Connect(r)
    PROVE  IInv'
<1>1. /\ driver = "ranks" /\ rank[r] = "connect" /\ driver' \in {"ranks", "failed"}
      /\ driver' = "ranks" =>
            /\ seen[r] = EnginesOf(Updatable) /\ seen[r] \subseteq Healthy
            /\ connected' = [connected EXCEPT ![r] = seen[r]]
            /\ rank' = [rank EXCEPT ![r] = "barrier"]
      /\ driver' = "failed" => connected' = connected /\ rank' = rank
      /\ layout' = layout /\ present' = present /\ alive' = alive /\ mem' = mem
      /\ numNew' = numNew
  BY DEF Connect, engineVars, recoverVars
<1>2. /\ rank \in [Rank -> {"idle", "fetch", "connect", "barrier", "push"}]
      /\ connected \in [Rank -> SUBSET Engine] /\ seen \in [Rank -> SUBSET Engine]
  BY DEF IInv, Types, TypeOK
<1>3. Types'
  <2>1. connected' \in [Rank -> SUBSET Engine]  BY <1>1, <1>2
  <2>2. rank' \in [Rank -> {"idle", "fetch", "connect", "barrier", "push"}]  BY <1>1, <1>2
  <2> QED
    BY <1>1, <2>1, <2>2, PhaseTypes
    DEF Connect, engineVars, recoverVars, eventVars, IInv, Types, TypeOK
<1>4. CurrentInv'  BY <1>1 DEF CurrentInv
<1>5. AgreeInv'
  <2> SUFFICES ASSUME driver' = "ranks"
               PROVE  AgreeInv'
    BY <1>1 DEF AgreeInv
  <2>1. /\ AnyNew /\ AnyNew' /\ ConnectedInv
        /\ \A q \in Rank : rank[q] \in {"fetch", "connect", "barrier"}
    BY <1>1 DEF IInv, AgreeInv, AnyNew, Updatable
  <2>2. EnginesOf(Updatable)' = EnginesOf(Updatable) /\ Healthy' = Healthy
    BY <1>1 DEF EnginesOf, Updatable, Healthy
  <2>3. ASSUME NEW q \in Rank, rank'[q] = "barrier"
        PROVE  connected'[q] = EnginesOf(Updatable)
    <3>1. CASE q = r  BY <1>1, <1>2, <3>1
    <3>2. CASE q # r
      <4>1. rank[q] = "barrier" /\ connected'[q] = connected[q]  BY <1>1, <1>2, <2>3, <3>2
      <4>2. EnginesOf(Updatable) \cap Healthy = EnginesOf(Updatable)  BY <1>1
      <4>3. /\ EnginesOf(Updatable) \cap Healthy \subseteq connected[q]
            /\ connected[q] \subseteq EnginesOf(Updatable)
        BY <2>1, <4>1 DEF ConnectedInv
      <4> QED  BY <4>1, <4>2, <4>3
    <3> QED  BY <3>1, <3>2
  <2>4. ConnectedInv'  BY <2>2, <2>3 DEF ConnectedInv
  <2>5. \A q \in Rank : rank'[q] \in {"fetch", "connect", "barrier"}  BY <1>1, <1>2, <2>1
  <2> QED  BY <2>1, <2>4, <2>5 DEF AgreeInv
<1>6. MemInv'
  BY <1>1 DEF IInv, MemInv, PhaseMem, StartedMem, Onboard, Listed, Offloaded
<1> QED  BY <1>3, <1>4, <1>5, <1>6 DEF IInv

LEMMA ClearNewInv ==
    ASSUME IInv, ClearNew
    PROVE  IInv'
<1>1. /\ driver = "ranks" /\ driver' = "ranks" /\ \A r \in Rank : rank[r] = "barrier"
      /\ rank' = [r \in Rank |-> IF rank[r] = "barrier" THEN "push" ELSE rank[r]]
      /\ numNew' = [g \in Group |-> IF g \in Updatable THEN 0 ELSE numNew[g]]
      /\ layout' = layout /\ present' = present /\ mem' = mem /\ connected' = connected
  BY DEF ClearNew, Behind, engineVars
<1>2. Types'
  <2>1. numNew' \in [Group -> 0..(NumEngines * NodesPerEngine)]
    BY <1>1, Layout DEF IInv, Types, TypeOK
  <2>2. rank' \in [Rank -> {"idle", "fetch", "connect", "barrier", "push"}]  BY <1>1
  <2> QED
    BY <1>1, <2>1, <2>2, PhaseTypes
    DEF ClearNew, engineVars, eventVars, IInv, Types, TypeOK
<1>3. CurrentInv'  BY <1>1 DEF CurrentInv
<1>4. AgreeInv'
  <2>1. ~AnyNew'
    <3>1. Updatable \subseteq Group /\ Updatable' = Updatable
      BY <1>1, ServerAssumption DEF IInv, Types, TypeOK, Updatable
    <3> QED  BY <1>1, <3>1 DEF AnyNew
  <2>2. ConnectedInv  BY <1>1, Layout DEF IInv, AgreeInv
  <2>3. AllAgree'  BY <1>1, <2>2 DEF AllAgree, ConnectedInv
  <2> QED  BY <1>1, <2>1, <2>3 DEF AgreeInv
<1>5. MemInv'
  BY <1>1 DEF IInv, MemInv, PhaseMem, StartedMem, Onboard, Listed, Offloaded
<1> QED  BY <1>2, <1>3, <1>4, <1>5 DEF IInv

LEMMA PushInv ==
    ASSUME IInv, Push
    PROVE  IInv'
<1>1. /\ driver = "ranks" /\ driver' \in {"onload_kv", "failed"}
      /\ \A r \in Rank : rank[r] = "push"
      /\ rank' = [r \in Rank |-> "idle"]
      /\ current' = IF driver' = "failed" THEN current ELSE current \cup EnginesOf(Updatable)
      /\ layout' = layout /\ present' = present /\ mem' = mem /\ connected' = connected
  BY DEF Push
<1>2. Types'
  <2>1. current' \subseteq Engine  BY <1>1 DEF IInv, Types, TypeOK, EnginesOf
  <2> QED
    BY <1>1, <2>1, PhaseTypes
    DEF Push, recoverVars, eventVars, IInv, Types, TypeOK
<1>3. CurrentInv'  BY <1>1 DEF CurrentInv, EnginesOf, Updatable
<1>4. AgreeInv'
  <2>1. AllAgree  BY <1>1, Layout DEF IInv, AgreeInv
  <2> QED  BY <1>1, <2>1 DEF AgreeInv, AllAgree
<1>5. MemInv'
  BY <1>1 DEF IInv, MemInv, PhaseMem, StartedMem, Onboard, Listed, Offloaded
<1> QED  BY <1>2, <1>3, <1>4, <1>5 DEF IInv

----------------------------------------------------------------------------
LEMMA NextInv == IInv /\ [Next]_vars => IInv'
<1> SUFFICES ASSUME IInv, [Next]_vars  PROVE IInv'
  OBVIOUS
<1>1. CASE DriverStep
  BY <1>1, OnloadWeightsInv, RecoverInv, RecordDeadInv, StartEnginesInv, FinishRecoverInv,
     OnloadKvInv, GenerateInv, GenerateEndsInv, PauseOffloadInv, OffloadInv, TrainInv,
     ClearNewInv, PushInv, FetchInv, ConnectInv
  DEF DriverStep
<1>2. CASE Eval  BY <1>2, EvalTypes, MonitorQuiet
<1>3. CASE UNCHANGED vars  BY <1>3, StutterTypes, MonitorQuiet
<1>4. CASE Failed  BY <1>3, <1>4 DEF Failed
<1>5. ASSUME NEW g \in Group, MonitorStep(g)  PROVE IInv'
  BY <1>5, MonitorTypes, MonitorQuiet, KillInv DEF MonitorStep
<1>6. ASSUME NEW s \in Slot, Crash(s)  PROVE IInv'
  BY <1>6, CrashInv
<1> QED  BY <1>1, <1>2, <1>3, <1>4, <1>5, <1>6 DEF Next

LEMMA Invariance == Spec => []IInv
  BY InitInv, NextInv, PTL DEF Spec

\* Type correctness, for any number of groups, engines, nodes, ranks and crashes.
THEOREM TypeCorrect == Spec => []TypeOK
  BY Invariance, PTL DEF IInv, Types

\* The updatable engines that a rollout finds have the weights of the last training step,
\* whatever crashes, kills and restarts came before it.
THEOREM CurrentWeights == Spec => []ServesCurrent
<1>1. IInv => ServesCurrent  BY DEF IInv, CurrentInv, ServesCurrent, Given
<1> QED  BY <1>1, Invariance, PTL

\* The collective push starts on every rank with the same engines, although each rank
\* reads num_new_engines and the list of engines by itself while monitors kill.
THEOREM SameEngines == Spec => []RanksAgree
<1>1. IInv => RanksAgree
  <2> SUFFICES ASSUME IInv, driver = "ranks", \A r \in Rank : rank[r] = "push"
               PROVE  AllAgree
    BY DEF RanksAgree, AllAgree
  <2> QED  BY Layout DEF IInv, AgreeInv
<1> QED  BY <1>1, Invariance, PTL

\* An offloaded engine is off the GPUs while the trainer trains, holds just its weights
\* during a push and everything in a rollout, also when it was restarted in between.
THEOREM MemoryHandedOver == Spec => []MemoryPhases
<1>1. IInv => MemoryPhases
  BY DEF IInv, MemInv, PhaseMem, Onboard, MemoryPhases, EnginesOf
<1> QED  BY <1>1, Invariance, PTL

----------------------------------------------------------------------------
\* The assertion of recover(), under the timing assumption that a pause waits for the
\* check or the kill in progress: no monitor kills while engines are started.
JoinInv ==
    PauseIsJoin =>
        /\ driver \in {"recover", "start"} => paused
        /\ driver = "start" =>
              /\ Busy = {}
              /\ \A g \in todo : dead[g] = SlotsOf(g) \ present
              /\ \A g \in Updatable \ todo : numNew[g] = Cardinality(dead[g])

\* A monitor starts no check while it is paused.
LEMMA PausedMonitors ==
    ASSUME Types, paused, Busy = {}, NEW g \in Group, MonitorStep(g)
    PROVE  /\ Busy' = {} /\ paused' = paused
           /\ UNCHANGED <<layout, driver, engineVars, recoverVars>>
<1>1. monitor[g] \notin {"check", "kill"}  BY DEF Busy
<1>2. monitor \in [Group -> {"top", "first_wait", "round", "next", "check", "kill", "interval"}]
  BY DEF Types, TypeOK
<1>3. CASE LeavePause(g)  BY <1>3 DEF LeavePause
<1>4. CASE EndFirstWait(g)
  <2>1. monitor' = [monitor EXCEPT ![g] = "top"]  BY <1>4 DEF EndFirstWait, Move
  <2>2. Busy' = {}  BY <1>2, <2>1 DEF Busy
  <2> QED  BY <1>4, <2>2 DEF EndFirstWait
<1>5. CASE BeginRound(g)
  <2>1. monitor' = [monitor EXCEPT ![g] = "interval"]  BY <1>5 DEF BeginRound, Move
  <2>2. Busy' = {}  BY <1>2, <2>1 DEF Busy
  <2> QED  BY <1>5, <2>2 DEF BeginRound, eventVars
<1>6. CASE NextEngine(g)
  <2>1. monitor' = [monitor EXCEPT ![g] = "interval"]  BY <1>6 DEF NextEngine, Move
  <2>2. Busy' = {}  BY <1>2, <2>1 DEF Busy
  <2> QED  BY <1>6, <2>2 DEF NextEngine, eventVars
<1>7. CASE EndInterval(g)
  <2>1. monitor' = [monitor EXCEPT ![g] = "top"]  BY <1>7 DEF EndInterval, Move
  <2>2. Busy' = {}  BY <1>2, <2>1 DEF Busy
  <2> QED  BY <1>7, <2>2 DEF EndInterval, eventVars
<1>8. ~InTime(g) /\ ~CheckFails(g) /\ ~KillNode(g)
  BY <1>1 DEF InTime, CheckFails, KillNode
<1> QED  BY <1>3, <1>4, <1>5, <1>6, <1>7, <1>8 DEF MonitorStep

LEMMA StartJoin ==
    ASSUME IInv, JoinInv, StartEngines
    PROVE  JoinInv'
<1>1. PICK g \in todo :
          LET new == {s \in Slot \ present : s[1] = g} IN
          /\ todo' = todo \ {g}
          /\ numNew' = [numNew EXCEPT ![g] = Count(new)]
          /\ present' = present \cup new
  BY DEF StartEngines
<1>2. PICK new : new = SlotsOf(g) \ present  OBVIOUS
<1>3. new = {s \in Slot \ present : s[1] = g}  BY <1>2 DEF SlotsOf
<1>4. /\ todo' = todo \ {g}
      /\ numNew' = [numNew EXCEPT ![g] = Cardinality(new)]
      /\ present' = present \cup new
  BY <1>1, <1>3 DEF Count
<1>5. /\ driver = "start" /\ driver' = "start" /\ layout' = layout /\ dead' = dead
      /\ paused' = paused /\ monitor' = monitor
  BY DEF StartEngines, eventVars, threadVars
<1> SUFFICES ASSUME PauseIsJoin
             PROVE  /\ paused /\ Busy' = {}
                    /\ \A h \in todo' : dead[h] = SlotsOf(h) \ present'
                    /\ \A h \in Updatable \ todo' : numNew'[h] = Cardinality(dead[h])
  BY <1>5 DEF JoinInv, PauseIsJoin, Updatable
<1>6. /\ paused /\ Busy = {}
      /\ \A h \in todo : dead[h] = SlotsOf(h) \ present
      /\ \A h \in Updatable \ todo : numNew[h] = Cardinality(dead[h])
  BY <1>5 DEF JoinInv
<1>7. Busy' = {}  BY <1>5, <1>6 DEF Busy
<1>8. \A h \in todo' : dead[h] = SlotsOf(h) \ present'
  BY <1>2, <1>4, <1>6 DEF SlotsOf
<1>9. ASSUME NEW h \in Updatable \ todo'
      PROVE  numNew'[h] = Cardinality(dead[h])
  <2>1. numNew \in [Group -> 0..(NumEngines * NodesPerEngine)] /\ todo \subseteq Group
    BY DEF IInv, Types, TypeOK
  <2>2. CASE h = g  BY <1>2, <1>4, <1>6, <2>1, <2>2
  <2>3. CASE h # g  BY <1>4, <1>6, <2>1, <2>3
  <2> QED  BY <2>2, <2>3
<1> QED  BY <1>6, <1>7, <1>8, <1>9

LEMMA NextJoin == IInv /\ JoinInv /\ [Next]_vars => JoinInv'
<1> SUFFICES ASSUME IInv, JoinInv, [Next]_vars  PROVE JoinInv'
  OBVIOUS
<1>1. CASE Recover
  BY <1>1 DEF Recover, PauseMonitors, JoinInv
<1>2. CASE RecordDead
  <2>1. /\ driver = "recover" /\ driver' = "start" /\ todo' = Updatable
        /\ PauseIsJoin => Busy = {}
        /\ dead' = [g \in Group |-> {s \in Slot \ present : s[1] = g /\ g \in Updatable}]
        /\ layout' = layout /\ present' = present /\ paused' = paused /\ monitor' = monitor
    BY <1>2 DEF RecordDead, engineVars, eventVars, threadVars
  <2>2. Updatable' = Updatable /\ PauseIsJoin' = PauseIsJoin /\ Busy' = Busy
    BY <2>1 DEF Updatable, PauseIsJoin, Busy
  <2>3. \A g \in Updatable : dead'[g] = SlotsOf(g) \ present
    <3>1. Updatable \subseteq Group  BY ServerAssumption DEF IInv, Types, TypeOK, Updatable
    <3> QED  BY <2>1, <3>1 DEF SlotsOf
  <2> QED  BY <2>1, <2>2, <2>3 DEF JoinInv
<1>3. CASE StartEngines  BY <1>3, StartJoin
<1>4. CASE \/ OnloadWeights \/ FinishRecover \/ OnloadKv \/ Generate \/ Answered
           \/ RequestsFail \/ GenerateEnds \/ PauseOffload \/ Offload \/ Train \/ ClearNew \/ Push
           \/ \E r \in Rank : Fetch(r) \/ Connect(r)
  <2>1. driver' \notin {"recover", "start"}
    BY <1>4
    DEF OnloadWeights, FinishRecover, OnloadKv, Generate, Answered, RequestsFail, GenerateEnds,
        PauseOffload, Offload, Train, ClearNew, Push, Fetch, Connect, Go, AfterOnload
  <2> QED  BY <2>1 DEF JoinInv
<1>5. CASE Eval  BY <1>5 DEF Eval, JoinInv
<1>6. ASSUME UNCHANGED <<layout, driver, present, recoverVars, paused>>, Busy = {} => Busy' = {}
      PROVE  JoinInv'
  BY <1>6 DEF JoinInv, PauseIsJoin, Updatable, recoverVars
<1>7. ASSUME NEW s \in Slot, Crash(s)  PROVE JoinInv'
  BY <1>6, <1>7 DEF Crash, Busy, eventVars, threadVars
<1>8. ASSUME NEW g \in Group, MonitorStep(g)  PROVE JoinInv'
  <2>1. /\ layout' = layout /\ driver' = driver /\ paused' = paused
    BY <1>8
    DEF MonitorStep, LeavePause, EndFirstWait, BeginRound, NextEngine, InTime, CheckFails,
        KillNode, EndInterval, eventVars
  <2>2. CASE PauseIsJoin /\ driver = "start"
    <3>1. paused /\ Busy = {}  BY <2>2 DEF JoinInv
    <3>2. Busy' = {} /\ UNCHANGED <<layout, driver, engineVars, recoverVars>>
      BY <1>8, <3>1, PausedMonitors DEF IInv
    <3> QED  BY <1>6, <2>1, <3>2 DEF engineVars
  <2>3. CASE ~(PauseIsJoin /\ driver = "start")
    BY <2>1, <2>3 DEF JoinInv, PauseIsJoin
  <2> QED  BY <2>2, <2>3
<1>9. CASE Failed \/ UNCHANGED vars
  BY <1>6, <1>9 DEF Failed, vars, Busy, engineVars, recoverVars, eventVars, threadVars
<1> QED
  BY <1>1, <1>2, <1>3, <1>4, <1>5, <1>7, <1>8, <1>9 DEF Next, DriverStep

\* recover() counts as many new actors as slots it has found dead, if a pause of the
\* monitors lets a check or a kill in progress end first. (Without that the assertion can
\* fail, as a run shows.)
THEOREM RecoverCounts == Spec /\ []PauseIsJoin => []NumNewMatches
<1>1. Init => JoinInv  BY DEF Init, JoinInv
<1>2. Spec => []JoinInv  BY <1>1, NextJoin, Invariance, PTL DEF Spec
<1>3. JoinInv /\ PauseIsJoin => NumNewMatches  BY DEF JoinInv, NumNewMatches
<1> QED  BY <1>2, <1>3, PTL

----------------------------------------------------------------------------
\* What a monitor checks, under the same assumption: a check of an offloaded engine is only
\* in progress while the engines have their memory.
Unpaused == driver \in {"ready", "generate", "abort", "pause", "offload"}

Harmless ==
    \/ Unpaused
    \/ driver = "failed" /\ \A e \in Engine : Onboard(e, GPU)
    \/ paused /\ Busy = {}

CheckInv ==
    /\ \A g \in Group : monitor[g] = "check" => <<g, index[g]>> \in Listed
    /\ \A e \in Engine : e[1] \notin Offloaded => mem[e] = GPU
    /\ PauseIsJoin /\ Offloaded # {} =>
          Harmless /\ (driver = "offload" => paused)

\* Steps of the driver: no monitor moves, and no engine leaves the list.
LEMMA CheckDriver ==
    ASSUME CheckInv, UNCHANGED <<layout, threadVars>>, present \subseteq present',
           \A e \in Engine : e[1] \notin Offloaded => mem'[e] = GPU,
           PauseIsJoin /\ Offloaded # {} => Harmless' /\ (driver' = "offload" => paused')
    PROVE  CheckInv'
<1>1. /\ layout' = layout /\ monitor' = monitor /\ index' = index
      /\ Offloaded' = Offloaded /\ PauseIsJoin' = PauseIsJoin
  BY DEF Offloaded, PauseIsJoin, threadVars
<1>2. Listed \subseteq Listed'  BY DEF Listed
<1> QED  BY <1>1, <1>2 DEF CheckInv

\* A monitor checks an engine of its list, which only that monitor can take off it.
LEMMA ChecksListed ==
    ASSUME IInv, CheckInv, NEW g \in Group, MonitorStep(g),
           NEW h \in Group, monitor'[h] = "check"
    PROVE  <<h, index'[h]>> \in Listed'
<1>1. /\ monitor \in [Group -> {"top", "first_wait", "round", "next", "check", "kill",
                                "interval"}]
      /\ index \in [Group -> 1..(NumEngines + 1)]
  BY DEF IInv, Types, TypeOK
<1>2. CASE NextEngine(g)
  <2>1. Listed' = Listed  BY <1>2 DEF NextEngine, engineVars, Listed
  <2>2. CASE h = g
    <3>1. <<g, index[g]>> \in Listed /\ index' = index
      BY <1>1, <1>2, <2>2 DEF NextEngine, Move
    <3> QED  BY <2>1, <2>2, <3>1
  <2>3. CASE h # g
    <3>1. monitor'[h] = monitor[h] /\ index'[h] = index[h]
      BY <1>1, <1>2, <2>3 DEF NextEngine, Move
    <3> QED  BY <2>1, <3>1 DEF CheckInv
  <2> QED  BY <2>2, <2>3
<1>3. CASE KillNode(g)
  <2>1. /\ h # g /\ monitor'[h] = monitor[h] /\ index'[h] = index[h]
        /\ present' = present \ {<<g, index[g], killing[g]>>}
    BY <1>1, <1>3 DEF KillNode, Move
  <2>2. <<h, index[h]>> \in Listed  BY <2>1 DEF CheckInv
  <2>3. Head(<<h, index[h]>>) = <<h, index[h], 0>>  BY DEF Head
  <2> QED  BY <2>1, <2>2, <2>3 DEF Listed
<1>4. CASE \/ LeavePause(g) \/ EndFirstWait(g) \/ BeginRound(g) \/ InTime(g) \/ CheckFails(g)
           \/ EndInterval(g)
  <2>1. h # g /\ monitor'[h] = monitor[h] /\ index'[h] = index[h] /\ present' = present
    BY <1>1, <1>4
    DEF LeavePause, EndFirstWait, BeginRound, InTime, CheckFails, EndInterval, Move, engineVars
  <2>2. <<h, index[h]>> \in Listed  BY <2>1 DEF CheckInv
  <2> QED  BY <2>1, <2>2 DEF Listed
<1> QED  BY <1>2, <1>3, <1>4 DEF MonitorStep

LEMMA MonitorCheck ==
    ASSUME IInv, CheckInv, NEW g \in Group, MonitorStep(g)
    PROVE  CheckInv'
<1>1. layout' = layout /\ driver' = driver /\ paused' = paused /\ mem' = mem
  BY DEF MonitorStep, LeavePause, EndFirstWait, BeginRound, NextEngine, InTime, CheckFails,
         KillNode, EndInterval, eventVars, engineVars
<1>2. Offloaded' = Offloaded /\ PauseIsJoin' = PauseIsJoin /\ Unpaused' = Unpaused
  BY <1>1 DEF Offloaded, PauseIsJoin, Unpaused
<1>3. paused /\ Busy = {} => Busy' = {}  BY PausedMonitors DEF IInv
<1>4. \A h \in Group : monitor'[h] = "check" => <<h, index'[h]>> \in Listed'
  BY ChecksListed
<1>5. Listed' \subseteq Listed
  BY DEF MonitorStep, LeavePause, EndFirstWait, BeginRound, NextEngine, InTime, CheckFails,
         KillNode, EndInterval, engineVars, Listed
<1>6. \A e \in Engine : Onboard(e, GPU) => Onboard(e, GPU)'
  BY <1>1, <1>2, <1>5 DEF Onboard
<1>7. Harmless => Harmless'  BY <1>1, <1>2, <1>3, <1>6 DEF Harmless
<1> QED  BY <1>1, <1>2, <1>4, <1>7 DEF CheckInv

LEMMA StartCheck ==
    ASSUME CheckInv, StartEngines
    PROVE  CheckInv'
<1>1. PICK g \in todo :
          LET new == {s \in Slot \ present : s[1] = g} IN
          /\ present' = present \cup new
          /\ mem' = [e \in Engine |-> IF Slots(e) \cap new # {} THEN GPU ELSE mem[e]]
  BY DEF StartEngines
<1>2. /\ driver = "start" /\ driver' = "start" /\ paused' = paused
      /\ UNCHANGED <<layout, threadVars>>
  BY DEF StartEngines, eventVars
<1>3. present \subseteq present'  BY <1>1
<1>4. \A e \in Engine : e[1] \notin Offloaded => mem'[e] = GPU  BY <1>1 DEF CheckInv
<1>5. PauseIsJoin /\ Offloaded # {} => Harmless'
  <2>1. Busy' = Busy  BY <1>2 DEF Busy, threadVars
  <2> QED  BY <1>2, <2>1 DEF CheckInv, Harmless, Unpaused
<1> QED  BY <1>2, <1>3, <1>4, <1>5, CheckDriver

LEMMA NextCheck == IInv /\ CheckInv /\ [Next]_vars => CheckInv'
<1> SUFFICES ASSUME IInv, CheckInv, [Next]_vars  PROVE CheckInv'
  OBVIOUS
<1>1. /\ \A e \in Engine : e[1] \notin Offloaded => mem[e] = GPU
      /\ PauseIsJoin /\ Offloaded # {} => Harmless /\ (driver = "offload" => paused)
  BY DEF CheckInv
<1>2. CASE OnloadWeights \/ OnloadKv \/ FinishRecover \/ Offload
  <2>1. /\ present' = present /\ paused' = paused /\ driver' # "offload"
        /\ UNCHANGED <<layout, threadVars>>
    BY <1>2
    DEF OnloadWeights, OnloadKv, FinishRecover, Offload, eventVars, Go, AfterOnload
  <2>2. \A e \in Engine : e[1] \notin Offloaded => mem'[e] = mem[e]
    BY <1>2
    DEF OnloadWeights, OnloadKv, FinishRecover, Offload, EnginesOf, HandOver, IInv, Types,
        TypeOK
  <2>3. PauseIsJoin /\ Offloaded # {} => paused /\ Busy = {}
    BY <1>1, <1>2
    DEF OnloadWeights, OnloadKv, FinishRecover, Offload, Unpaused, Harmless
  <2>4. Busy' = Busy  BY <2>1 DEF Busy, threadVars
  <2>5. PauseIsJoin /\ Offloaded # {} => Harmless'  BY <2>1, <2>3, <2>4 DEF Harmless
  <2> QED  BY <1>1, <2>1, <2>2, <2>5, CheckDriver
<1>3. CASE StartEngines  BY <1>3, StartCheck
<1>4. CASE \/ Recover \/ RecordDead \/ Train \/ ClearNew \/ Push
           \/ \E r \in Rank : Fetch(r) \/ Connect(r)
  <2>1. /\ present' = present /\ mem' = mem /\ (paused => paused')
        /\ driver' # "offload" /\ ~Unpaused /\ driver # "failed"
        /\ UNCHANGED <<layout, threadVars>>
    BY <1>4
    DEF Recover, PauseMonitors, RecordDead, Train, ClearNew, Push, Fetch, Connect, engineVars,
        eventVars, Unpaused
  <2>2. Busy' = Busy  BY <2>1 DEF Busy, threadVars
  <2>3. PauseIsJoin /\ Offloaded # {} => Harmless'  BY <1>1, <2>1, <2>2 DEF Harmless
  <2> QED  BY <1>1, <2>1, <2>3, CheckDriver
<1>5. CASE PauseOffload
  <2>1. /\ present' = present /\ mem' = mem /\ paused' /\ Unpaused'
        /\ UNCHANGED <<layout, threadVars>>
    BY <1>5
    DEF PauseOffload, PauseMonitors, BeforeRelease, engineVars, Unpaused
  <2> QED  BY <1>1, <2>1, CheckDriver DEF Harmless
<1>6. CASE Eval \/ Generate \/ Answered \/ RequestsFail \/ GenerateEnds
  <2>1. /\ present' = present /\ mem' = mem /\ driver' # "offload"
        /\ UNCHANGED <<layout, threadVars>>
    BY <1>6
    DEF Eval, Generate, Answered, RequestsFail, GenerateEnds, engineVars, threadVars
  <2>2. CASE RequestsFail
    <3>1. driver' = "failed" /\ driver \in {"ready", "generate"}
      BY <2>2 DEF RequestsFail, Unanswered
    <3>2. \A e \in Engine : Onboard(e, GPU)  BY <3>1 DEF IInv, MemInv, PhaseMem
    <3>3. \A e \in Engine : Onboard(e, GPU)'
      BY <2>1, <3>2 DEF Onboard, Listed, Offloaded
    <3> QED  BY <1>1, <2>1, <3>1, <3>3, CheckDriver DEF Harmless
  <2>3. CASE Eval \/ Generate \/ Answered \/ GenerateEnds
    <3>1. Offloaded # {} => Unpaused'
      BY <2>3 DEF Eval, Generate, Answered, GenerateEnds, Unpaused
    <3> QED  BY <1>1, <2>1, <3>1, CheckDriver DEF Harmless
  <2> QED  BY <1>6, <2>2, <2>3
<1>7. ASSUME NEW g \in Group, MonitorStep(g)  PROVE CheckInv'
  BY <1>7, MonitorCheck
<1>8. ASSUME UNCHANGED <<present, mem, paused, driver, layout, threadVars>>
      PROVE  CheckInv'
  <2>1. Busy' = Busy  BY <1>8 DEF Busy, threadVars
  <2>2. Harmless => Harmless'
    BY <1>8, <2>1 DEF Harmless, Unpaused, Onboard, Listed, Offloaded
  <2> QED  BY <1>1, <1>8, <2>2, CheckDriver
<1>9. ASSUME NEW s \in Slot, Crash(s)  PROVE CheckInv'
  BY <1>8, <1>9 DEF Crash, eventVars
<1>10. CASE Failed \/ UNCHANGED vars
  BY <1>8, <1>10 DEF Failed, vars, engineVars, eventVars
<1> QED
  BY <1>2, <1>3, <1>4, <1>5, <1>6, <1>7, <1>9, <1>10 DEF Next, DriverStep

LEMMA InitCheck == Init => CheckInv
<1>1. Init => Busy = {}  BY DEF Init, Busy
<1> QED  BY <1>1 DEF Init, CheckInv, Harmless

\* No check is out on an engine without its memory, under the same assumption: a check that
\* fails has found a crash or a slow answer.
THEOREM ChecksReady == Spec => []ChecksOnboard
<1>1. Init => CheckInv  BY InitCheck
<1>2. Spec => []CheckInv  BY <1>1, NextCheck, Invariance, PTL DEF Spec
<1>3. IInv /\ CheckInv => ChecksOnboard
  <2> SUFFICES ASSUME IInv, CheckInv, PauseIsJoin, NEW g \in Group, monitor[g] = "check"
               PROVE  mem[<<g, index[g]>>] = GPU
    BY DEF ChecksOnboard
  <2>1. PICK e \in Engine : e = <<g, index[g]>> /\ e \in Listed /\ e[1] = g
    BY DEF CheckInv, Listed
  <2>2. CASE g \notin Offloaded  BY <2>1, <2>2 DEF CheckInv
  <2>3. CASE g \in Offloaded
    <3>1. g \in Busy  BY DEF Busy
    <3>2. Unpaused \/ Onboard(e, GPU)  BY <2>3, <3>1 DEF CheckInv, Harmless
    <3>3. Onboard(e, GPU)  BY <3>2 DEF IInv, MemInv, PhaseMem, Unpaused
    <3> QED  BY <2>1, <2>3, <3>3 DEF Onboard
  <2> QED  BY <2>2, <2>3
<1> QED  BY <1>2, <1>3, Invariance, PTL

----------------------------------------------------------------------------
\* What keeps the driver from failing, if a pause waits for the monitors: an engine is stopped
\* and started with all its slots, and a rank is connected to the updatable engines that are
\* listed, or knows by num_new_engines that it has to connect.
Dying(e) == monitor[e[1]] = "kill" /\ index[e[1]] = e[2]

WholeInv ==
    /\ \A e \in Engine : Slots(e) \subseteq present \/ Slots(e) \cap present = {} \/ Dying(e)
    /\ \A g \in Group, n \in Node :
          monitor[g] = "kill" /\ n < killing[g] => <<g, index[g], n>> \notin present

FirstInv ==     \* up to the first rollout
    ~begun =>
        /\ driver \in {"onload_weights", "update", "ranks", "onload_kv", "ready"}
        /\ driver # "ready" => paused /\ Busy = {}
        /\ driver \in {"onload_weights", "update"} =>
              /\ present = Slot
              /\ \A r \in Rank : connected[r] = {}
              /\ \A g \in Group : numNew[g] # 0

RestartInv ==
    driver = "start" =>
        /\ \A g \in Group \ Updatable : dead[g] = {}
        /\ \A e \in Engine : Slots(e) \subseteq dead[e[1]] \/ Slots(e) \cap dead[e[1]] = {}
        /\ \A e \in Engine : e[1] \in Updatable \ todo => e \in Listed
        /\ \A r \in Rank :
              connected[r] = {e \in EnginesOf(Updatable) : Slots(e) \cap dead[e[1]] = {}}

RanksInv ==
    driver = "ranks" =>
        /\ paused /\ Busy = {} /\ EnginesOf(Updatable) \subseteq Listed
        /\ \A r \in Rank :
              /\ rank[r] = "connect" => seen[r] = EnginesOf(Updatable)
              /\ \/ rank[r] \in {"barrier", "push"}
                 \/ rank[r] = "fetch" /\ ~AnyNew
                 => connected[r] = EnginesOf(Updatable)

Linked ==
    /\ driver \notin {"start", "ranks"}
    /\ begun \/ driver \in {"onload_kv", "ready"}

LinkedInv == Linked => \A r \in Rank : connected[r] = EnginesOf(Updatable) \cap Listed

Survives == WholeInv /\ FirstInv /\ RestartInv /\ RanksInv /\ LinkedInv

SurvivalInv == PauseIsJoin /\ driver # "failed" => Survives

\* What the parts depend on.
LEMMA SameEngineSets ==
    /\ present' = present => Listed' = Listed
    /\ alive' = alive => Healthy' = Healthy
    /\ layout' = layout => /\ Updatable' = Updatable /\ Offloaded' = Offloaded
                           /\ EnginesOf(Updatable)' = EnginesOf(Updatable)
                           /\ PauseIsJoin' = PauseIsJoin /\ CrashesSeen' = CrashesSeen
    /\ monitor' = monitor => Busy' = Busy
BY DEF Listed, Healthy, Updatable, Offloaded, EnginesOf, PauseIsJoin, CrashesSeen, Busy

LEMMA SameWhole ==
    ASSUME WholeInv, UNCHANGED <<present, threadVars>>
    PROVE  WholeInv'
BY DEF WholeInv, Dying, threadVars

\* An engine is listed when all its slots are present, and nobody stops one.
LEMMA WholeOrGone ==
    ASSUME WholeInv, Busy = {}, NEW e \in Engine
    PROVE  /\ e \in Listed => Slots(e) \subseteq present
           /\ e \notin Listed => Slots(e) \cap present = {}
<1>1. e[1] \in Group /\ Head(e) \in Slots(e)  BY SlotFacts
<1>2. ~Dying(e)  BY <1>1 DEF Busy, Dying
<1>3. Slots(e) \subseteq present \/ Slots(e) \cap present = {}  BY <1>2 DEF WholeInv
<1> QED  BY <1>1, <1>3 DEF Listed

\* Steps that only move the driver between an update and the next.
LEMMA LoopSurvives ==
    ASSUME IInv, Survives, driver' # "failed",
           \/ OnloadWeights \/ OnloadKv \/ Generate \/ Answered \/ GenerateEnds
           \/ PauseOffload \/ Offload \/ Train \/ Eval
    PROVE  Survives'
<1>1. /\ UNCHANGED <<layout, present, alive, numNew, rank, seen, connected, monitor, index,
                     killing>>
      /\ driver \notin {"start", "ranks"}
  BY DEF OnloadWeights, OnloadKv, Generate, Answered, GenerateEnds, PauseOffload, Offload, Train,
         Eval, recoverVars, rankVars, engineVars, threadVars
<1>2. /\ Listed' = Listed /\ Healthy' = Healthy /\ Busy' = Busy
      /\ EnginesOf(Updatable)' = EnginesOf(Updatable)
  BY <1>1, SameEngineSets
<1>4. WholeInv'  BY <1>1, SameWhole DEF Survives, threadVars
<1>5. driver' \notin {"start", "ranks"}
  BY DEF OnloadWeights, OnloadKv, Generate, Answered, GenerateEnds, PauseOffload, Offload, Train,
         Eval, Go, AfterOnload
<1>6. RestartInv' /\ RanksInv'  BY <1>5 DEF RestartInv, RanksInv
<1>7. FirstInv'
  <2>1. CASE OnloadWeights
    <3>1. begun' = begun /\ paused' = paused /\ driver = "onload_weights"
      BY <2>1 DEF OnloadWeights, eventVars
    <3>2. driver' = "update"
      BY <2>1 DEF OnloadWeights, Go, AfterOnload
    <3> QED  BY <1>1, <1>2, <3>1, <3>2 DEF Survives, FirstInv
  <2>2. CASE OnloadKv
    <3>1. begun' = begun  BY <2>2 DEF OnloadKv
    <3>2. driver' = "ready"
      BY <2>2 DEF OnloadKv, Go
    <3> QED  BY <1>1, <3>1, <3>2 DEF Survives, FirstInv
  <2>3. CASE Generate  BY <2>3 DEF Generate, FirstInv
  <2>4. CASE Answered \/ GenerateEnds \/ PauseOffload \/ Offload \/ Train
    BY <2>4 DEF Answered, GenerateEnds, PauseOffload, Offload, Train, Survives, FirstInv
  <2>5. CASE Eval
    BY <1>1, <2>5 DEF Eval, Survives, FirstInv
  <2> QED  BY <2>1, <2>2, <2>3, <2>4, <2>5
<1>8. LinkedInv'
  <2>1. Linked' => Linked
    <3>1. CASE OnloadWeights
      <4>1. begun' = begun /\ driver' = "update"
        BY <3>1 DEF OnloadWeights, Go, AfterOnload
      <4> QED  BY <1>1, <4>1 DEF Linked
    <3>2. CASE OnloadKv  BY <3>2 DEF OnloadKv, Linked
    <3>3. CASE Generate \/ Eval  BY <3>3 DEF Generate, Eval, Linked
    <3>4. CASE Answered \/ GenerateEnds \/ PauseOffload \/ Offload \/ Train
      BY <1>1, <3>4
      DEF Answered, GenerateEnds, PauseOffload, Offload, Train, Linked, Survives, FirstInv
    <3> QED  BY <3>1, <3>2, <3>3, <3>4
  <2> QED  BY <1>1, <1>2, <2>1 DEF Survives, LinkedInv
<1> QED  BY <1>4, <1>6, <1>7, <1>8 DEF Survives

\* Before the first rollout nothing is recovered; every rank connects, because
\* num_new_engines still counts the engines that were started with the server.
LEMMA RecoverSurvives ==
    ASSUME IInv, Survives, Recover
    PROVE  Survives'
<1>1. /\ driver = "update" /\ begun' = begun /\ paused'
      /\ driver' = IF ~begun THEN "ranks" ELSE "recover"
      /\ rank' = [r \in Rank |-> IF ~begun THEN "fetch" ELSE "idle"]
      /\ UNCHANGED <<layout, present, alive, numNew, seen, connected, monitor, index, killing>>
  BY DEF Recover, SkipRecovery, PauseMonitors, engineVars, recoverVars, threadVars
<1>2. /\ Listed' = Listed /\ Healthy' = Healthy /\ Busy' = Busy
      /\ EnginesOf(Updatable)' = EnginesOf(Updatable) /\ Updatable' = Updatable
  BY <1>1, SameEngineSets
<1>4. WholeInv'  BY <1>1, SameWhole DEF Survives, threadVars
<1>5. RestartInv'  BY <1>1 DEF RestartInv
<1>6. CASE begun
  <2>1. driver' = "recover"  BY <1>1, <1>6
  <2>2. FirstInv' /\ RanksInv'  BY <1>1, <1>6, <2>1 DEF FirstInv, RanksInv
  <2>3. LinkedInv'  BY <1>1, <1>2, <1>6 DEF Survives, LinkedInv, Linked
  <2> QED  BY <1>4, <1>5, <2>2, <2>3 DEF Survives
<1>7. CASE ~begun
  <2>1. /\ present = Slot /\ Busy = {}
        /\ \A r \in Rank : connected[r] = {}
        /\ \A g \in Group : numNew[g] # 0
    BY <1>1, <1>7 DEF Survives, FirstInv
  <2>2. driver' = "ranks" /\ \A r \in Rank : rank'[r] = "fetch"  BY <1>1, <1>7
  <2>3. FirstInv' /\ LinkedInv'
    BY <1>1, <1>2, <2>1, <2>2 DEF FirstInv, LinkedInv, Linked
  <2>4. EnginesOf(Updatable) \subseteq Listed
    <3>1. \A e \in Engine : Head(e) \in present
      BY <2>1, SlotFacts
    <3> QED  BY <3>1 DEF Listed, EnginesOf
  <2>5. AnyNew' \/ EnginesOf(Updatable) = {}
    <3>1. Updatable \subseteq Group  BY ServerAssumption DEF IInv, Types, TypeOK, Updatable
    <3>2. CASE Updatable = {}  BY <3>2 DEF EnginesOf
    <3>3. CASE Updatable # {}
      <4>1. PICK g \in Updatable : g \in Group  BY <3>1, <3>3
      <4>2. numNew[g] \in 0..(NumEngines * NodesPerEngine)  BY <4>1 DEF IInv, Types, TypeOK
      <4>3. numNew[g] > 0  BY <2>1, <4>1, <4>2, Layout
      <4>4. numNew'[g] > 0 /\ g \in Updatable'  BY <1>1, <1>2, <4>1, <4>3
      <4> QED  BY <4>4 DEF AnyNew
    <3> QED  BY <3>2, <3>3
  <2>6. RanksInv'
    <3>1. paused' /\ Busy' = {} /\ (EnginesOf(Updatable) \subseteq Listed)'
      BY <1>1, <1>2, <2>1, <2>4
    <3>2. ASSUME NEW r \in Rank
          PROVE  /\ rank'[r] # "connect" /\ rank'[r] \notin {"barrier", "push"}
                 /\ ~AnyNew' => connected'[r] = EnginesOf(Updatable)'
      BY <1>1, <1>2, <2>1, <2>2, <2>5
    <3> QED  BY <3>1, <3>2 DEF RanksInv
  <2> QED  BY <1>4, <1>5, <2>3, <2>6 DEF Survives
<1> QED  BY <1>6, <1>7

\* The dead are whole engines, and those that no rank is connected to.
LEMMA RecordDeadSurvives ==
    ASSUME IInv, PauseIsJoin, Survives, RecordDead
    PROVE  Survives'
<1>1. /\ driver = "recover" /\ driver' = "start" /\ Busy = {} /\ begun' = begun
      /\ todo' = Updatable
      /\ dead' = [g \in Group |-> {s \in Slot \ present : s[1] = g /\ g \in Updatable}]
      /\ UNCHANGED <<layout, present, alive, connected, threadVars>>
  BY DEF RecordDead, engineVars, rankVars
<1>2. /\ Listed' = Listed /\ Healthy' = Healthy /\ Updatable' = Updatable
      /\ EnginesOf(Updatable)' = EnginesOf(Updatable)
  BY <1>1, SameEngineSets
<1>4. WholeInv'  BY <1>1, SameWhole DEF Survives
<1>5. begun  BY <1>1 DEF Survives, FirstInv
<1>6. FirstInv' /\ RanksInv' /\ LinkedInv'
  BY <1>1, <1>5 DEF FirstInv, RanksInv, LinkedInv, Linked
<1>7. RestartInv'
  <2>1. \A g \in Group \ Updatable : dead'[g] = {}  BY <1>1
  <2>2. ASSUME NEW e \in Engine
        PROVE  /\ Slots(e) \subseteq dead'[e[1]] \/ Slots(e) \cap dead'[e[1]] = {}
               /\ e[1] \in Updatable => (e \in Listed <=> Slots(e) \cap dead'[e[1]] = {})
    <3>1. /\ e[1] \in Group /\ Slots(e) \subseteq Slot /\ Head(e) \in Slots(e)
          /\ \A s \in Slots(e) : s[1] = e[1]
      BY SlotFacts
    <3>2. /\ e \in Listed => Slots(e) \subseteq present
          /\ e \notin Listed => Slots(e) \cap present = {}
      BY <1>1, WholeOrGone DEF Survives
    <3>3. dead'[e[1]] = {s \in Slot \ present : s[1] = e[1] /\ e[1] \in Updatable}
      BY <1>1, <3>1
    <3>4. CASE e[1] \notin Updatable  BY <3>3, <3>4
    <3>5. CASE e[1] \in Updatable
      <4>1. dead'[e[1]] = {s \in Slot \ present : s[1] = e[1]}  BY <3>3, <3>5
      <4>2. e \in Listed => Slots(e) \cap dead'[e[1]] = {}  BY <3>2, <4>1
      <4>3. e \notin Listed => Slots(e) \subseteq dead'[e[1]]  BY <3>1, <3>2, <4>1
      <4> QED  BY <3>1, <4>2, <4>3
    <3> QED  BY <3>4, <3>5
  <2>3. \A r \in Rank : connected[r] = EnginesOf(Updatable) \cap Listed
    BY <1>1, <1>5 DEF Survives, LinkedInv, Linked
  <2>4. {e \in EnginesOf(Updatable) : Slots(e) \cap dead'[e[1]] = {}}
            = EnginesOf(Updatable) \cap Listed
    BY <2>2 DEF EnginesOf
  <2>5. \A r \in Rank : connected'[r] = {e \in EnginesOf(Updatable)' :
                                           Slots(e) \cap dead'[e[1]] = {}}
    BY <1>1, <1>2, <2>3, <2>4
  <2>6. \A e \in Engine : e[1] \notin (Updatable \ todo)'  BY <1>1, <1>2
  <2> QED  BY <1>2, <2>1, <2>2, <2>5, <2>6 DEF RestartInv
<1> QED  BY <1>4, <1>6, <1>7 DEF Survives

\* An engine is started as a whole and then works.
LEMMA StartSurvives ==
    ASSUME IInv, JoinInv, PauseIsJoin, Survives, StartEngines
    PROVE  Survives' /\ (Listed \subseteq Healthy => Listed' \subseteq Healthy')
<1>1. PICK g \in todo :
          LET new == {s \in Slot \ present : s[1] = g} IN
          /\ todo' = todo \ {g}
          /\ present' = present \cup new /\ alive' = alive \cup new
  BY DEF StartEngines
<1>2. PICK new : new = {s \in Slot \ present : s[1] = g}  OBVIOUS
<1>3. todo' = todo \ {g} /\ present' = present \cup new /\ alive' = alive \cup new
  BY <1>1, <1>2
<1>4. /\ driver = "start" /\ driver' = "start" /\ begun' = begun
      /\ UNCHANGED <<layout, dead, connected, threadVars>>
  BY DEF StartEngines, rankVars
<1>5. Busy = {} /\ begun
  BY <1>4 DEF JoinInv, Survives, FirstInv
<1>6. /\ Updatable' = Updatable /\ EnginesOf(Updatable)' = EnginesOf(Updatable)
  BY <1>4, SameEngineSets
\* The engines of the group, and the others.
<1>7. ASSUME NEW e \in Engine, e[1] = g
      PROVE  /\ Slots(e) \subseteq present' /\ e \in Listed'
             /\ Listed \subseteq Healthy => e \in Healthy'
  <2>1. /\ Slots(e) \subseteq Slot /\ Head(e) \in Slots(e)
        /\ \A s \in Slots(e) : s[1] = g
    BY <1>7, SlotFacts
  <2>2. Slots(e) \subseteq present'  BY <1>2, <1>3, <2>1
  <2>3. CASE e \in Listed
    <3>1. Listed \subseteq Healthy => Slots(e) \subseteq alive  BY <2>3 DEF Healthy
    <3> QED  BY <1>3, <2>1, <2>2, <3>1 DEF Listed, Healthy
  <2>4. CASE e \notin Listed
    <3>1. Slots(e) \cap present = {}  BY <1>5, <2>4, WholeOrGone DEF Survives
    <3>2. Slots(e) \subseteq new  BY <1>2, <2>1, <3>1
    <3> QED  BY <1>3, <2>1, <2>2, <3>2 DEF Listed, Healthy
  <2> QED  BY <2>3, <2>4
<1>8. ASSUME NEW e \in Engine, e[1] # g
      PROVE  /\ Slots(e) \cap present' = Slots(e) \cap present
             /\ e \in Listed' <=> e \in Listed
             /\ e \in Healthy => e \in Healthy'
  <2>1. Slots(e) \cap new = {} /\ Head(e) \in Slots(e)  BY <1>2, <1>8, SlotFacts
  <2>2. Slots(e) \cap present' = Slots(e) \cap present  BY <1>3, <2>1
  <2> QED  BY <1>3, <2>1, <2>2 DEF Listed, Healthy
<1>9. ASSUME Listed \subseteq Healthy  PROVE Listed' \subseteq Healthy'
  <2>1. ASSUME NEW e \in Listed'  PROVE e \in Healthy'
    <3>1. e \in Engine  BY <2>1 DEF Listed
    <3>2. CASE e[1] = g  BY <1>7, <1>9, <3>1, <3>2
    <3>3. CASE e[1] # g  BY <1>8, <1>9, <2>1, <3>1, <3>3
    <3> QED  BY <3>2, <3>3
  <2> QED  BY <2>1
<1>10. WholeInv'
  <2>1. monitor' = monitor /\ \A h \in Group : monitor[h] # "kill"
    BY <1>4, <1>5 DEF threadVars, Busy
  <2>2. ASSUME NEW e \in Engine
        PROVE  Slots(e) \subseteq present' \/ Slots(e) \cap present' = {}
    <3>1. CASE e[1] = g  BY <1>7, <3>1
    <3>2. CASE e[1] # g
      <4>1. Slots(e) \subseteq present \/ Slots(e) \cap present = {}
        BY <1>5, WholeOrGone DEF Survives
      <4> QED  BY <1>8, <3>2, <4>1
    <3> QED  BY <3>1, <3>2
  <2> QED  BY <2>1, <2>2 DEF WholeInv
<1>11. FirstInv' /\ RanksInv' /\ LinkedInv'
  BY <1>4, <1>5 DEF FirstInv, RanksInv, LinkedInv, Linked
<1>12. RestartInv'
  <2>1. /\ \A h \in Group \ Updatable : dead[h] = {}
        /\ \A e \in Engine : Slots(e) \subseteq dead[e[1]] \/ Slots(e) \cap dead[e[1]] = {}
        /\ \A e \in Engine : e[1] \in Updatable \ todo => e \in Listed
        /\ \A r \in Rank :
              connected[r] = {e \in EnginesOf(Updatable) : Slots(e) \cap dead[e[1]] = {}}
    BY <1>4 DEF Survives, RestartInv
  <2>2. ASSUME NEW e \in Engine, e[1] \in Updatable \ todo'  PROVE e \in Listed'
    <3>1. CASE e[1] = g  BY <1>7, <3>1
    <3>2. CASE e[1] # g
      <4>1. e[1] \in Updatable \ todo  BY <1>3, <2>2, <3>2
      <4> QED  BY <1>8, <2>1, <3>2, <4>1
    <3> QED  BY <3>1, <3>2
  <2>3. dead' = dead /\ connected' = connected  BY <1>4
  <2> QED  BY <1>6, <2>1, <2>2, <2>3 DEF RestartInv
<1> QED  BY <1>9, <1>10, <1>11, <1>12 DEF Survives

\* The assertion and the waiting of recover() succeed, and a rank that sees no new engine
\* is connected to all.
LEMMA FinishSurvives ==
    ASSUME IInv, JoinInv, PauseIsJoin, Survives, FinishRecover
    PROVE  /\ driver' # "failed" => Survives'
           /\ Listed \subseteq Healthy => driver' # "failed"
<1> DEFINE fresh == {e \in Engine : Slots(e) \cap UNION {dead[g] : g \in Group} # {}}
<1>1. /\ driver = "start" /\ todo = {}
      /\ UNCHANGED <<layout, begun, present, alive, numNew, dead, seen, connected, paused,
                     threadVars>>
  BY DEF FinishRecover, recoverVars, eventVars
<1>2. /\ paused /\ Busy = {} /\ begun
      /\ \A g \in Updatable : numNew[g] = Cardinality(dead[g])
  BY <1>1 DEF JoinInv, Survives, FirstInv
<1>3. /\ \A g \in Group \ Updatable : dead[g] = {}
      /\ \A e \in Engine : Slots(e) \subseteq dead[e[1]] \/ Slots(e) \cap dead[e[1]] = {}
      /\ \A e \in Engine : e[1] \in Updatable => e \in Listed
      /\ \A r \in Rank :
            connected[r] = {e \in EnginesOf(Updatable) : Slots(e) \cap dead[e[1]] = {}}
  BY <1>1 DEF Survives, RestartInv
<1>4. /\ dead \in [Group -> SUBSET Slot] /\ Updatable \subseteq Group
      /\ numNew \in [Group -> 0..(NumEngines * NodesPerEngine)]
  BY ServerAssumption DEF IInv, Types, TypeOK, Updatable
\* The slots that were dead are those of their group.
<1>5. \A g \in Updatable : dead[g] \subseteq SlotsOf(g)
  BY <1>1 DEF IInv, MemInv, StartedMem
<1>6. ASSUME NEW e \in fresh
      PROVE  Slots(e) \subseteq dead[e[1]] /\ e \in Listed
  <2>1. e \in Engine /\ \E s \in Slots(e), g \in Group : s \in dead[g]  BY <1>6
  <2>2. PICK s \in Slots(e), g \in Group : s \in dead[g]  BY <2>1
  <2>3. g \in Updatable  BY <1>3, <2>2
  <2>4. s[1] = g  BY <1>5, <2>2, <2>3 DEF SlotsOf
  <2>5. s[1] = e[1]  BY <2>1, <2>2, SlotFacts
  <2>6. Slots(e) \subseteq dead[e[1]]  BY <1>3, <2>1, <2>2, <2>4, <2>5
  <2>7. e \in Listed  BY <1>3, <2>1, <2>3, <2>4, <2>5
  <2> QED  BY <2>6, <2>7
<1>7. Listed \subseteq Healthy => driver' = "ranks"
  <2> SUFFICES ASSUME Listed \subseteq Healthy  PROVE driver' = "ranks"
    OBVIOUS
  <2>1. /\ \A g \in Updatable : numNew[g] = Cardinality(dead[g])
        /\ \A e \in fresh : Slots(e) \subseteq dead[e[1]]
        /\ fresh \subseteq Healthy
    BY <1>2, <1>6
  <2> QED  BY <2>1 DEF FinishRecover
<1> HIDE DEF fresh
<1> SUFFICES ASSUME driver' # "failed"  PROVE Survives'
  BY <1>7
<1>9. driver' = "ranks" /\ rank' = [r \in Rank |-> "fetch"]  BY DEF FinishRecover
<1>8. /\ Listed' = Listed /\ Healthy' = Healthy /\ Updatable' = Updatable /\ Busy' = Busy
      /\ EnginesOf(Updatable)' = EnginesOf(Updatable)
  BY <1>1, SameEngineSets DEF threadVars
<1>10. WholeInv'  BY <1>1, SameWhole DEF Survives
<1>11. RestartInv' /\ FirstInv' /\ LinkedInv'
  BY <1>1, <1>2, <1>9 DEF RestartInv, FirstInv, LinkedInv, Linked
<1>12. EnginesOf(Updatable) \subseteq Listed  BY <1>3 DEF EnginesOf
<1>13. ASSUME ~AnyNew, NEW r \in Rank  PROVE connected[r] = EnginesOf(Updatable)
  <2>1. ASSUME NEW g \in Updatable  PROVE dead[g] = {}
    <3>1. g \in Group /\ numNew[g] \in Nat /\ ~(numNew[g] > 0)
      BY <1>4, <1>13, Layout DEF AnyNew
    <3>2. Cardinality(dead[g]) = 0  BY <1>2, <3>1
    <3>3. IsFiniteSet(dead[g])  BY <1>5, <3>1, GroupSlots
    <3> QED  BY <3>2, <3>3, FS_EmptySet
  <2>2. \A e \in EnginesOf(Updatable) : e[1] \in Updatable  BY DEF EnginesOf
  <2>3. \A e \in EnginesOf(Updatable) : Slots(e) \cap dead[e[1]] = {}  BY <2>1, <2>2
  <2>4. connected[r] = {e \in EnginesOf(Updatable) : Slots(e) \cap dead[e[1]] = {}}
    BY <1>3
  <2> QED  BY <2>3, <2>4
<1>14. RanksInv'
  <2>1. AnyNew' = AnyNew  BY <1>1, <1>8 DEF AnyNew
  <2>2. paused' /\ Busy' = {} /\ (EnginesOf(Updatable) \subseteq Listed)'
    BY <1>1, <1>2, <1>8, <1>12
  <2>3. ASSUME NEW r \in Rank
        PROVE  /\ rank'[r] = "fetch"
               /\ ~AnyNew' => connected'[r] = EnginesOf(Updatable)'
    BY <1>1, <1>8, <1>9, <1>13, <2>1
  <2> QED  BY <2>2, <2>3 DEF RanksInv
<1> QED  BY <1>10, <1>11, <1>14 DEF Survives

\* In an update the monitors stand still and no engine is lost.
LEMMA RanksSurvive ==
    ASSUME IInv, Survives,
           ClearNew \/ Push \/ \E r \in Rank : Fetch(r) \/ Connect(r)
    PROVE  /\ driver' # "failed" => Survives'
           /\ Listed \subseteq Healthy => driver' # "failed"
<1>1. /\ driver = "ranks"
      /\ UNCHANGED <<layout, begun, present, alive, monitor, index, killing, paused>>
  BY DEF ClearNew, Push, Fetch, Connect, engineVars, eventVars, threadVars
<1>2. /\ Listed' = Listed /\ Healthy' = Healthy /\ Updatable' = Updatable /\ Busy' = Busy
      /\ EnginesOf(Updatable)' = EnginesOf(Updatable)
  BY <1>1, SameEngineSets
<1>3. /\ paused /\ Busy = {} /\ EnginesOf(Updatable) \subseteq Listed
      /\ WholeInv
      /\ \A r \in Rank :
            /\ rank[r] = "connect" => seen[r] = EnginesOf(Updatable)
            /\ \/ rank[r] \in {"barrier", "push"}
               \/ rank[r] = "fetch" /\ ~AnyNew
               => connected[r] = EnginesOf(Updatable)
  BY <1>1 DEF Survives, RanksInv
<1>4. /\ rank \in [Rank -> {"idle", "fetch", "connect", "barrier", "push"}]
      /\ seen \in [Rank -> SUBSET Engine] /\ connected \in [Rank -> SUBSET Engine]
      /\ numNew \in [Group -> 0..(NumEngines * NodesPerEngine)]
  BY DEF IInv, Types, TypeOK
<1>5. WholeInv'  BY <1>1, <1>3, SameWhole DEF threadVars
<1>7. ASSUME NEW r \in Rank, Fetch(r)  PROVE Survives' /\ driver' # "failed"
  <2>1. /\ driver' = driver /\ connected' = connected /\ numNew' = numNew
        /\ seen' = [seen EXCEPT ![r] = EnginesOf(Updatable)]
        /\ rank[r] = "fetch"
        /\ rank' = [rank EXCEPT ![r] = IF AnyNew THEN "connect" ELSE "push"]
    <3>1. Given = EnginesOf(Updatable)  BY <1>3 DEF Given
    <3> QED  BY <1>7, <3>1 DEF Fetch, recoverVars
  <2>2. AnyNew' = AnyNew  BY <1>2, <2>1 DEF AnyNew
  <2>4. RestartInv' /\ LinkedInv' /\ FirstInv'
    BY <1>1, <1>2, <1>3, <2>1 DEF RestartInv, LinkedInv, Linked, FirstInv
  <2>5. ASSUME NEW q \in Rank
        PROVE  /\ rank'[q] = "connect" => seen'[q] = EnginesOf(Updatable)
               /\ \/ rank'[q] \in {"barrier", "push"}
                  \/ rank'[q] = "fetch" /\ ~AnyNew
                  => connected'[q] = EnginesOf(Updatable)
    <3>1. CASE q = r
      <4>1. /\ seen'[r] = EnginesOf(Updatable)
            /\ rank'[r] = IF AnyNew THEN "connect" ELSE "push"
        BY <1>4, <2>1
      <4>2. ~AnyNew => connected[r] = EnginesOf(Updatable)  BY <1>3, <2>1
      <4> QED  BY <2>1, <3>1, <4>1, <4>2
    <3>2. CASE q # r
      <4>1. rank'[q] = rank[q] /\ seen'[q] = seen[q]  BY <1>4, <2>1, <3>2
      <4> QED  BY <1>3, <2>1, <4>1
    <3> QED  BY <3>1, <3>2
  <2>6. RanksInv'  BY <1>1, <1>2, <1>3, <2>2, <2>5 DEF RanksInv
  <2> QED  BY <1>1, <1>5, <2>1, <2>4, <2>6 DEF Survives
<1>8. ASSUME NEW r \in Rank, Connect(r)
      PROVE  /\ driver' # "failed" => Survives'
             /\ Listed \subseteq Healthy => driver' # "failed"
  <2>1. rank[r] = "connect" /\ seen[r] = EnginesOf(Updatable)  BY <1>3, <1>8 DEF Connect
  <2>2. Listed \subseteq Healthy => driver' = driver  BY <1>3, <1>8, <2>1 DEF Connect
  <2> SUFFICES ASSUME driver' # "failed"  PROVE Survives'
    BY <1>1, <2>2
  <2>3. /\ driver' = driver /\ seen' = seen /\ numNew' = numNew
        /\ connected' = [connected EXCEPT ![r] = EnginesOf(Updatable)]
        /\ rank' = [rank EXCEPT ![r] = "barrier"]
    BY <1>8, <2>1 DEF Connect, recoverVars
  <2>4. AnyNew' = AnyNew  BY <1>2, <2>3 DEF AnyNew
  <2>6. RestartInv' /\ LinkedInv' /\ FirstInv'
    BY <1>1, <1>2, <1>3, <2>3 DEF RestartInv, LinkedInv, Linked, FirstInv
  <2>7. ASSUME NEW q \in Rank
        PROVE  /\ rank'[q] = "connect" => seen'[q] = EnginesOf(Updatable)
               /\ \/ rank'[q] \in {"barrier", "push"}
                  \/ rank'[q] = "fetch" /\ ~AnyNew
                  => connected'[q] = EnginesOf(Updatable)
    <3>1. CASE q = r
      <4>1. connected'[r] = EnginesOf(Updatable) /\ rank'[r] = "barrier"  BY <1>4, <2>3
      <4> QED  BY <3>1, <4>1
    <3>2. CASE q # r
      <4>1. rank'[q] = rank[q] /\ connected'[q] = connected[q]  BY <1>4, <2>3, <3>2
      <4> QED  BY <1>3, <2>3, <4>1
    <3> QED  BY <3>1, <3>2
  <2>8. RanksInv'  BY <1>1, <1>2, <1>3, <2>4, <2>7 DEF RanksInv
  <2> QED  BY <1>5, <2>6, <2>8 DEF Survives
<1>9. CASE ClearNew
  <2>1. /\ driver' = driver /\ seen' = seen /\ connected' = connected
        /\ \A r \in Rank : rank[r] = "barrier"
        /\ rank' = [r \in Rank |-> IF rank[r] = "barrier" THEN "push" ELSE rank[r]]
    BY <1>9 DEF ClearNew, Behind
  <2>3. RestartInv' /\ LinkedInv' /\ FirstInv'
    BY <1>1, <1>2, <1>3, <2>1 DEF RestartInv, LinkedInv, Linked, FirstInv
  <2>4. \A q \in Rank : rank'[q] = "push" /\ connected'[q] = EnginesOf(Updatable)
    BY <1>3, <2>1
  <2>5. RanksInv'  BY <1>1, <1>2, <1>3, <2>4 DEF RanksInv
  <2> QED  BY <1>1, <1>5, <2>1, <2>3, <2>5 DEF Survives
<1>10. CASE Push
  <2>1. \A r \in Rank : rank[r] = "push"  BY <1>10 DEF Push
  <2>2. \A r \in Rank : connected[r] = EnginesOf(Updatable)  BY <1>3, <2>1
  <2>3. Listed \subseteq Healthy => driver' = "onload_kv"
    BY <1>3, <1>10, <2>2 DEF Push
  <2> SUFFICES ASSUME driver' # "failed"  PROVE Survives'
    BY <2>3
  <2>4. driver' = "onload_kv" /\ connected' = connected  BY <1>10 DEF Push
  <2>6. RestartInv' /\ RanksInv' /\ FirstInv'
    BY <1>1, <1>2, <1>3, <2>4 DEF RestartInv, RanksInv, FirstInv
  <2>7. EnginesOf(Updatable) \cap Listed = EnginesOf(Updatable)  BY <1>3
  <2>8. LinkedInv'  BY <1>2, <2>2, <2>4, <2>7 DEF LinkedInv
  <2> QED  BY <1>5, <2>6, <2>8 DEF Survives
<1> QED  BY <1>7, <1>8, <1>9, <1>10

\* A monitor that stops no engine; it may only begin to.
LEMMA LooksSurvive ==
    ASSUME IInv, Survives, NEW g \in Group, MonitorStep(g), ~KillNode(g)
    PROVE  Survives'
<1>1. /\ UNCHANGED <<layout, driver, begun, present, alive, recoverVars, rankVars, paused>>
      /\ monitor[g] # "kill"
      /\ \A h \in Group \ {g} : /\ monitor'[h] = monitor[h] /\ index'[h] = index[h]
                                /\ killing'[h] = killing[h]
      /\ monitor'[g] = "kill" => killing'[g] = 0
  <2>1. /\ monitor \in [Group -> {"top", "first_wait", "round", "next", "check", "kill",
                                  "interval"}]
        /\ index \in [Group -> 1..(NumEngines + 1)] /\ killing \in [Group -> Node]
    BY DEF IInv, Types, TypeOK
  <2>2. CASE LeavePause(g)  BY <2>1, <2>2 DEF LeavePause, Move, engineVars, eventVars
  <2>3. CASE EndFirstWait(g)  BY <2>1, <2>3 DEF EndFirstWait, Move, engineVars
  <2>4. CASE BeginRound(g)  BY <2>1, <2>4 DEF BeginRound, Move, engineVars, eventVars
  <2>5. CASE NextEngine(g)  BY <2>1, <2>5 DEF NextEngine, Move, engineVars, eventVars
  <2>6. CASE InTime(g)  BY <2>1, <2>6 DEF InTime, Move, engineVars, eventVars
  <2>8. CASE CheckFails(g)  BY <2>1, <2>8, Layout DEF CheckFails, Move, eventVars
  <2>7. CASE EndInterval(g)  BY <2>1, <2>7 DEF EndInterval, Move, engineVars, eventVars
  <2> QED  BY <2>2, <2>3, <2>4, <2>5, <2>6, <2>7, <2>8 DEF MonitorStep
<1>2. /\ layout' = layout /\ driver' = driver /\ begun' = begun /\ present' = present
      /\ alive' = alive /\ numNew' = numNew /\ todo' = todo /\ dead' = dead
      /\ rank' = rank /\ seen' = seen /\ connected' = connected /\ paused' = paused
  BY <1>1 DEF recoverVars, rankVars
<1>3. /\ Listed' = Listed /\ Healthy' = Healthy /\ Updatable' = Updatable
      /\ EnginesOf(Updatable)' = EnginesOf(Updatable)
  BY <1>2, SameEngineSets
<1>4. AnyNew' = AnyNew  BY <1>2, <1>3 DEF AnyNew
<1>5. paused /\ Busy = {} => Busy' = {}  BY PausedMonitors DEF IInv
<1>6. RestartInv' /\ LinkedInv'
  BY <1>2, <1>3 DEF Survives, RestartInv, LinkedInv, Linked
<1>7. FirstInv'  BY <1>2, <1>5 DEF Survives, FirstInv
<1>8. RanksInv'  BY <1>2, <1>3, <1>4, <1>5 DEF Survives, RanksInv
<1>9. WholeInv'
  <2>1. \A e \in Engine : Dying(e) => Dying(e)'
    <3> SUFFICES ASSUME NEW e \in Engine, Dying(e)  PROVE Dying(e)'
      OBVIOUS
    <3>1. e[1] \in Group /\ e[1] # g  BY <1>1, SlotFacts DEF Dying
    <3> QED  BY <1>1, <3>1 DEF Dying
  <2>2. ASSUME NEW h \in Group, NEW n \in Node, monitor'[h] = "kill", n < killing'[h]
        PROVE  <<h, index'[h], n>> \notin present
    <3>1. CASE h = g  BY <1>1, <2>2, <3>1, Layout DEF Node
    <3>2. CASE h # g  BY <1>1, <2>2, <3>2 DEF Survives, WholeInv
    <3> QED  BY <3>1, <3>2
  <2> QED  BY <1>2, <2>1, <2>2 DEF Survives, WholeInv
<1> QED  BY <1>6, <1>7, <1>8, <1>9 DEF Survives

\* A kill: the first node takes the engine off the list, the last leaves no slot.
LEMMA KillSurvives ==
    ASSUME IInv, JoinInv, PauseIsJoin, Survives, NEW g \in Group, KillNode(g)
    PROVE  Survives' /\ (Listed \subseteq Healthy => Listed' \subseteq Healthy')
<1> DEFINE i == index[g]
           k == killing[g]
           e == <<g, i>>
           s == <<g, i, k>>
<1>1. /\ monitor[g] = "kill" /\ present' = present \ {s} /\ alive' = alive \ {s}
      /\ connected' = [r \in Rank |-> connected[r] \ {e}]
      /\ IF k = LastNode
         THEN monitor' = [monitor EXCEPT ![g] = "next"] /\ killing' = killing
         ELSE killing' = [killing EXCEPT ![g] = @ + 1] /\ UNCHANGED <<monitor, index>>
      /\ UNCHANGED <<layout, driver, begun, numNew, todo, dead, rank, seen, paused>>
  BY DEF KillNode, Move, recoverVars, eventVars
<1>2. /\ i \in 1..NumEngines /\ k \in Node /\ e \in Engine
      /\ monitor \in [Group -> {"top", "first_wait", "round", "next", "check", "kill",
                                "interval"}]
      /\ killing \in [Group -> Node]
  BY <1>1, SlotFacts DEF IInv, Types, TypeOK, InRange
<1>3. /\ \A h \in Group \ {g} : /\ monitor'[h] = monitor[h] /\ index'[h] = index[h]
                                /\ killing'[h] = killing[h]
      /\ \/ k = LastNode /\ monitor'[g] = "next"
         \/ k # LastNode /\ monitor'[g] = "kill" /\ index'[g] = i /\ killing'[g] = k + 1
  <2>1. index \in [Group -> 1..(NumEngines + 1)]  BY DEF IInv, Types, TypeOK
  <2>2. CASE k = LastNode
    <3>1. index' = [index EXCEPT ![g] = @ + 1]  BY <2>2 DEF KillNode
    <3> QED  BY <1>1, <1>2, <2>1, <2>2, <3>1
  <2>3. CASE k # LastNode  BY <1>1, <1>2, <2>1, <2>3
  <2> QED  BY <2>2, <2>3
<1>4. g \in Busy  BY <1>1 DEF Busy
<1>5. driver \notin {"start", "ranks"}
  BY <1>4 DEF JoinInv, Survives, RanksInv
<1>6. \A n \in Node : n < k => <<g, i, n>> \notin present
  BY <1>1 DEF Survives, WholeInv
<1>7. /\ e[1] = g /\ e[2] = i /\ s \in Slots(e) /\ Head(e) = <<g, i, 0>>
      /\ Slots(e) = {<<g, i, n>> : n \in Node}
  BY <1>2 DEF Slots, Head
<1>8. \A d \in Engine : d # e => s \notin Slots(d) /\ ~(d[1] = g /\ Dying(d))
  <2> SUFFICES ASSUME NEW d \in Engine, s \in Slots(d) \/ (d[1] = g /\ Dying(d))  PROVE d = e
    OBVIOUS
  <2>1. d = <<d[1], d[2]>>  BY DEF Engine
  <2>2. CASE s \in Slots(d)
    <3>1. PICK n \in Node : s = <<d[1], d[2], n>>  BY <2>2 DEF Slots
    <3>2. d[1] = g /\ d[2] = i  BY <3>1
    <3> QED  BY <2>1, <3>2
  <2>3. CASE d[1] = g /\ Dying(d)
    <3>1. d[2] = i  BY <2>3 DEF Dying
    <3> QED  BY <2>1, <2>3, <3>1
  <2> QED  BY <2>2, <2>3
<1> HIDE DEF i, k, e, s
<1>9. Listed' = Listed \ {e}
  <2>1. e \notin Listed'
    <3>1. CASE k = 0
      <4>1. Head(e) = s  BY <1>7, <3>1 DEF s
      <4> QED  BY <1>1, <4>1 DEF Listed
    <3>2. CASE k # 0
      <4>1. 0 \in Node /\ 0 < k  BY <1>2, <3>2, Layout DEF Node
      <4>2. Head(e) \notin present  BY <1>6, <1>7, <4>1
      <4> QED  BY <1>1, <4>2 DEF Listed
    <3> QED  BY <3>1, <3>2
  <2>2. \A d \in Engine : d # e => (Head(d) \in present' <=> Head(d) \in present)
    BY <1>1, <1>8, SlotFacts
  <2> QED  BY <2>1, <2>2 DEF Listed
<1>10. \A d \in Engine : d # e => (d \in Healthy => d \in Healthy')
  BY <1>1, <1>8 DEF Healthy
<1>11. ASSUME Listed \subseteq Healthy  PROVE Listed' \subseteq Healthy'
  <2>1. \A d \in Listed : d \in Engine  BY DEF Listed
  <2> QED  BY <1>9, <1>10, <1>11, <2>1
<1>12. WholeInv'
  <2>1. ASSUME NEW d \in Engine
        PROVE  Slots(d) \subseteq present' \/ Slots(d) \cap present' = {} \/ Dying(d)'
    <3>1. CASE d # e
      <4>1. s \notin Slots(d) /\ ~(d[1] = g /\ Dying(d))  BY <1>8, <3>1
      <4>2. Slots(d) \subseteq present \/ Slots(d) \cap present = {} \/ Dying(d)
        BY DEF Survives, WholeInv
      <4>3. CASE Dying(d)
        <5>1. d[1] # g /\ d[1] \in Group  BY <4>1, <4>3, SlotFacts
        <5> QED  BY <1>3, <4>3, <5>1 DEF Dying
      <4>4. CASE ~Dying(d)  BY <1>1, <4>1, <4>2, <4>4
      <4> QED  BY <4>3, <4>4
    <3>2. CASE d = e /\ k = LastNode
      <4>1. \A n \in Node : n < k \/ n = k  BY <1>2, <3>2, Layout DEF Node, LastNode
      <4>2. \A n \in Node : <<g, i, n>> \notin present'  BY <1>1, <1>6, <4>1 DEF s
      <4> QED  BY <1>7, <3>2, <4>2
    <3>3. CASE d = e /\ k # LastNode
      <4>1. monitor'[g] = "kill" /\ index'[g] = i  BY <1>3, <3>3
      <4> QED  BY <1>7, <3>3, <4>1 DEF Dying
    <3> QED  BY <3>1, <3>2, <3>3
  <2>2. ASSUME NEW h \in Group, NEW n \in Node, monitor'[h] = "kill", n < killing'[h]
        PROVE  <<h, index'[h], n>> \notin present'
    <3>1. CASE h # g
      <4>1. <<h, index[h], n>> \notin present
        BY <1>3, <2>2, <3>1 DEF Survives, WholeInv
      <4> QED  BY <1>1, <1>3, <3>1, <4>1
    <3>2. CASE h = g
      <4>1. index'[g] = i /\ killing'[g] = k + 1  BY <1>3, <2>2, <3>2
      <4>2. n < k \/ n = k  BY <1>2, <2>2, <3>2, <4>1 DEF Node
      <4>3. <<g, i, n>> \notin present'  BY <1>1, <1>6, <4>2 DEF s
      <4> QED  BY <3>2, <4>1, <4>3
    <3> QED  BY <3>1, <3>2
  <2> QED  BY <2>1, <2>2 DEF WholeInv
\* No monitor runs before the first rollout is at hand.
<1>13. begun \/ driver = "ready"  BY <1>4 DEF Survives, FirstInv
<1>14. FirstInv' /\ RestartInv' /\ RanksInv'
  BY <1>1, <1>5, <1>13 DEF FirstInv, RestartInv, RanksInv
<1>15. LinkedInv'
  <2>1. Linked  BY <1>5, <1>13 DEF Linked
  <2>2. \A r \in Rank : connected[r] = EnginesOf(Updatable) \cap Listed
    BY <2>1 DEF Survives, LinkedInv
  <2>3. EnginesOf(Updatable)' = EnginesOf(Updatable)  BY <1>1, SameEngineSets
  <2>4. \A r \in Rank : connected'[r] = connected[r] \ {e}  BY <1>1
  <2>5. \A r \in Rank : connected'[r] = EnginesOf(Updatable)' \cap Listed'
    BY <1>9, <2>2, <2>3, <2>4
  <2> QED  BY <2>5 DEF LinkedInv
<1> QED  BY <1>11, <1>12, <1>14, <1>15 DEF Survives

\* A crash changes nothing but whether the engine works.
LEMMA CrashSurvives ==
    ASSUME Survives, NEW s \in Slot, Crash(s)
    PROVE  Survives'
<1>1. UNCHANGED <<layout, driver, begun, present, numNew, todo, dead, rank, seen, connected,
                  paused, threadVars, monitor>>
  BY DEF Crash, recoverVars, rankVars, eventVars, threadVars
<1>2. /\ Listed' = Listed /\ Updatable' = Updatable /\ Busy' = Busy
      /\ EnginesOf(Updatable)' = EnginesOf(Updatable)
  BY <1>1, SameEngineSets
<1>3. AnyNew' = AnyNew  BY <1>1, <1>2 DEF AnyNew
<1>4. WholeInv'  BY <1>1, SameWhole DEF Survives
<1>5. FirstInv' /\ RestartInv' /\ LinkedInv'
  BY <1>1, <1>2 DEF Survives, FirstInv, RestartInv, LinkedInv, Linked
<1>6. RanksInv'  BY <1>1, <1>2, <1>3 DEF Survives, RanksInv
<1> QED  BY <1>4, <1>5, <1>6 DEF Survives

LEMMA StutterSurvives ==
    ASSUME Survives, UNCHANGED vars
    PROVE  Survives'
<1>1. UNCHANGED <<layout, driver, begun, present, alive, numNew, todo, dead, rank, seen,
                  connected, paused, threadVars, monitor>>
  BY DEF vars, engineVars, recoverVars, rankVars, eventVars, threadVars
<1>2. /\ Listed' = Listed /\ Healthy' = Healthy /\ Updatable' = Updatable /\ Busy' = Busy
      /\ EnginesOf(Updatable)' = EnginesOf(Updatable)
  BY <1>1, SameEngineSets
<1>3. AnyNew' = AnyNew  BY <1>1, <1>2 DEF AnyNew
<1>4. WholeInv'  BY <1>1, SameWhole DEF Survives
<1>5. FirstInv' /\ RestartInv' /\ LinkedInv'
  BY <1>1, <1>2 DEF Survives, FirstInv, RestartInv, LinkedInv, Linked
<1>6. RanksInv'  BY <1>1, <1>2, <1>3 DEF Survives, RanksInv
<1> QED  BY <1>4, <1>5, <1>6 DEF Survives

LEMMA InitSurvives == Init => Survives
<1> SUFFICES ASSUME Init  PROVE Survives
  OBVIOUS
<1>1. /\ driver = "onload_weights" /\ ~begun /\ present = Slot /\ alive = Slot /\ paused
      /\ \A g \in Group : monitor[g] = "top" /\ numNew[g] = NumEngines * NodesPerEngine
      /\ \A r \in Rank : connected[r] = {}
  BY DEF Init
<1>2. Busy = {}  BY <1>1 DEF Busy
<1>4. NumEngines * NodesPerEngine # 0  BY Layout
<1>5. WholeInv  BY <1>1, SlotFacts DEF WholeInv
<1> QED
  BY <1>1, <1>2, <1>4, <1>5
  DEF Survives, FirstInv, RestartInv, RanksInv, LinkedInv, Linked

LEMMA SameLayout == [Next]_vars => layout' = layout
BY DEF Next, DriverStep, MonitorStep, OnloadWeights, Recover, RecordDead, StartEngines,
       FinishRecover, OnloadKv, Generate, Answered, RequestsFail, GenerateEnds, PauseOffload,
       Offload, Train, ClearNew, Push, Fetch, Connect, Eval, Failed, Crash, LeavePause,
       EndFirstWait, BeginRound, NextEngine, InTime, CheckFails, KillNode, EndInterval, vars

\* A driver that has died does not come back.
LEMMA StaysFailed == driver = "failed" /\ [Next]_vars => driver' = "failed"
BY DEF Next, DriverStep, MonitorStep, OnloadWeights, Recover, RecordDead, StartEngines,
       FinishRecover, OnloadKv, Generate, Answered, RequestsFail, GenerateEnds, PauseOffload,
       Offload, Train, ClearNew, Push, Fetch, Connect, Eval, Failed, Crash, LeavePause,
       EndFirstWait, BeginRound, NextEngine, InTime, CheckFails, KillNode, EndInterval, vars

LEMMA NextSurvives ==
    IInv /\ JoinInv /\ SurvivalInv /\ [Next]_vars => SurvivalInv'
<1> SUFFICES ASSUME IInv, JoinInv, SurvivalInv, [Next]_vars, PauseIsJoin', driver' # "failed"
             PROVE  Survives'
  BY DEF SurvivalInv
<1>1. PauseIsJoin  BY SameLayout, SameEngineSets
<1>2. driver # "failed"  BY StaysFailed
<1>3. Survives  BY <1>1, <1>2 DEF SurvivalInv
<1>4. CASE \/ OnloadWeights \/ OnloadKv \/ Generate \/ Answered \/ GenerateEnds
           \/ PauseOffload \/ Offload \/ Train \/ Eval
  BY <1>3, <1>4, LoopSurvives
<1>5. CASE Recover  BY <1>3, <1>5, RecoverSurvives
<1>6. CASE RecordDead  BY <1>1, <1>3, <1>6, RecordDeadSurvives
<1>7. CASE StartEngines  BY <1>1, <1>3, <1>7, StartSurvives
<1>8. CASE FinishRecover  BY <1>1, <1>3, <1>8, FinishSurvives
<1>9. CASE ClearNew \/ Push \/ \E r \in Rank : Fetch(r) \/ Connect(r)
  BY <1>3, <1>9, RanksSurvive
<1>10. ASSUME NEW g \in Group, MonitorStep(g)  PROVE Survives'
  BY <1>1, <1>3, <1>10, KillSurvives, LooksSurvive
<1>11. ASSUME NEW s \in Slot, Crash(s)  PROVE Survives'
  BY <1>3, <1>11, CrashSurvives
<1>12. CASE Failed \/ UNCHANGED vars  BY <1>3, <1>12, StutterSurvives DEF Failed
<1>13. ~RequestsFail  BY DEF RequestsFail
<1> QED
  BY <1>4, <1>5, <1>6, <1>7, <1>8, <1>9, <1>10, <1>11, <1>12, <1>13 DEF Next, DriverStep

\* While all engines that are listed work, no step of the driver fails but for requests that no
\* engine is left to answer.
LEMMA WorkingSuffices ==
    ASSUME IInv, JoinInv, PauseIsJoin, Survives, driver # "failed", Listed \subseteq Healthy,
           [Next]_vars
    PROVE  driver' = "failed" => Unanswered
<1>1. CASE OnloadWeights \/ OnloadKv \/ Offload
  BY <1>1 DEF OnloadWeights, OnloadKv, Offload, Go, AfterOnload
<1>2. CASE FinishRecover  BY <1>2, FinishSurvives
<1>3. CASE ClearNew \/ Push \/ \E r \in Rank : Fetch(r) \/ Connect(r)
  BY <1>3, RanksSurvive
<1>4. CASE Recover \/ RecordDead \/ StartEngines
  BY <1>4 DEF Recover, RecordDead, StartEngines
<1>5. CASE Generate \/ Answered \/ GenerateEnds \/ PauseOffload \/ Train \/ Eval
  BY <1>5 DEF Generate, Answered, GenerateEnds, PauseOffload, Train, Eval
<1>6. ASSUME NEW g \in Group, MonitorStep(g)  PROVE driver' = driver
  BY <1>6 DEF MonitorStep, LeavePause, EndFirstWait, BeginRound, NextEngine, InTime, CheckFails,
              KillNode, EndInterval
<1>7. ASSUME NEW s \in Slot, Crash(s)  PROVE driver' = driver
  BY <1>7 DEF Crash
<1>8. CASE Failed \/ UNCHANGED vars  BY <1>8 DEF Failed, vars
<1>9. CASE RequestsFail  BY <1>9 DEF RequestsFail
<1> QED
  BY <1>1, <1>2, <1>3, <1>4, <1>5, <1>6, <1>7, <1>8, <1>9 DEF Next, DriverStep

\* When a pause waits for the monitors, the driver dies only of a call to an engine on the list
\* that does not work, or of requests that no engine is left to answer: the assertion of
\* recover() holds and the ranks push to engines they are connected to, whatever crashed, was
\* too slow, was stopped and restarted before.
THEOREM FailsUnseen == Spec => FailsOnlyUnseen
<1> DEFINE Excused == PauseIsJoin /\ Dies => Unanswered \/ \E e \in Listed : e \notin Healthy
<1>1. Init => JoinInv  BY DEF Init, JoinInv
<1>2. Init => SurvivalInv  BY InitSurvives DEF SurvivalInv
<1>3. IInv /\ JoinInv /\ SurvivalInv /\ [Next]_vars => [Excused]_vars
  <2> SUFFICES ASSUME IInv, JoinInv, SurvivalInv, [Next]_vars, PauseIsJoin, Dies
               PROVE  Unanswered \/ \E e \in Listed : e \notin Healthy
    OBVIOUS
  <2>1. Survives /\ driver # "failed" /\ driver' = "failed"  BY DEF SurvivalInv, Dies
  <2>2. Listed \subseteq Healthy => Unanswered  BY <2>1, WorkingSuffices
  <2> QED  BY <2>2
<1> QED
  BY <1>1, <1>2, <1>3, NextJoin, NextSurvives, Invariance, PTL DEF Spec, FailsOnlyUnseen

\* With every crash seen before its rollout ends, nothing the driver calls is down.
Calm == PauseIsJoin /\ CrashesSeen

Rolling == driver \in {"generate", "abort"}

UpInv == Calm /\ ~Rolling /\ driver # "failed" => Listed \subseteq Healthy

\* The steps of a rollout.
LEMMA RollingSteps ==
    ASSUME Rolling, [Next]_vars
    PROVE  \/ GenerateEnds
           \/ RequestsFail
           \/ Rolling'
<1>1. ASSUME NEW g \in Group, MonitorStep(g)  PROVE driver' = driver
  BY <1>1 DEF MonitorStep, LeavePause, EndFirstWait, BeginRound, NextEngine, InTime, CheckFails,
              KillNode, EndInterval
<1>2. ASSUME NEW s \in Slot, Crash(s)  PROVE driver' = driver
  BY <1>2 DEF Crash
<1>3. CASE DriverStep
  BY <1>3
  DEF DriverStep, OnloadWeights, Recover, RecordDead, StartEngines, FinishRecover, OnloadKv,
      Generate, Answered, PauseOffload, Offload, Train, ClearNew, Push, Fetch, Connect, Rolling
<1>4. CASE Eval \/ Failed \/ UNCHANGED vars
  BY <1>4 DEF Eval, Failed, vars, Rolling
<1> QED  BY <1>1, <1>2, <1>3, <1>4 DEF Next, Rolling

LEMMA NextUp ==
    IInv /\ JoinInv /\ SurvivalInv /\ UpInv /\ [Next]_vars => UpInv'
<1> SUFFICES ASSUME IInv, JoinInv, SurvivalInv, UpInv, [Next]_vars, Calm', ~Rolling',
                    driver' # "failed"
             PROVE  Listed' \subseteq Healthy'
  BY DEF UpInv
<1>1. PauseIsJoin /\ CrashesSeen  BY SameLayout, SameEngineSets DEF Calm
<1>2. driver # "failed" /\ Survives  BY <1>1, StaysFailed DEF SurvivalInv
<1>3. CASE GenerateEnds
  <2>1. UNCHANGED <<present, alive>> /\ Listed \subseteq Healthy
    BY <1>1, <1>3 DEF GenerateEnds, engineVars
  <2> QED  BY <2>1, SameEngineSets
<1>4. CASE ~Rolling
  <2>1. Listed \subseteq Healthy  BY <1>1, <1>2, <1>4 DEF UpInv, Calm
  <2>2. CASE StartEngines  BY <1>1, <1>2, <2>1, <2>2, StartSurvives
  <2>3. ASSUME NEW g \in Group, KillNode(g)  PROVE Listed' \subseteq Healthy'
    BY <1>1, <1>2, <2>1, <2>3, KillSurvives
  <2>4. CASE UNCHANGED <<present, alive>>
    BY <2>1, <2>4, SameEngineSets
  <2>5. \/ StartEngines \/ UNCHANGED <<present, alive>> \/ \E g \in Group : KillNode(g)
    <3>1. ASSUME NEW s \in Slot, Crash(s)  PROVE FALSE
      BY <1>1, <1>4, <3>1 DEF Crash, Rolling
    <3> QED
      BY <3>1
      DEF Next, DriverStep, MonitorStep, OnloadWeights, Recover, RecordDead, FinishRecover,
          OnloadKv, Generate, Answered, RequestsFail, GenerateEnds, PauseOffload, Offload, Train,
          ClearNew, Push, Fetch, Connect, Eval, Failed, LeavePause, EndFirstWait, BeginRound,
          NextEngine, InTime, CheckFails, EndInterval, vars, engineVars
  <2> QED  BY <2>2, <2>3, <2>4, <2>5
<1>5. ~RequestsFail  BY DEF RequestsFail
<1> QED  BY <1>3, <1>4, <1>5, RollingSteps

\* When a pause waits for the monitors and every crash is seen before its rollout ends, the
\* driver dies in one way only: a rollout or an evaluation has requests out and every engine
\* of the updatable server is down. No call of the driver reaches an engine that is down, and
\* recovery, reconnection and push succeed.
THEOREM SurvivesCrashes == Spec => JobSurvives
<1> DEFINE Excused == PauseIsJoin /\ CrashesSeen /\ Dies => Unanswered
<1>1. Init => JoinInv  BY DEF Init, JoinInv
<1>2. Init => SurvivalInv  BY InitSurvives DEF SurvivalInv
<1>3. Init => UpInv
  <2>1. Init => Listed \subseteq Healthy  BY SlotFacts DEF Init, Listed, Healthy
  <2> QED  BY <2>1 DEF UpInv
<1>4. IInv /\ JoinInv /\ SurvivalInv /\ UpInv /\ [Next]_vars => [Excused]_vars
  <2> SUFFICES ASSUME IInv, JoinInv, SurvivalInv, UpInv, [Next]_vars, PauseIsJoin, CrashesSeen,
                      Dies
               PROVE  Unanswered
    OBVIOUS
  <2>1. Survives /\ driver # "failed" /\ driver' = "failed"  BY DEF SurvivalInv, Dies
  <2>2. CASE Rolling
    <3>1. ~GenerateEnds /\ ~Rolling'  BY <2>1 DEF GenerateEnds, Rolling
    <3>2. RequestsFail  BY <2>2, <3>1, RollingSteps
    <3> QED  BY <3>2 DEF RequestsFail
  <2>3. CASE ~Rolling
    <3>1. Listed \subseteq Healthy  BY <2>1, <2>3 DEF UpInv, Calm
    <3> QED  BY <2>1, <3>1, WorkingSuffices
  <2> QED  BY <2>2, <2>3
<1> QED
  BY <1>1, <1>2, <1>3, <1>4, NextJoin, NextSurvives, NextUp, Invariance, PTL DEF Spec, JobSurvives
=============================================================================
