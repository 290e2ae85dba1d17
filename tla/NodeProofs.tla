----------------------------- MODULE NodeProofs -----------------------------
(***************************************************************************)
(* Proofs about two services of a running node that share no state: the    *)
(* miner's starting and stopping, for every number of calls and every      *)
(* capacity of the beacon's channel; and the block confirmation, for every *)
(* K, every length of a slot and every security difference.                *)
(***************************************************************************)
EXTENDS Miner, BlockConfirm, SumLemmas

(***************************************************************************)
(* The miner.                                                              *)
(***************************************************************************)
\* Where a timer loop is between taking Miner.mu and its end, and where a
\* call of Start is.
Active == {"first", "sleep", "send", "close", "drain"}

Starting == {"start1", "start2", "start3", "start4", "start5"}

\* The types of the variables; a bound on the agents' goroutines follows.
Types ==
    /\ pc \in [Caller -> {"idle", "done", "stop1", "stop2", "stop3", "stop4"} \cup Starting]
    /\ upd \in {"listen", "check", "stopping", "syncing", "loaded", "reset", "end"}
    /\ mining \in BOOLEAN /\ canStart \in BOOLEAN /\ shouldStart \in BOOLEAN
    /\ loaded \in BOOLEAN /\ workerMining \in BOOLEAN /\ agentMining \in BOOLEAN
    /\ channel \in BOOLEAN /\ closed \in BOOLEAN /\ leftOn \in BOOLEAN
    /\ workerMu \in Caller \cup {None} /\ mu \in Caller \cup {None}
    /\ stopCh \in 0 .. 1
    /\ loops \in [Caller -> {"none", "waiting"} \cup Active]
    /\ events \in 0 .. LoopEventCount
    /\ routines \in Nat

\* The goroutine of update makes its calls one after the other: it is in
\* none while it listens, waits or sets its flags, and Start is its last.
UpdaterInTurn ==
    /\ upd \notin {"stopping", "end"} => At(Updater, "idle")
    /\ upd # "end" => pc[Updater] \notin Starting

\* A call starts a loop with its last step.
LoopsOfStarts ==
    \A c \in Caller :
        loops[c] # "none" => At(c, "done") /\ (c = Updater => upd = "end")

\* The worker's mutex is held while a stop signal waits for room, and until
\* it is released no start turns the agent on again.
StopHoldsWorker ==
    /\ \A c \in Caller : At(c, "stop2") => workerMu = c
    /\ workerMu # None => ~agentMining

\* A loop that has begun holds Miner.mu; until it closes the channel the
\* beacon is on.
LoopHoldsMiner ==
    \A l \in Caller :
        /\ loops[l] \in Active => mu = l
        /\ loops[l] \in Active \ {"drain"} => channel /\ ~closed
        /\ loops[l] = "drain" => channel /\ closed

\* The channel is closed only while the loop that closed it waits for the
\* routine, and a beacon without a channel has no routine.
ChannelOfBeacon ==
    /\ closed => \E l \in Caller : loops[l] = "drain"
    /\ ~channel => routines = 0
    /\ routines <= 1
    /\ channel /\ ~closed => routines = 1

\* The parts that follow from each other.
Ordered ==
    /\ Types
    /\ UpdaterInTurn
    /\ LoopsOfStarts
    /\ StopHoldsWorker
    /\ LoopHoldsMiner
    /\ ChannelOfBeacon

\* The inductive invariant.
MinerIInv == Ordered /\ OneAgentGoroutine

\* The calls that wait to put a stop signal into the agent's channel.
Stoppers == {c \in Caller : At(c, "stop2")}

USE MinerAssumption DEF Caller, At, Goto

\* The callers are finite in number, and there is one.
LEMMA CallersFinite ==
    /\ IsFiniteSet(Caller)
    /\ Cardinality(Caller) \in Nat \ {0}
    /\ IsFiniteSet(Stoppers) /\ Cardinality(Stoppers) \in Nat
<1>1. IsFiniteSet(Caller)
  BY FS_AddElement
<1>2. IsFiniteSet(Stoppers) /\ Cardinality(Stoppers) \in Nat
  BY <1>1, FS_Subset, FS_CardinalityType DEF Stoppers
<1>3. Cardinality(Caller) \in Nat /\ Cardinality(Caller) # 0
  BY <1>1, FS_CardinalityType, FS_EmptySet
<1> QED
  BY <1>1, <1>2, <1>3

\* At most one call waits to stop the agent, so there are at most two update
\* goroutines: one that will take the signal in the channel, and another.
LEMMA AgentsBounded ==
    ASSUME MinerIInv PROVE agents \in 0 .. 2 /\ agents \in 0 .. Cardinality(Caller) + 1
<1> USE DEF Ordered, MinerIInv, Types
<1>1. agents = stopCh + (IF agentMining THEN 1 ELSE 0) + Cardinality(Stoppers)
  BY DEF OneAgentGoroutine, Stoppers
<1>2. CASE workerMu = None
  <2>1. Stoppers = {}
    BY <1>2 DEF StopHoldsWorker, Stoppers
  <2> QED
    BY <1>1, <2>1, FS_EmptySet, CallersFinite
<1>3. CASE workerMu # None
  <2>1. Stoppers \subseteq {workerMu}
    BY DEF StopHoldsWorker, Stoppers
  <2>2. IsFiniteSet({workerMu}) /\ Cardinality({workerMu}) = 1
    BY FS_Singleton
  <2>3. Cardinality(Stoppers) <= 1
    BY <2>1, <2>2, FS_Subset
  <2>4. ~agentMining
    BY <1>3 DEF StopHoldsWorker
  <2> QED
    BY <1>1, <2>3, <2>4, CallersFinite
<1> QED
  BY <1>2, <1>3

\* The invariant has the property as a part.
LEMMA InvariantSuffices == MinerIInv => OneOfEach
<1> SUFFICES ASSUME MinerIInv PROVE OneOfEach
  OBVIOUS
<1>1. MinerTypeOK
  BY AgentsBounded DEF Ordered, MinerIInv, Types, MinerTypeOK, Starting, Active
<1>2. OneBeaconRoutine
  BY DEF Ordered, MinerIInv, ChannelOfBeacon, LoopHoldsMiner, OneBeaconRoutine, Active
<1> QED
  BY <1>1, <1>2 DEF Ordered, MinerIInv, OneOfEach
\* Everything but the count of agents survives a step of a start or a stop.
LEMMA OrderedStep ==
    ASSUME Ordered, NEW c \in Caller, Step(c)
    PROVE  Ordered'
<1> USE DEF Ordered, Types, Starting, Active, flags, worker, beacon
<1>1. CASE StoreShouldStart(c)
  BY <1>1 DEF StoreShouldStart, UpdaterInTurn, LoopsOfStarts, StopHoldsWorker,
         LoopHoldsMiner, ChannelOfBeacon
<1>2. CASE CheckCanStart(c)
  BY <1>2 DEF CheckCanStart, UpdaterInTurn, LoopsOfStarts, StopHoldsWorker,
         LoopHoldsMiner, ChannelOfBeacon
<1>3. CASE StoreMining(c)
  BY <1>3 DEF StoreMining, UpdaterInTurn, LoopsOfStarts, StopHoldsWorker,
         LoopHoldsMiner, ChannelOfBeacon
<1>4. CASE workerStart(c)
  BY <1>4 DEF workerStart, AgentStart, UpdaterInTurn, LoopsOfStarts, StopHoldsWorker,
         LoopHoldsMiner, ChannelOfBeacon
<1>5. CASE StartTimerLoop(c)
  BY <1>5 DEF StartTimerLoop, UpdaterInTurn, LoopsOfStarts, StopHoldsWorker,
         LoopHoldsMiner, ChannelOfBeacon
<1>6. CASE workerStop(c)
  <2>1. Types'
    <3>1. workerMining' \in BOOLEAN /\ agentMining' \in BOOLEAN
      BY <1>6, Zenon DEF workerStop
    <3> QED
      BY <1>6, <3>1 DEF workerStop
  <2>2. UpdaterInTurn' /\ LoopsOfStarts'
    BY <1>6 DEF workerStop, UpdaterInTurn, LoopsOfStarts
  <2>3. StopHoldsWorker'
    BY <1>6 DEF workerStop, UpdaterInTurn, StopHoldsWorker
  <2>4. LoopHoldsMiner'
    BY <1>6 DEF workerStop, LoopHoldsMiner, LoopsOfStarts, ChannelOfBeacon
  <2>5. ChannelOfBeacon'
    BY <1>6 DEF workerStop, LoopHoldsMiner, LoopsOfStarts, ChannelOfBeacon
  <2> QED
    BY <2>1, <2>2, <2>3, <2>4, <2>5
<1>7. CASE AgentStop(c)
  <2>1. Types'
    <3>1. workerMining' \in BOOLEAN
      BY <1>7, Zenon DEF AgentStop
    <3> QED
      BY <1>7, <3>1 DEF AgentStop
  <2>2. UpdaterInTurn' /\ LoopsOfStarts'
    BY <1>7 DEF AgentStop, UpdaterInTurn, LoopsOfStarts
  <2>3. StopHoldsWorker'
    BY <1>7 DEF AgentStop, UpdaterInTurn, StopHoldsWorker
  <2>4. LoopHoldsMiner'
    BY <1>7 DEF AgentStop, LoopHoldsMiner, LoopsOfStarts, ChannelOfBeacon
  <2>5. ChannelOfBeacon'
    BY <1>7 DEF AgentStop, LoopHoldsMiner, LoopsOfStarts, ChannelOfBeacon
  <2> QED
    BY <2>1, <2>2, <2>3, <2>4, <2>5
<1>8. CASE ClearMining(c)
  <2>1. Types'
    <3>1. mining' \in BOOLEAN
      BY <1>8, Zenon DEF ClearMining
    <3> QED
      BY <1>8, <3>1 DEF ClearMining
  <2>2. UpdaterInTurn' /\ LoopsOfStarts'
    BY <1>8 DEF ClearMining, UpdaterInTurn, LoopsOfStarts
  <2>3. StopHoldsWorker'
    BY <1>8 DEF ClearMining, UpdaterInTurn, StopHoldsWorker
  <2>4. LoopHoldsMiner'
    BY <1>8 DEF ClearMining, LoopHoldsMiner, LoopsOfStarts, ChannelOfBeacon
  <2>5. ChannelOfBeacon'
    BY <1>8 DEF ClearMining, LoopHoldsMiner, LoopsOfStarts, ChannelOfBeacon
  <2> QED
    BY <2>1, <2>2, <2>3, <2>4, <2>5
<1>9. CASE ClearShouldStart(c)
  <2>1. Types'
    <3>1. shouldStart' \in BOOLEAN
      BY <1>9, Zenon DEF ClearShouldStart
    <3> QED
      BY <1>9, <3>1 DEF ClearShouldStart
  <2>2. UpdaterInTurn' /\ LoopsOfStarts'
    BY <1>9 DEF ClearShouldStart, UpdaterInTurn, LoopsOfStarts
  <2>3. StopHoldsWorker'
    BY <1>9 DEF ClearShouldStart, UpdaterInTurn, StopHoldsWorker
  <2>4. LoopHoldsMiner'
    BY <1>9 DEF ClearShouldStart, LoopHoldsMiner, LoopsOfStarts, ChannelOfBeacon
  <2>5. ChannelOfBeacon'
    BY <1>9 DEF ClearShouldStart, LoopHoldsMiner, LoopsOfStarts, ChannelOfBeacon
  <2> QED
    BY <2>1, <2>2, <2>3, <2>4, <2>5
<1> QED
  BY <1>1, <1>2, <1>3, <1>4, <1>5, <1>6, <1>7, <1>8, <1>9 DEF Step

\* Everything but the count of agents survives a step of a beacon loop.
LEMMA OrderedLoop ==
    ASSUME Ordered, NEW c \in Caller, LoopStep(c)
    PROVE  Ordered'
<1> USE DEF Ordered, Types, Starting, Active, flags, worker, beacon
<1>1. CASE LoopBegins(c)
  <2>1. Types'
    <3>1. leftOn' \in BOOLEAN /\ channel' \in BOOLEAN
      BY <1>1, Zenon DEF LoopBegins, BeaconInit
    <3> QED
      BY <1>1, <3>1 DEF LoopBegins, BeaconInit
  <2>2. UpdaterInTurn' /\ LoopsOfStarts'
    BY <1>1 DEF LoopBegins, BeaconInit, UpdaterInTurn, LoopsOfStarts
  <2>3. StopHoldsWorker'
    BY <1>1 DEF LoopBegins, BeaconInit, UpdaterInTurn, StopHoldsWorker
  <2>4. LoopHoldsMiner'
    BY <1>1 DEF LoopBegins, BeaconInit, LoopHoldsMiner, LoopsOfStarts, ChannelOfBeacon
  <2>5. ChannelOfBeacon'
    BY <1>1 DEF LoopBegins, BeaconInit, LoopHoldsMiner, LoopsOfStarts, ChannelOfBeacon
  <2> QED
    BY <2>1, <2>2, <2>3, <2>4, <2>5
<1>2. CASE posStartInit(c)
  <2>1. Types'
    <3>1. leftOn' \in BOOLEAN
      BY <1>2, Zenon DEF posStartInit
    <3> QED
      BY <1>2, <3>1 DEF posStartInit
  <2>2. UpdaterInTurn' /\ LoopsOfStarts'
    BY <1>2 DEF posStartInit, UpdaterInTurn, LoopsOfStarts
  <2>3. StopHoldsWorker'
    BY <1>2 DEF posStartInit, UpdaterInTurn, StopHoldsWorker
  <2>4. LoopHoldsMiner'
    BY <1>2 DEF posStartInit, LoopHoldsMiner, LoopsOfStarts, ChannelOfBeacon
  <2>5. ChannelOfBeacon'
    BY <1>2 DEF posStartInit, LoopHoldsMiner, LoopsOfStarts, ChannelOfBeacon
  <2> QED
    BY <2>1, <2>2, <2>3, <2>4, <2>5
<1>3. CASE SlotBegins(c)
  BY <1>3 DEF SlotBegins, UpdaterInTurn, LoopsOfStarts, StopHoldsWorker,
         LoopHoldsMiner, ChannelOfBeacon
<1>4. CASE BeaconLoop(c)
  BY <1>4 DEF BeaconLoop, ChannelHasRoom, UpdaterInTurn, LoopsOfStarts, StopHoldsWorker,
         LoopHoldsMiner, ChannelOfBeacon
<1>5. CASE BeaconClose(c)
  BY <1>5 DEF BeaconClose, UpdaterInTurn, LoopsOfStarts, StopHoldsWorker,
         LoopHoldsMiner, ChannelOfBeacon
<1>6. CASE BeaconStop(c)
  <2>1. Types'
    BY <1>6, ZenonT(60) DEF BeaconStop, RoutineGone
  <2>2. UpdaterInTurn' /\ LoopsOfStarts'
    BY <1>6 DEF BeaconStop, RoutineGone, UpdaterInTurn, LoopsOfStarts
  <2>3. StopHoldsWorker'
    BY <1>6 DEF BeaconStop, RoutineGone, UpdaterInTurn, StopHoldsWorker
  <2>4. LoopHoldsMiner'
    BY <1>6 DEF BeaconStop, RoutineGone, LoopHoldsMiner, LoopsOfStarts, ChannelOfBeacon
  <2>5. ChannelOfBeacon'
    BY <1>6 DEF BeaconStop, RoutineGone, LoopHoldsMiner, LoopsOfStarts, ChannelOfBeacon
  <2> QED
    BY <2>1, <2>2, <2>3, <2>4, <2>5
<1> QED
  BY <1>1, <1>2, <1>3, <1>4, <1>5, <1>6 DEF LoopStep

\* Everything but the count of agents survives the other steps.
LEMMA OrderedOthers ==
    ASSUME Ordered, AgentUpdate \/ update \/ LoopRoutine \/ FirstBlock
    PROVE  Ordered'
<1> USE DEF Ordered, Types, Starting, Active, flags, worker, beacon
<1>1. CASE AgentUpdate
  BY <1>1 DEF AgentUpdate, UpdaterInTurn, LoopsOfStarts, StopHoldsWorker,
         LoopHoldsMiner, ChannelOfBeacon
<1>2. CASE SyncStarts
  <2>1. Types'
    BY <1>2, ZenonT(60) DEF SyncStarts
  <2>2. UpdaterInTurn' /\ LoopsOfStarts'
    BY <1>2 DEF SyncStarts, UpdaterInTurn, LoopsOfStarts
  <2>3. StopHoldsWorker'
    BY <1>2 DEF SyncStarts, UpdaterInTurn, StopHoldsWorker
  <2>4. LoopHoldsMiner'
    BY <1>2 DEF SyncStarts, LoopHoldsMiner, LoopsOfStarts, ChannelOfBeacon
  <2>5. ChannelOfBeacon'
    BY <1>2 DEF SyncStarts, LoopHoldsMiner, LoopsOfStarts, ChannelOfBeacon
  <2> QED
    BY <2>1, <2>2, <2>3, <2>4, <2>5
<1>3. CASE CheckMining
  BY <1>3 DEF CheckMining, UpdaterInTurn, LoopsOfStarts, StopHoldsWorker,
         LoopHoldsMiner, ChannelOfBeacon
<1>4. CASE StoppedForSync
  BY <1>4 DEF StoppedForSync, UpdaterInTurn, LoopsOfStarts, StopHoldsWorker,
         LoopHoldsMiner, ChannelOfBeacon
<1>5. CASE SyncEnds
  BY <1>5 DEF SyncEnds, UpdaterInTurn, LoopsOfStarts, StopHoldsWorker,
         LoopHoldsMiner, ChannelOfBeacon
<1>6. CASE StoreCanStart
  BY <1>6 DEF StoreCanStart, UpdaterInTurn, LoopsOfStarts, StopHoldsWorker,
         LoopHoldsMiner, ChannelOfBeacon
<1>7. CASE ResetShouldStart
  <2>1. Types'
    BY <1>7, ZenonT(20) DEF ResetShouldStart
  <2>2. UpdaterInTurn' /\ LoopsOfStarts'
    BY <1>7 DEF ResetShouldStart, UpdaterInTurn, LoopsOfStarts
  <2>3. StopHoldsWorker'
    BY <1>7 DEF ResetShouldStart, UpdaterInTurn, StopHoldsWorker
  <2>4. LoopHoldsMiner'
    BY <1>7 DEF ResetShouldStart, LoopHoldsMiner, LoopsOfStarts, ChannelOfBeacon
  <2>5. ChannelOfBeacon'
    BY <1>7 DEF ResetShouldStart, LoopHoldsMiner, LoopsOfStarts, ChannelOfBeacon
  <2> QED
    BY <2>1, <2>2, <2>3, <2>4, <2>5
<1>8. CASE LoopRoutine
  BY <1>8 DEF LoopRoutine, UpdaterInTurn, LoopsOfStarts, StopHoldsWorker,
         LoopHoldsMiner, ChannelOfBeacon
<1>9. CASE FirstBlock
  BY <1>9 DEF FirstBlock, UpdaterInTurn, LoopsOfStarts, StopHoldsWorker,
         LoopHoldsMiner, ChannelOfBeacon
<1> QED
  BY <1>1, <1>2, <1>3, <1>4, <1>5, <1>6, <1>7, <1>8, <1>9 DEF update

\* A step of a start or a stop leaves at most one agent goroutine.
LEMMA AgentsOfStep ==
    ASSUME MinerIInv, NEW c \in Caller, Step(c)
    PROVE  OneAgentGoroutine'
<1> USE DEF MinerIInv, Ordered, Types, Starting, worker
<1> DEFINE on == IF agentMining THEN 1 ELSE 0
<1>1. agents = stopCh + on + Cardinality(Stoppers)
  BY DEF OneAgentGoroutine, Stoppers
<1> SUFFICES agents' = stopCh' + on' + Cardinality(Stoppers')
  BY DEF OneAgentGoroutine, Stoppers
<1>2. CASE workerStart(c)
  <2>1. Stoppers' = Stoppers
    BY <1>2 DEF workerStart, Stoppers
  <2>2. agents' - on' = agents - on
    BY <1>1, <1>2, CallersFinite DEF workerStart, AgentStart
  <2> QED
    BY <1>1, <1>2, <2>1, <2>2, CallersFinite DEF workerStart, AgentStart
<1>3. CASE workerStop(c)
  <2>1. CASE workerMining /\ agentMining
    <3>1. c \notin Stoppers /\ Stoppers' = Stoppers \cup {c}
      BY <1>3, <2>1 DEF workerStop, Stoppers
    <3>2. Cardinality(Stoppers') = Cardinality(Stoppers) + 1
      BY <3>1, CallersFinite, FS_AddElement
    <3>3. on = 1 /\ on' = 0 /\ agents' = agents /\ stopCh' = stopCh
      BY <1>3, <2>1 DEF workerStop
    <3> QED
      BY <1>1, <3>2, <3>3, CallersFinite
  <2>2. CASE ~(workerMining /\ agentMining)
    <3>1. Stoppers' = Stoppers
      BY <1>3, <2>2 DEF workerStop, Stoppers
    <3> QED
      BY <1>1, <1>3, <2>2, <3>1 DEF workerStop
  <2> QED
    BY <2>1, <2>2
<1>4. CASE AgentStop(c)
  <2>1. c \in Stoppers /\ Stoppers' = Stoppers \ {c}
    BY <1>4 DEF AgentStop, Stoppers
  <2>2. Cardinality(Stoppers') = Cardinality(Stoppers) - 1
    BY <2>1, CallersFinite, FS_RemoveElement
  <2> QED
    BY <1>1, <1>4, <2>2, CallersFinite DEF AgentStop
<1>5. ASSUME StoreShouldStart(c) \/ CheckCanStart(c) \/ StoreMining(c) \/ StartTimerLoop(c)
             \/ ClearMining(c) \/ ClearShouldStart(c)
      PROVE  Stoppers' = Stoppers /\ UNCHANGED worker
  BY <1>5 DEF StoreShouldStart, CheckCanStart, StoreMining, StartTimerLoop, ClearMining,
              ClearShouldStart, Stoppers
<1> QED
  BY <1>1, <1>2, <1>3, <1>4, <1>5 DEF Step

\* So do all other steps.
LEMMA AgentsOfOthers ==
    ASSUME MinerIInv,
           \/ \E c \in Calls : BeginStart(c) \/ BeginStop(c)
           \/ \E c \in Caller : LoopStep(c)
           \/ AgentUpdate \/ update \/ LoopRoutine \/ FirstBlock
           \/ UNCHANGED minervars
    PROVE  OneAgentGoroutine'
<1> USE DEF MinerIInv, Ordered, Types, Starting, worker
<1> DEFINE on == IF agentMining THEN 1 ELSE 0
<1>1. agents = stopCh + on + Cardinality(Stoppers)
  BY DEF OneAgentGoroutine, Stoppers
<1> SUFFICES agents' = stopCh' + on' + Cardinality(Stoppers')
  BY DEF OneAgentGoroutine, Stoppers
<1>2. CASE AgentUpdate
  <2>1. Stoppers' = Stoppers
    BY <1>2 DEF AgentUpdate, Stoppers
  <2> QED
    BY <1>1, <1>2, <2>1, CallersFinite DEF AgentUpdate
<1>3. ASSUME NEW c \in Calls, BeginStart(c) \/ BeginStop(c)
      PROVE  Stoppers' = Stoppers /\ UNCHANGED worker
  BY <1>3 DEF BeginStart, BeginStop, Stoppers
<1>4. ASSUME NEW c \in Caller, LoopStep(c)
      PROVE  Stoppers' = Stoppers /\ UNCHANGED worker
  BY <1>4 DEF LoopStep, LoopBegins, posStartInit, SlotBegins, BeaconLoop, BeaconClose, BeaconStop,
              Stoppers
<1>5. ASSUME update PROVE Stoppers' = Stoppers /\ UNCHANGED worker
  BY <1>5 DEF update, SyncStarts, CheckMining, StoppedForSync, SyncEnds, StoreCanStart,
              ResetShouldStart, UpdaterInTurn, Stoppers
<1>6. ASSUME LoopRoutine \/ FirstBlock \/ UNCHANGED minervars
      PROVE  Stoppers' = Stoppers /\ UNCHANGED worker
  BY <1>6 DEF LoopRoutine, FirstBlock, minervars, Stoppers
<1> QED
  BY <1>1, <1>2, <1>3, <1>4, <1>5, <1>6

\* The invariant holds in every reachable state.
LEMMA MinerInductive == MinerSpec => []MinerIInv
<1>1. MinerInit => MinerIInv
  <2> SUFFICES ASSUME MinerInit PROVE MinerIInv
    OBVIOUS
  <2>1. Stoppers = {} /\ Cardinality(Stoppers) = 0
    BY FS_EmptySet DEF MinerInit, Stoppers
  <2>2. OneAgentGoroutine
    BY <2>1 DEF MinerInit, OneAgentGoroutine, Stoppers
  <2>3. Types
    <3>1. /\ mining \in BOOLEAN /\ canStart \in BOOLEAN /\ shouldStart \in BOOLEAN
          /\ loaded \in BOOLEAN /\ workerMining \in BOOLEAN /\ agentMining \in BOOLEAN
          /\ channel \in BOOLEAN /\ closed \in BOOLEAN /\ leftOn \in BOOLEAN
      BY Zenon DEF MinerInit
    <3>2. workerMu = None /\ mu = None /\ upd = "listen"
      BY DEF MinerInit
    <3>3. /\ pc = [c \in Caller |-> "idle"] /\ loops = [c \in Caller |-> "none"]
          /\ stopCh = 0 /\ events = 0 /\ routines = 0
      BY DEF MinerInit
    <3> QED
      BY <3>1, <3>2, <3>3 DEF Types, Starting, Active
  <2>4. UpdaterInTurn /\ LoopsOfStarts /\ StopHoldsWorker /\ LoopHoldsMiner /\ ChannelOfBeacon
    BY DEF MinerInit, UpdaterInTurn, LoopsOfStarts, StopHoldsWorker, LoopHoldsMiner,
           ChannelOfBeacon, Starting, Active
  <2> QED
    BY <2>2, <2>3, <2>4 DEF MinerIInv, Ordered
<1>2. MinerIInv /\ [MinerNext]_minervars => MinerIInv'
  <2> SUFFICES ASSUME MinerIInv, [MinerNext]_minervars PROVE MinerIInv'
    OBVIOUS
  <2>1. ASSUME NEW c \in Calls, BeginStart(c) \/ BeginStop(c) PROVE Ordered'
    BY <2>1 DEF MinerIInv, Ordered, BeginStart, BeginStop, Types, Starting, Active, flags, worker,
                beacon, UpdaterInTurn, LoopsOfStarts, StopHoldsWorker, LoopHoldsMiner,
                ChannelOfBeacon
  <2>2. CASE UNCHANGED minervars
    BY <2>2 DEF minervars, MinerIInv, Ordered, Types, flags, worker, beacon, UpdaterInTurn,
                LoopsOfStarts, StopHoldsWorker, LoopHoldsMiner, ChannelOfBeacon, OneAgentGoroutine
  <2> QED
    BY <2>1, <2>2, OrderedStep, OrderedLoop, OrderedOthers, AgentsOfStep, AgentsOfOthers
       DEF MinerNext, MinerIInv
<1> QED
  BY <1>1, <1>2, PTL DEF MinerSpec

\* However starts, stops, a synchronisation and the timer loops overlap,
\* there is one goroutine of the agent, and one routine of the beacon, for
\* everyone who is on, and none for those who are off.
THEOREM AlwaysOneOfEach == MinerSpec => []OneOfEach
  BY MinerInductive, InvariantSuffices, PTL
-----------------------------------------------------------------------------
(***************************************************************************)
(* The block confirmation.                                                 *)
(***************************************************************************)
\* The quotient by the length of a slot.
LEMMA SlotQuotient ==
    ASSUME NEW t \in Nat
    PROVE  /\ t \div SlotTime \in Int
           /\ SlotTime * (t \div SlotTime) <= t
           /\ t < SlotTime * (t \div SlotTime + 1)
<1>1. t \div SlotTime \in Int
  BY ConfirmAssumption
<1>2. SlotTime * (t \div SlotTime) <= t
  BY ConfirmAssumption
<1>3. t < SlotTime * (t \div SlotTime + 1)
  BY ConfirmAssumption
<1> QED
  BY <1>1, <1>2, <1>3

\* The length of a slot cancels.
LEMMA Cancel ==
    ASSUME NEW a \in Int, NEW b \in Int, SlotTime * a < SlotTime * b
    PROVE  a < b
<1> SUFFICES ASSUME a >= b PROVE FALSE
  OBVIOUS
<1>1. SlotTime * (a - b) >= 0
  BY ConfirmAssumption
<1>2. SlotTime * (a - b) = SlotTime * a - SlotTime * b
  BY ConfirmAssumption
<1>3. SlotTime * a \in Int /\ SlotTime * b \in Int
  BY ConfirmAssumption
<1> QED
  BY <1>1, <1>2, <1>3

\* The slots that have begun since the beginning of slot s.
LEMMA SlotsSince ==
    ASSUME NEW s \in Nat, NEW t \in Nat, s * SlotTime <= t
    PROVE  /\ t \div SlotTime \in Nat
           /\ s <= t \div SlotTime
           /\ (t - s * SlotTime) \div SlotTime = t \div SlotTime - s
<1> DEFINE B == SlotTime
           q == t \div SlotTime
           d == t - s * SlotTime
           r == d \div SlotTime
<1>1. B \in Nat \ {0} /\ s * B \in Nat /\ s * B = B * s
  BY ConfirmAssumption
<1>2. d \in Nat
  BY <1>1
<1>3. q \in Int /\ B * q <= t /\ t < B * (q + 1)
  BY SlotQuotient
<1>4. r \in Int /\ B * r <= d /\ d < B * (r + 1)
  BY <1>2, SlotQuotient
<1> HIDE DEF B, q, r
<1>5. /\ B * (r + s) = B * r + B * s /\ B * (r + s + 1) = B * (r + 1) + B * s
      /\ B * r \in Int /\ B * s \in Int /\ B * (r + 1) \in Int /\ B * q \in Int /\ B * (q + 1) \in Int
  BY <1>1, <1>3, <1>4
<1>6. B * (r + s) < B * (q + 1) /\ B * q < B * (r + s + 1) /\ B * s < B * (q + 1)
  BY <1>1, <1>2, <1>3, <1>4, <1>5 DEF B
<1>7. r + s < q + 1 /\ q < r + s + 1 /\ s < q + 1
  BY <1>3, <1>4, <1>6, Cancel DEF B
<1> QED
  BY <1>3, <1>4, <1>7 DEF q, r

\* The slots that have begun since second c of slot s: one less as long as
\* the clock is not as far into its slot.
LEMMA SlotsSinceSecond ==
    ASSUME NEW s \in Nat, NEW c \in 0..(SlotTime - 1), NEW t \in Nat, s * SlotTime + c <= t
    PROVE  (t - (s * SlotTime + c)) \div SlotTime =
               t \div SlotTime - s - (IF t % SlotTime >= c THEN 0 ELSE 1)
<1> DEFINE B == SlotTime
           q == t \div SlotTime
           m == t % SlotTime
           d == t - (s * SlotTime + c)
           r == d \div SlotTime
<1>1. B \in Nat \ {0} /\ s * B \in Nat /\ s * B = B * s /\ c \in Nat /\ c < B
  BY ConfirmAssumption
<1>2. d \in Nat
  BY <1>1
<1>3. q \in Int /\ m \in Nat /\ m < B /\ t = B * q + m
  <2>1. q \in Int
    BY SlotQuotient
  <2>2. m \in 0..(B - 1)
    BY <1>1
  <2>3. t = B * q + m
    BY <1>1
  <2> QED
    BY <1>1, <2>1, <2>2, <2>3
<1>4. r \in Int /\ B * r <= d /\ d < B * (r + 1)
  BY <1>2, SlotQuotient
<1> HIDE DEF B, q, m, r
<1>5. /\ B * (q - s) = B * q - B * s /\ B * (q - s + 1) = B * q - B * s + B
      /\ B * (q - s - 1) = B * q - B * s - B
      /\ B * q \in Int /\ B * s \in Int /\ B * r \in Int /\ B * (r + 1) \in Int
  BY <1>1, <1>3, <1>4
<1>6. d = B * q - B * s + m - c
  BY <1>1, <1>3, <1>5 DEF B
<1> HIDE DEF d
<1>7. CASE m >= c
  <2>1. B * r < B * (q - s + 1) /\ B * (q - s) < B * (r + 1)
    BY <1>1, <1>3, <1>4, <1>5, <1>6, <1>7
  <2>2. r < q - s + 1 /\ q - s < r + 1
    BY <1>3, <1>4, <2>1, Cancel DEF B
  <2>3. r = q - s
    BY <1>3, <1>4, <2>2
  <2> QED
    BY <1>3, <1>7, <2>3 DEF q, m, r, d
<1>8. CASE ~(m >= c)
  <2>1. B * r < B * (q - s) /\ B * (q - s - 1) < B * (r + 1)
    BY <1>1, <1>3, <1>4, <1>5, <1>6, <1>8
  <2>2. r < q - s /\ q - s - 1 < r + 1
    BY <1>3, <1>4, <2>1, Cancel DEF B
  <2>3. r = q - s - 1
    BY <1>3, <1>4, <2>2
  <2> QED
    BY <1>3, <1>8, <2>3 DEF q, m, r, d
<1> QED
  BY <1>7, <1>8
-----------------------------------------------------------------------------
\* Time and blocks: what every block of the chain satisfies.
ClockOK == now \in Nat /\ CTypeOK

\* What the clock's invariant says of the blocks of the chain.
LEMMA Blocks ==
    ASSUME ClockOK
    PROVE  /\ startNumber \in Nat /\ DOMAIN chain = 1 .. startNumber
           /\ \A i \in 1 .. startNumber :
                 /\ chain[i].slot \in Nat /\ chain[i].trusted \in BOOLEAN
                 /\ chain[i].second \in 0..(SlotTime - 1)
                 /\ chain[i].slot * SlotTime + chain[i].second <= now
                 /\ chain[i].slot * SlotTime <= now
                 /\ \A j \in 1 .. startNumber : i < j => chain[i].slot < chain[j].slot
<1>1. startNumber \in Nat /\ DOMAIN chain = 1 .. startNumber
  BY DEF ClockOK, CTypeOK, startNumber
<1>2. \A i \in 1 .. startNumber : chain[i] \in Block
  BY <1>1 DEF ClockOK, CTypeOK
<1>3. \A i \in 1 .. startNumber :
         /\ chain[i].slot \in Nat /\ chain[i].trusted \in BOOLEAN
         /\ chain[i].second \in 0..(SlotTime - 1)
  BY <1>2 DEF Block
<1>4. \A i \in 1 .. startNumber :
         /\ chain[i].slot * SlotTime + chain[i].second <= now
         /\ \A j \in 1 .. startNumber : i < j => chain[i].slot < chain[j].slot
  BY <1>1 DEF ClockOK, CTypeOK, BlockTime, TimeOf
<1>5. ASSUME NEW i \in 1 .. startNumber PROVE chain[i].slot * SlotTime <= now
  <2>1. chain[i].slot * SlotTime \in Nat /\ chain[i].second \in Nat /\ now \in Nat
    BY <1>3, ConfirmAssumption DEF ClockOK
  <2> QED
    BY <1>4, <2>1
<1> QED
  BY <1>1, <1>3, <1>4, <1>5

\* The clock's invariant holds in every reachable state.
LEMMA ClockAlwaysOK == CSpec => []ClockOK
<1> USE ConfirmAssumption DEF ClockOK, CTypeOK, BlockTime, TimeOf
<1>1. CInit => ClockOK
  <2> SUFFICES ASSUME CInit PROVE ClockOK
    OBVIOUS
  <2>1. chain = <<>> /\ now = 0 /\ nullBlk = FALSE
    BY DEF CInit
  <2>2. chain \in Seq(Block) /\ DOMAIN chain = {}
    BY <2>1
  <2> QED
    BY <2>1, <2>2
<1>2. ClockOK /\ [CNext]_cvars => ClockOK'
  <2> SUFFICES ASSUME ClockOK, [CNext]_cvars PROVE ClockOK'
    OBVIOUS
  <2>0. now \div SlotTime \in Nat
    <3>1. 0 \in Nat /\ 0 * SlotTime <= now
      OBVIOUS
    <3> QED
      BY <3>1, SlotsSince
  <2>1. ASSUME NEW slot \in 0..(now \div SlotTime), NEW second \in 0..(SlotTime - 1),
               NEW trusted \in BOOLEAN, NewBlock(slot, second, trusted)
        PROVE  ClockOK'
    <3> DEFINE b == [slot |-> slot, second |-> second, trusted |-> trusted]
    <3>1. slot \in Nat /\ slot * SlotTime + second <= now
      BY <2>0, <2>1 DEF NewBlock
    <3>2. chain' = Append(chain, b) /\ UNCHANGED <<now, nullBlk>>
      BY <2>1 DEF NewBlock
    <3>3. ASSUME NEW i \in DOMAIN chain PROVE chain[i].slot < slot
      <4>1. Len(chain) \in DOMAIN chain /\ i \in Nat /\ i <= Len(chain)
        OBVIOUS
      <4>2. chain[Len(chain)].slot < slot
        BY <2>1, <4>1 DEF NewBlock
      <4>3. i < Len(chain) => chain[i].slot < chain[Len(chain)].slot
        BY <4>1
      <4>4. chain[i].slot \in Nat /\ chain[Len(chain)].slot \in Nat
        BY <4>1, Blocks
      <4>5. CASE i = Len(chain)
        BY <4>2, <4>5
      <4>6. CASE i < Len(chain)
        <5> DEFINE x == chain[i].slot
                   y == chain[Len(chain)].slot
        <5>1. x \in Nat /\ y \in Nat /\ slot \in Nat /\ x < y /\ y < slot
          BY <3>1, <4>2, <4>3, <4>4, <4>6
        <5> HIDE DEF x, y
        <5>2. x < slot
          BY <5>1
        <5> QED
          BY <5>2 DEF x
      <4> QED
        BY <4>1, <4>5, <4>6
    <3>4. chain' \in Seq(Block)
      <4>1. b \in Block
        BY <3>1 DEF Block
      <4>2. chain \in Seq(Block)
        OBVIOUS
      <4> HIDE DEF b
      <4> QED
        BY <3>2, <4>1, <4>2
    <3>5. DOMAIN chain' = DOMAIN chain \cup {Len(chain) + 1}
      BY <3>2
    <3>6. chain'[Len(chain) + 1] = b /\ \A i \in DOMAIN chain : chain'[i] = chain[i]
      BY <3>2
    <3>7. \A i, j \in DOMAIN chain' : i < j => chain'[i].slot < chain'[j].slot
      BY <3>3, <3>5, <3>6
    <3>8. \A i \in DOMAIN chain' : chain'[i].slot * SlotTime + chain'[i].second <= now'
      BY <3>1, <3>2, <3>5, <3>6
    <3> QED
      BY <3>2, <3>4, <3>7, <3>8
  <2>2. CASE Tick
    <3>1. ASSUME NEW i \in DOMAIN chain PROVE BlockTime(i) \in Nat
      <4>1. chain[i].slot \in Nat /\ chain[i].second \in Nat
        BY Blocks
      <4>2. chain[i].slot * SlotTime \in Nat
        BY <4>1
      <4> QED
        BY <4>1, <4>2
    <3> QED
      BY <2>2, <3>1 DEF Tick
  <2>3. CASE ReadBlocks \/ UNCHANGED cvars
    BY <2>3 DEF cvars, ReadBlocks
  <2> QED
    BY <2>1, <2>2, <2>3 DEF CNext
<1> QED
  BY <1>1, <1>2, PTL DEF CSpec

\* The block reported lies between the lowest that is looked at and the
\* current one, and the blocks up to it that are looked at are stable.
LEMMA Reported ==
    ASSUME ClockOK, startNumber # 0
    PROVE  /\ getMaxStableBlkNumber \in stopNumber .. startNumber - 1
           /\ \A n \in (stopNumber + 1) .. getMaxStableBlkNumber : Stable(n)
<1> DEFINE S == {startNumber} \cup {n \in (stopNumber + 1) .. startNumber : ~Stable(n)}
<1>1. startNumber \in Nat \ {0} /\ stopNumber \in 0 .. startNumber - 1
  BY ConfirmAssumption DEF ClockOK, CTypeOK, startNumber, stopNumber
<1>2. S \in SUBSET Nat /\ S # {}
  BY <1>1
<1>3. Min(S) \in S /\ \A n \in S : Min(S) <= n
  BY <1>2, MinOfNaturals
<1>4. getMaxStableBlkNumber = IF nullBlk THEN stopNumber ELSE Min(S) - 1
  BY DEF getMaxStableBlkNumber
<1>5. \A n \in S : n \in (stopNumber + 1) .. startNumber
  BY <1>1
<1> HIDE DEF S
<1>6. Min(S) \in (stopNumber + 1) .. startNumber
  BY <1>3, <1>5
<1>7. ASSUME NEW n \in (stopNumber + 1) .. (Min(S) - 1) PROVE Stable(n)
  <2>1. n \in (stopNumber + 1) .. startNumber /\ ~(Min(S) <= n)
    BY <1>1, <1>6
  <2> QED
    BY <1>3, <2>1 DEF S
<1>8. CASE nullBlk
  BY <1>1, <1>4, <1>8
<1>9. CASE ~nullBlk
  BY <1>1, <1>4, <1>6, <1>7, <1>9
<1> QED
  BY <1>8, <1>9

\* The number of slots since block n, empty ones and the one under way
\* included, that leaders of the white list have not used.
LEMMA SlotsNotTrusted ==
    ASSUME ClockOK, NEW n \in 1 .. startNumber
    PROVE  LET slots == chain[n].slot .. (now \div SlotTime)
               trusted == {chain[i].slot : i \in Suffix(n, TRUE)}
           IN  Cardinality(slots \ trusted) =
                   now \div SlotTime - chain[n].slot + 1 - Cardinality(Suffix(n, TRUE))
<1> DEFINE T == Suffix(n, TRUE)
           q == now \div SlotTime
           slots == chain[n].slot .. q
           trusted == {chain[i].slot : i \in T}
           f == [i \in T |-> chain[i].slot]
<1>1. DOMAIN chain = 1 .. startNumber /\ startNumber \in Nat
  BY Blocks
<1>2. /\ \A i \in 1 .. startNumber : chain[i].slot \in Nat /\ chain[i].slot * SlotTime <= now
      /\ n \in Nat /\ chain[n].slot \in Nat
  BY Blocks
<1>3. ASSUME NEW i \in 1 .. startNumber
      PROVE  q \in Nat /\ chain[i].slot <= q
  BY <1>2, SlotsSince DEF ClockOK
<1> HIDE DEF q
<1>4. IsFiniteSet(slots) /\ Cardinality(slots) = q - chain[n].slot + 1
  <2>1. q \in Nat /\ chain[n].slot <= q
    BY <1>3
  <2>2. chain[n].slot \in Int /\ q \in Int /\ ~(chain[n].slot > q)
    BY <1>2, <2>1
  <2> HIDE DEF slots
  <2> QED
    BY <2>2, FS_Interval DEF slots
<1>5. T \subseteq n .. startNumber /\ T \subseteq 1 .. startNumber
  BY <1>1 DEF Suffix
<1>6. IsFiniteSet(T)
  <2>1. IsFiniteSet(n .. startNumber)
    BY <1>1, <1>2, FS_Interval
  <2> QED
    BY <1>5, <2>1, FS_Subset
<1>7. ASSUME NEW i \in 1 .. startNumber, NEW j \in 1 .. startNumber, i # j
      PROVE  chain[i].slot # chain[j].slot
  <2>1. i < j \/ j < i
    BY <1>7
  <2> QED
    BY <1>2, <2>1, Blocks
<1>8. f \in Bijection(T, trusted)
  <2>1. f \in [T -> trusted] /\ \A s \in trusted : \E i \in T : f[i] = s
    OBVIOUS
  <2>2. ASSUME NEW i \in T, NEW j \in T, f[i] = f[j] PROVE i = j
    <3>1. f[i] = chain[i].slot /\ f[j] = chain[j].slot
      OBVIOUS
    <3>2. i \in 1 .. startNumber /\ j \in 1 .. startNumber
      BY <1>5
    <3> QED
      BY <1>7, <2>2, <3>1, <3>2
  <2> HIDE DEF f, trusted, T
  <2> QED
    BY <2>1, <2>2 DEF Bijection, Injection, Surjection, IsInjective
<1>9. IsFiniteSet(trusted) /\ Cardinality(trusted) = Cardinality(T)
  BY <1>6, <1>8, FS_Bijection DEF ExistsBijection
<1>10. ASSUME NEW i \in T PROVE chain[i].slot \in slots
  <2>1. i \in 1 .. startNumber /\ i \in n .. startNumber
    BY <1>5
  <2>2. n < i => chain[n].slot < chain[i].slot
    BY <2>1, Blocks
  <2>3. n = i \/ n < i
    BY <1>1, <1>2, <2>1
  <2> QED
    BY <1>2, <1>3, <2>1, <2>2, <2>3
<1>11. slots \cap trusted = trusted
  BY <1>10
<1> HIDE DEF slots, trusted, T
<1>12. Cardinality(slots \ trusted) = Cardinality(slots) - Cardinality(slots \cap trusted)
  BY <1>4, FS_Difference
<1>13. Cardinality(slots \ trusted)
         = q - chain[n].slot + 1 - Cardinality(T)
  <2>1. Cardinality(slots \cap trusted) = Cardinality(T)
    BY <1>9, <1>11
  <2>2. q \in Nat /\ chain[n].slot \in Nat /\ Cardinality(T) \in Nat
    BY <1>2, <1>3, <1>6, FS_CardinalityType
  <2> HIDE DEF f
  <2> QED
    BY <1>4, <1>12, <2>1, <2>2
<1> QED
  BY <1>13 DEF slots, trusted, T, q

\* Every block from n on is of the white list or not.
LEMMA SuffixCounted ==
    ASSUME ClockOK, NEW n \in 1 .. startNumber
    PROVE  /\ Cardinality(Suffix(n, TRUE)) \in Nat
           /\ Cardinality(Suffix(n, FALSE)) \in Nat
           /\ Cardinality(Suffix(n, TRUE)) + Cardinality(Suffix(n, FALSE)) = startNumber - n + 1
<1> DEFINE T == Suffix(n, TRUE)
           U == Suffix(n, FALSE)
<1>1. DOMAIN chain = 1 .. startNumber /\ startNumber \in Nat
  BY Blocks
<1>2. \A i \in n .. startNumber : chain[i].trusted \in BOOLEAN
  BY <1>1, Blocks
<1>3. T \cup U = n .. startNumber
  BY <1>2 DEF Suffix
<1>4. T \cap U = {}
  BY DEF Suffix
<1>5. IsFiniteSet(n .. startNumber) /\ Cardinality(n .. startNumber) = startNumber - n + 1
  BY <1>1, FS_Interval
<1>6. T \subseteq n .. startNumber /\ U \subseteq n .. startNumber
  BY <1>3
<1> HIDE DEF T, U
<1>7. IsFiniteSet(T) /\ IsFiniteSet(U)
  BY <1>5, <1>6, FS_Subset
<1>8. Cardinality(T) \in Nat /\ Cardinality(U) \in Nat
  BY <1>7, FS_CardinalityType
<1>9. Cardinality(T \cup U) = Cardinality(T) + Cardinality(U) - Cardinality(T \cap U)
  BY <1>7, FS_Union
<1>10. Cardinality(T) + Cardinality(U) = startNumber - n + 1
  <2>1. Cardinality(T \cap U) = 0
    BY <1>4, FS_EmptySet DEF T, U
  <2>2. Cardinality(T \cup U) = startNumber - n + 1
    BY <1>3, <1>5 DEF T, U
  <2> QED
    BY <1>1, <1>8, <1>9, <2>1, <2>2
<1> QED
  BY <1>8, <1>10 DEF T, U

\* No block that is reported as stable can be overtaken: leaders that are
\* not on the white list, given all slots since it that white list leaders
\* have not used, stay more than SecBlkDiff blocks behind, or SecBlkDiff as
\* long as the clock is not as far into its slot as the block was dated
\* (scanAllBlockStatus, getSlotsCount).
THEOREM AlwaysStableIsSafe == CSpec => []StableIsSafe
<1>1. ClockOK => StableIsSafe
  <2> SUFFICES ASSUME ClockOK,
                      NEW n \in (stopNumber + 1) .. startNumber, n <= getMaxStableBlkNumber
               PROVE  Lead(n) > IF now % SlotTime >= chain[n].second THEN SecBlkDiff ELSE SecBlkDiff - 1
    BY DEF StableIsSafe, StableIsAhead, ClockOK
  <2> DEFINE t == Cardinality(Suffix(n, TRUE))
             u == Cardinality(Suffix(n, FALSE))
             s == chain[n].slot
             c == chain[n].second
             q == now \div SlotTime
             short == IF now % SlotTime >= c THEN 0 ELSE 1
  <2>1. startNumber \in Nat /\ stopNumber \in Nat /\ n \in 1 .. startNumber
    BY ConfirmAssumption DEF ClockOK, CTypeOK, startNumber, stopNumber
  <2>2. Stable(n) /\ n < startNumber
    BY <2>1, Reported, ConfirmAssumption
  <2>3. t \in Nat /\ u \in Nat /\ t + u = startNumber - n + 1
    BY <2>1, SuffixCounted
  <2>4. /\ now \in Nat /\ s \in Nat /\ c \in 0..(SlotTime - 1) /\ s * SlotTime + c <= now
        /\ \A i \in 1 .. startNumber : chain[i].slot \in Nat /\ chain[i].slot * SlotTime <= now
        /\ s * SlotTime <= now /\ s < chain[n + 1].slot
    <3>1. n + 1 \in 1 .. startNumber /\ n < n + 1
      BY <2>1, <2>2
    <3> QED
      BY <2>1, <3>1, Blocks DEF ClockOK
  <2>5. q \in Nat /\ s <= q /\ (now - (s * SlotTime + c)) \div SlotTime = q - s - short
    BY <2>4, SlotsSince, SlotsSinceSecond
  <2>6. s * SlotTime + c < now
    <3>1. n + 1 \in 1 .. startNumber
      BY <2>1, <2>2
    <3> DEFINE v == chain[n + 1].slot
    <3>2. v * SlotTime <= now /\ v \in Nat /\ s < v
      BY <2>4, <3>1
    <3> HIDE DEF v
    <3>3. (s + 1) * SlotTime <= v * SlotTime /\ (s + 1) * SlotTime = s * SlotTime + SlotTime
      <4>1. (v - (s + 1)) * SlotTime >= 0
        BY <2>4, <3>2, ConfirmAssumption
      <4>2. (v - (s + 1)) * SlotTime = v * SlotTime - (s + 1) * SlotTime
        BY <2>4, <3>2, ConfirmAssumption
      <4> QED
        BY <2>4, <3>2, <4>1, <4>2, ConfirmAssumption
    <3>4. s * SlotTime \in Nat /\ v * SlotTime \in Nat /\ c < SlotTime /\ c \in Nat
      BY <2>4, <3>2, ConfirmAssumption
    <3> QED
      BY <2>4, <3>2, <3>3, <3>4, ConfirmAssumption
  <2>7. getSlotsCount(BlockTime(n), now) = q - s - short + 1
    <3>1. s * SlotTime + c \in Nat
      BY <2>4, ConfirmAssumption
    <3>2. BlockTime(n) = s * SlotTime + c
      BY DEF BlockTime, TimeOf
    <3> DEFINE b == BlockTime(n)
    <3>3. b \in Nat /\ b < now /\ (now - b) \div SlotTime = q - s - short
      BY <2>5, <2>6, <3>1, <3>2
    <3> HIDE DEF b, s, q, short, c
    <3>4. getSlotsCount(b, now) = (now - b) \div SlotTime + 1
      BY <2>4, <3>3 DEF getSlotsCount
    <3> QED
      BY <3>3, <3>4 DEF b
  <2>8. 2 * t + u - (q - s - short + 1) > SecBlkDiff
    BY <2>2, <2>7 DEF Stable
  <2>9. Lead(n) = (startNumber - n + 1) - (q - s + 1 - t)
    BY <2>1, SlotsNotTrusted DEF Lead
  <2>10. short \in 0..1
    OBVIOUS
  <2>11. Lead(n) > SecBlkDiff - short
    <3> HIDE DEF t, u, s, q, short
    <3> QED
      BY <2>1, <2>3, <2>4, <2>5, <2>8, <2>9, <2>10, ConfirmAssumption
  <2> QED
    BY <2>11, ConfirmAssumption
<1> QED
  BY <1>1, ClockAlwaysOK, PTL

\* The number reported is below the current block and at most K behind it,
\* also when a block could not be read (getMaxStableBlkNumber).
THEOREM AlwaysReportWithinK == CSpec => []ReportWithinK
<1>1. ClockOK => ReportWithinK
  <2> SUFFICES ASSUME ClockOK, startNumber > Pow2PosUpgradeBlockNumber
               PROVE  GetMaxStableBlkNumber \in (startNumber - K) .. (startNumber - 1)
    BY DEF ReportWithinK
  <2>1. startNumber \in Nat \ {0}
    BY ConfirmAssumption DEF ClockOK, CTypeOK, startNumber
  <2>2. getMaxStableBlkNumber \in stopNumber .. startNumber - 1
    BY <2>1, Reported
  <2>3. stopNumber >= startNumber - K /\ stopNumber \in Nat
    BY <2>1, ConfirmAssumption DEF stopNumber
  <2> QED
    BY <2>1, <2>2, <2>3, MaxOfTwo, ConfirmAssumption DEF GetMaxStableBlkNumber
<1> QED
  BY <1>1, ClockAlwaysOK, PTL
=============================================================================
