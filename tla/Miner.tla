------------------------------- MODULE Miner --------------------------------
(***************************************************************************)
(* Starting and stopping the miner: miner/miner.go, miner/worker.go,       *)
(* miner/agent.go, the timer loop of miner/pos_agent.go, and the event     *)
(* channel between that loop and the random beacon's routine               *)
(* (pos/randombeacon/random_beacon.go).  Start and Stop are called by      *)
(* users and by the goroutine that follows the downloader, concurrently,   *)
(* and set their atomic flags one by one.  What a turn of the beacon's     *)
(* routine does is in BeaconNode, what a turn of the timer loop does for   *)
(* the slot leaders in SlotLeaderNode.                                     *)
(***************************************************************************)
EXTENDS Naturals, FiniteSets

CONSTANTS
    Calls,          \* bound: the Start and Stop calls of users
    LoopEventCount, \* capacity of the beacon's channel (1000 in the code)
    Updater,        \* the goroutine of Miner.update
    None

ASSUME MinerAssumption ==
    /\ IsFiniteSet(Calls)
    /\ Updater \notin Calls
    /\ None \notin Calls \cup {Updater}
    /\ LoopEventCount \in Nat \ {0}

Caller == Calls \cup {Updater}

VARIABLES
    mining, canStart, shouldStart,      \* Miner's atomic flags
    pc,             \* how far a caller is in Start or Stop
    upd, loaded,    \* how far update is, and the shouldStart it has read
    \* the worker: its flag and the holder of its mutex
    workerMining, workerMu,
    \* the agent: its flag, its update goroutines, signals in its stop channel
    agentMining, agents, stopCh,
    \* goroutines in backendTimerLoop by the call that started them, and the
    \* one that holds Miner.mu
    loops, mu,
    firstBlock,     \* the first proof-of-stake block is known
    \* the beacon: whether its channel exists, is closed, the events in it,
    \* and the running routines
    channel, closed, events, routines,
    \* history: calls that were told to wait for the end of a
    \* synchronisation, and a beacon left on by a loop that ended early
    promised, leftOn

flags == <<mining, canStart, shouldStart>>
worker == <<workerMining, workerMu, agentMining, agents, stopCh>>
beacon == <<channel, closed, events, routines>>
minervars == <<flags, pc, upd, loaded, worker, loops, mu, firstBlock, beacon, promised, leftOn>>

At(c, step) == pc[c] = step
Goto(c, step) == pc' = [pc EXCEPT ![c] = step]
-----------------------------------------------------------------------------
(***************************************************************************)
(* Miner.Start and Miner.Stop.                                             *)
(***************************************************************************)
\* A user's start is passed on, to a goroutine, if the miner is not on.
BeginStart(c) ==
    /\ ~mining
    /\ At(c, "idle") /\ Goto(c, "start1")
    /\ UNCHANGED <<flags, upd, loaded, worker, loops, mu, firstBlock, beacon, promised, leftOn>>

\* A user's stop always is.
BeginStop(c) ==
    /\ At(c, "idle") /\ Goto(c, "stop1")
    /\ UNCHANGED <<flags, upd, loaded, worker, loops, mu, firstBlock, beacon, promised, leftOn>>

StoreShouldStart(c) ==
    /\ At(c, "start1") /\ Goto(c, "start2")
    /\ shouldStart' = TRUE
    /\ UNCHANGED <<mining, canStart, upd, loaded, worker, loops, mu, firstBlock, beacon, promised, leftOn>>

\* While the node synchronises Start only leaves its wish behind.
CheckCanStart(c) ==
    /\ At(c, "start2")
    /\ Goto(c, IF canStart THEN "start3" ELSE "done")
    /\ promised' = IF canStart THEN promised ELSE promised \cup {c}
    /\ UNCHANGED <<flags, upd, loaded, worker, loops, mu, firstBlock, beacon, leftOn>>

StoreMining(c) ==
    /\ At(c, "start3") /\ Goto(c, "start4")
    /\ mining' = TRUE
    /\ UNCHANGED <<canStart, shouldStart, upd, loaded, worker, loops, mu, firstBlock, beacon, promised, leftOn>>

\* Deviation: every start makes an update goroutine.
AgentStartAlways ==
    /\ agentMining' = TRUE
    /\ agents' = agents + 1

\* The agent starts an update goroutine unless it is on.
AgentStart ==
    /\ agentMining' = TRUE
    /\ agents' = IF agentMining THEN agents ELSE agents + 1

workerStart(c) ==
    /\ At(c, "start4") /\ Goto(c, "start5")
    /\ workerMu = None
    /\ workerMining' = TRUE
    /\ AgentStart
    /\ UNCHANGED <<flags, upd, loaded, workerMu, stopCh, loops, mu, firstBlock, beacon, promised, leftOn>>

StartTimerLoop(c) ==
    /\ At(c, "start5") /\ Goto(c, "done")
    /\ loops' = [loops EXCEPT ![c] = "waiting"]
    /\ UNCHANGED <<flags, upd, loaded, worker, mu, firstBlock, beacon, promised, leftOn>>

\* worker.stop takes the mutex; CpuAgent.Stop is passed over when the worker
\* or the agent is off already.
workerStop(c) ==
    /\ At(c, "stop1")
    /\ workerMu = None
    /\ IF workerMining /\ agentMining
       THEN /\ Goto(c, "stop2")
            /\ workerMu' = c
            /\ agentMining' = FALSE
            /\ UNCHANGED workerMining
       ELSE /\ Goto(c, "stop3")
            /\ workerMining' = FALSE
            /\ UNCHANGED <<workerMu, agentMining>>
    /\ UNCHANGED <<flags, upd, loaded, agents, stopCh, loops, mu, firstBlock, beacon, promised, leftOn>>

\* The signal goes into a channel for one and may have to wait, with the
\* mutex held.
AgentStop(c) ==
    /\ At(c, "stop2") /\ Goto(c, "stop3")
    /\ stopCh = 0
    /\ stopCh' = 1
    /\ workerMining' = FALSE
    /\ workerMu' = None
    /\ UNCHANGED <<flags, upd, loaded, agentMining, agents, loops, mu, firstBlock, beacon, promised, leftOn>>

ClearMining(c) ==
    /\ At(c, "stop3") /\ Goto(c, "stop4")
    /\ mining' = FALSE
    /\ UNCHANGED <<canStart, shouldStart, upd, loaded, worker, loops, mu, firstBlock, beacon, promised, leftOn>>

\* A user's Stop also takes back the starts that wait for the
\* synchronisation.
ClearShouldStart(c) ==
    /\ At(c, "stop4") /\ Goto(c, "done")
    /\ shouldStart' = FALSE
    /\ promised' = IF c = Updater THEN promised ELSE {}
    /\ UNCHANGED <<mining, canStart, upd, loaded, worker, loops, mu, firstBlock, beacon, leftOn>>

\* One of the agent's update goroutines takes the signal and ends.
AgentUpdate ==
    /\ agents > 0 /\ stopCh = 1
    /\ agents' = agents - 1
    /\ stopCh' = 0
    /\ UNCHANGED <<flags, pc, upd, loaded, workerMining, workerMu, agentMining, loops, mu, firstBlock, beacon, promised, leftOn>>
-----------------------------------------------------------------------------
(***************************************************************************)
(* Miner.update follows one synchronisation of the downloader, then ends.  *)
(***************************************************************************)
SyncStarts ==
    /\ upd = "listen"
    /\ upd' = "check"
    /\ canStart' = FALSE
    /\ UNCHANGED <<mining, shouldStart, pc, loaded, worker, loops, mu, firstBlock, beacon, promised, leftOn>>

\* If the miner runs it is stopped and to be started again afterwards.
CheckMining ==
    /\ upd = "check"
    /\ IF mining THEN upd' = "stopping" /\ Goto(Updater, "stop1")
                 ELSE upd' = "syncing" /\ UNCHANGED pc
    /\ UNCHANGED <<flags, loaded, worker, loops, mu, firstBlock, beacon, promised, leftOn>>

StoppedForSync ==
    /\ upd = "stopping" /\ At(Updater, "done")
    /\ upd' = "syncing" /\ Goto(Updater, "idle")
    /\ shouldStart' = TRUE
    /\ UNCHANGED <<mining, canStart, loaded, worker, loops, mu, firstBlock, beacon, promised, leftOn>>

SyncEnds ==
    /\ upd = "syncing"
    /\ upd' = "loaded"
    /\ loaded' = shouldStart
    /\ UNCHANGED <<flags, pc, worker, loops, mu, firstBlock, beacon, promised, leftOn>>

StoreCanStart ==
    /\ upd = "loaded"
    /\ upd' = "reset"
    /\ canStart' = TRUE
    /\ UNCHANGED <<mining, shouldStart, pc, loaded, worker, loops, mu, firstBlock, beacon, promised, leftOn>>

ResetShouldStart ==
    /\ upd = "reset"
    /\ upd' = "end"
    /\ shouldStart' = FALSE
    /\ Goto(Updater, IF loaded THEN "start1" ELSE "idle")
    /\ UNCHANGED <<mining, canStart, loaded, worker, loops, mu, firstBlock, beacon, promised, leftOn>>

update == SyncStarts \/ CheckMining \/ StoppedForSync \/ SyncEnds \/ StoreCanStart \/ ResetShouldStart
-----------------------------------------------------------------------------
(***************************************************************************)
(* backendTimerLoop, and the beacon it drives.                             *)
(***************************************************************************)

\* RandomBeacon.Init: nothing if it is on already.
BeaconInit ==
    IF channel THEN UNCHANGED <<channel, events, routines>>
    ELSE channel' = TRUE /\ events' = 0 /\ routines' = routines + 1

\* A loop gets Miner.mu, which it holds until it ends, and turns the beacon
\* on.
LoopBegins(l) ==
    /\ loops[l] = "waiting" /\ mu = None
    /\ mu' = l
    /\ BeaconInit
    /\ leftOn' = FALSE
    /\ loops' = [loops EXCEPT ![l] = "first"]
    /\ UNCHANGED <<flags, pc, upd, loaded, worker, firstBlock, closed, promised>>

\* posStartInit: wait for the first block, or end without turning the beacon
\* off.
posStartInit(l) ==
    /\ loops[l] = "first"
    /\ \/ firstBlock /\ loops' = [loops EXCEPT ![l] = "sleep"] /\ UNCHANGED <<mu, leftOn>>
       \/ /\ ~firstBlock /\ ~mining
          /\ loops' = [loops EXCEPT ![l] = "none"] /\ mu' = None /\ leftOn' = TRUE
    /\ UNCHANGED <<flags, pc, upd, loaded, worker, firstBlock, beacon, promised>>

\* The next slot begins: the loop goes to the beacon, or ends.
SlotBegins(l) ==
    /\ loops[l] = "sleep"
    /\ loops' = [loops EXCEPT ![l] = IF mining THEN "send" ELSE "close"]
    /\ UNCHANGED <<flags, pc, upd, loaded, worker, mu, firstBlock, beacon, promised, leftOn>>

\* Deviation: the channel is not bounded.
ChannelHasRoomAlways == TRUE

ChannelHasRoom == events < LoopEventCount

\* RandomBeacon.Loop: waits while the channel is full.
BeaconLoop(l) ==
    /\ loops[l] = "send"
    /\ ChannelHasRoom
    /\ events' = events + 1
    /\ loops' = [loops EXCEPT ![l] = "sleep"]
    /\ UNCHANGED <<flags, pc, upd, loaded, worker, mu, firstBlock, channel, closed, routines, promised, leftOn>>

\* RandomBeacon.Stop closes the channel.
BeaconClose(l) ==
    /\ loops[l] = "close"
    /\ loops' = [loops EXCEPT ![l] = "drain"]
    /\ closed' = TRUE
    /\ UNCHANGED <<flags, pc, upd, loaded, worker, mu, firstBlock, channel, events, routines, promised, leftOn>>

\* Deviation: Stop does not wait for the routine.
RoutineGoneNoWait == TRUE

\* rb.wg.Wait
RoutineGone == routines = 0

\* Deviation: the loop ends without giving Miner.mu back.
BeaconStopLocked(l) ==
    /\ loops[l] = "drain"
    /\ RoutineGone
    /\ channel' = FALSE /\ closed' = FALSE
    /\ loops' = [loops EXCEPT ![l] = "none"]
    /\ UNCHANGED <<flags, pc, upd, loaded, worker, mu, firstBlock, events, routines, promised, leftOn>>

\* It waits for the routine to end; then the loop ends too.
BeaconStop(l) ==
    /\ loops[l] = "drain"
    /\ RoutineGone
    /\ channel' = FALSE /\ closed' = FALSE
    /\ loops' = [loops EXCEPT ![l] = "none"]
    /\ mu' = None
    /\ UNCHANGED <<flags, pc, upd, loaded, worker, firstBlock, events, routines, promised, leftOn>>

\* LoopRoutine takes an event, works on it, and ends when the channel is
\* closed and empty.
LoopRoutine ==
    /\ routines > 0
    /\ \/ events > 0 /\ events' = events - 1 /\ UNCHANGED routines
       \/ events = 0 /\ closed /\ routines' = routines - 1 /\ UNCHANGED events
    /\ UNCHANGED <<flags, pc, upd, loaded, worker, loops, mu, firstBlock, channel, closed, promised, leftOn>>

\* The first proof-of-stake block is made or downloaded.
FirstBlock ==
    /\ ~firstBlock
    /\ firstBlock' = TRUE
    /\ UNCHANGED <<flags, pc, upd, loaded, worker, loops, mu, beacon, promised, leftOn>>
-----------------------------------------------------------------------------
MinerInit ==
    /\ mining = FALSE /\ canStart = TRUE /\ shouldStart = FALSE
    /\ pc = [c \in Caller |-> "idle"]
    /\ upd = "listen" /\ loaded = FALSE
    /\ workerMining = FALSE /\ workerMu = None
    /\ agentMining = FALSE /\ agents = 0 /\ stopCh = 0
    /\ loops = [c \in Caller |-> "none"]
    /\ mu = None
    /\ firstBlock \in BOOLEAN
    /\ channel = FALSE /\ closed = FALSE /\ events = 0 /\ routines = 0
    /\ promised = {} /\ leftOn = FALSE

Step(c) ==
    \/ StoreShouldStart(c) \/ CheckCanStart(c) \/ StoreMining(c) \/ workerStart(c) \/ StartTimerLoop(c)
    \/ workerStop(c) \/ AgentStop(c) \/ ClearMining(c) \/ ClearShouldStart(c)

LoopStep(l) ==
    LoopBegins(l) \/ posStartInit(l) \/ SlotBegins(l) \/ BeaconLoop(l) \/ BeaconClose(l) \/ BeaconStop(l)

MinerNext ==
    \/ \E c \in Calls : BeginStart(c) \/ BeginStop(c)
    \/ \E c \in Caller : Step(c) \/ LoopStep(c)
    \/ AgentUpdate \/ update \/ LoopRoutine \/ FirstBlock

MinerSpec == MinerInit /\ [][MinerNext]_minervars

(***************************************************************************)
(* Goroutines run, a synchronisation ends, and whoever waits for a mutex   *)
(* gets it when it is free again and again: Go's mutexes starve no waiter. *)
(* Nobody has to call, to synchronise or to find the first block.          *)
(***************************************************************************)
Fairness ==
    /\ \A c \in Caller : SF_minervars(Step(c)) /\ SF_minervars(LoopStep(c))
    /\ WF_minervars(AgentUpdate)
    /\ WF_minervars(LoopRoutine)
    /\ WF_minervars(update /\ upd # "listen")

FairMinerSpec == MinerSpec /\ Fairness
-----------------------------------------------------------------------------
(***************************************************************************)
(* Properties.                                                             *)
(***************************************************************************)
Idle == \A c \in Caller : pc[c] \in {"idle", "done"}

\* The program counters, counters and flags have their types.
MinerTypeOK ==
    /\ pc \in [Caller -> {"idle", "done", "start1", "start2", "start3", "start4", "start5",
                          "stop1", "stop2", "stop3", "stop4"}]
    /\ upd \in {"listen", "check", "stopping", "syncing", "loaded", "reset", "end"}
    /\ {mining, canStart, shouldStart, workerMining, agentMining, channel, closed, leftOn} \subseteq BOOLEAN
    /\ agents \in 0 .. Cardinality(Caller) + 1 /\ stopCh \in 0 .. 1
    /\ loops \in [Caller -> {"none", "waiting", "first", "sleep", "send", "close", "drain"}]
    /\ events \in 0 .. LoopEventCount

\* However quickly starts and stops follow each other and whichever update
\* goroutine takes a stop signal, the agent that is on keeps exactly one of
\* them, and one that is off none, once the signals are taken.
OneAgentGoroutine ==
    agents = stopCh + (IF agentMining THEN 1 ELSE 0) + Cardinality({c \in Caller : At(c, "stop2")})

\* There is never more than one routine that works on the beacon's memory,
\* and it has the channel the loop writes to.
OneBeaconRoutine ==
    /\ routines <= 1
    /\ channel /\ ~closed => routines = 1
    /\ \A l \in Caller : loops[l] \in {"sleep", "send"} => channel /\ ~closed

\* The flags have their types, and there is one goroutine of each kind, at
\* every point of overlapping starts, stops and synchronisations.
OneOfEach == MinerTypeOK /\ OneAgentGoroutine /\ OneBeaconRoutine

\* Once the calls are over the miner settles: on, with one loop driving the
\* beacon while further ones wait for it; or off, with no loop left and the
\* beacon and the agents' goroutines gone, except for a beacon whose loop
\* ended while it waited for the first block and an agent that a concurrent
\* start left on.
MinerSettles ==
    <>[](IF mining
         THEN channel /\ \E l \in Caller : loops[l] \in {"first", "sleep", "send"}
         ELSE /\ \A l \in Caller : loops[l] = "none"
              /\ channel => leftOn
              /\ agentMining \/ agents = 0)

\* "Stop the miner": when no call is under way the miner, its worker and its
\* agent are all on or all off.
StopStopsAll == Idle => mining = workerMining /\ mining = agentMining

\* "should start indicates whether we should start after sync": a start made
\* during the synchronisation, and not taken back, is made up for when the
\* synchronisation is over.
StartsAfterSync == Idle /\ upd = "end" /\ promised # {} => mining \/ shouldStart
=============================================================================
