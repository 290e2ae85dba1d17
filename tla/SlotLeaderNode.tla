--------------------------- MODULE SlotLeaderNode ---------------------------
(***************************************************************************)
(* The leader side of slot leader selection, pos/slotleader/workflow.go,   *)
(* slot_leader_selection.go and proof.go, on top of the contract: nodes    *)
(* that walk through the stages once per slot, keep stage, numbers and SMA *)
(* in the local database, send by goroutines, crash and restart, and cache *)
(* the random number from which they make and verify slot proofs; and a    *)
(* chain that includes transactions in any order, late, never, or again    *)
(* after a branch was replaced.                                            *)
(*                                                                         *)
(* Every epoch is one past the genesis phase (FirstEpochId + 2).  A leader *)
(* group once selected stays in the database, so the branch of Loop that   *)
(* gives up because a restarted node finds no leaders is not reached.      *)
(***************************************************************************)
EXTENDS SlotLeader, Sequences

CONSTANTS
    Node,           \* the nodes, each an account
    MaxReorg,       \* bound: a replaced branch is at most so many slots long
    MaxCrash,       \* bound on the number of nodes that crash, each once
    MaxRetry        \* errorRetry (3 in the code)

ASSUME SlotNodeAssumption ==
    /\ Node \subseteq Account
    /\ MaxReorg \in Nat
    /\ MaxCrash \in Nat
    /\ MaxRetry \in Nat
    /\ \A e \in LeaderEpochs : e + 1 \in Epochs

\* The pause after a stage is as long as the longest branch that is replaced,
\* SlotSecurityParam of pos/posconfig.
ASSUME ReorgAssumption == MaxReorg <= 2 * K

VARIABLES
    clockEpoch, clockSlot,  \* the wall clock all nodes share
    delivered,      \* epochs whose own random number is on the chain
    hist,           \* states the chain can fall back to, latest first
    \* a node's database: its working epoch, and by epoch its work stage,
    \* its numbers by index and the SMA
    workingEpoch, workStage, alpha, securityMsg,
    \* a node's memory: the epoch whose leaders are loaded (0: none), the
    \* second-stage goroutine under way, retries left, cached randoms
    leadersOf, task2, errorRetry, RndCache,
    looped,         \* nodes that have run their loop in this slot
    sent,           \* transactions handed to a sending goroutine
    \* history: numbers drawn for an index, nodes that crashed, indexes whose node
    \* crashed in the first stage, random numbers asked for in advance
    drawn, crashed, torn, askedEarly

clock == <<clockEpoch, clockSlot>>
chain == <<slvars, delivered>>
database == <<workingEpoch, workStage, alpha, securityMsg>>
memory == <<leadersOf, task2, errorRetry, RndCache>>
history == <<drawn, crashed, torn, askedEarly>>
nodeVars == <<database, memory, looped, sent, history>>
slnvars == <<chain, clock, hist, nodeVars>>

Stages == {"init", "stage1", "stage2", "stage3", "finished"}
Randoms == {"own", "default"}
-----------------------------------------------------------------------------
(***************************************************************************)
(* The workflow of a node.                                                 *)
(***************************************************************************)
MyIndexes(n, e) == {i \in Index : e \in LeaderEpochs /\ Leaders[e][i] = n}

Tx(type, e, i, n, a) == [type |-> type, epoch |-> e, index |-> i, from |-> n, data |-> a]

\* The stage Loop works on: a new epoch starts from the beginning.
getWorkStage(n) ==
    IF clockEpoch > workingEpoch[n] THEN "init" ELSE workStage[n][clockEpoch]

setWorkStage(n, stage) == workStage' = [workStage EXCEPT ![n][clockEpoch] = stage]

\* The leaders of the epoch, if it has any, replace the former ones in memory.
buildEpochLeaderGroup(n) ==
    leadersOf' = [leadersOf EXCEPT ![n] = IF clockEpoch \in LeaderEpochs THEN clockEpoch ELSE 0]

\* At the start of an epoch or after a restart within it.
doInit(n) ==
    /\ buildEpochLeaderGroup(n)
    /\ workingEpoch' = [workingEpoch EXCEPT ![n] = clockEpoch]

\* Deviation: a node that restarted works on without the leaders.
RecoverNot(n) == UNCHANGED <<leadersOf, workingEpoch>>

\* Loop loads the leaders when the node restarted in the middle of its work.
Recover(n) ==
    IF getWorkStage(n) # "finished" /\ leadersOf[n] = 0
    THEN doInit(n) ELSE UNCHANGED <<leadersOf, workingEpoch>>

workInit(n) ==
    /\ getWorkStage(n) = "init"
    /\ doInit(n)
    /\ setWorkStage(n, IF MyIndexes(n, clockEpoch) = {} THEN "finished" ELSE "stage1")
    /\ UNCHANGED <<alpha, securityMsg, task2, errorRetry, sent, history>>

\* generateCommitment: a new number for each index, stored over an old one.
PutAlpha(n, e, indexes) ==
    [alpha EXCEPT ![n][e] = [i \in Index |-> IF i \in indexes THEN drawn'[i] ELSE @[i]]]

Draw(indexes) ==
    /\ drawn' = [i \in Index |-> IF i \in indexes THEN drawn[i] + 1 ELSE drawn[i]]
    /\ \A i \in indexes : drawn'[i] \in Alpha

startStage1Work(n, indexes) ==
    /\ Draw(indexes)
    /\ alpha' = PutAlpha(n, clockEpoch, indexes)
    /\ sent' = sent \cup {Tx("stg1", clockEpoch, i, n, drawn'[i]) : i \in indexes}

\* Deviation: the first stage is done again as long as its slots last.
InStage1WorkAgain(n) ==
    getWorkStage(n) \in {"stage1", "stage2"} /\ clockSlot \in Sma1Start + 1 .. Sma1End - 1

InStage1Work(n) ==
    getWorkStage(n) = "stage1" /\ clockSlot \in Sma1Start + 1 .. Sma1End - 1

workStage1(n) ==
    /\ InStage1Work(n)
    /\ Recover(n)
    /\ startStage1Work(n, MyIndexes(n, clockEpoch))
    /\ setWorkStage(n, "stage2")
    /\ UNCHANGED <<securityMsg, task2, errorRetry, crashed, torn, askedEarly>>

\* The second stage is left to a goroutine and the work stage advances.
workStage2(n) ==
    /\ getWorkStage(n) = "stage2" /\ clockSlot \in Sma2Start + 1 .. Sma2End - 1
    /\ Recover(n)
    /\ task2' = [task2 EXCEPT ![n] = TRUE]
    /\ setWorkStage(n, "stage3")
    /\ UNCHANGED <<alpha, securityMsg, errorRetry, sent, history>>

\* A stage whose slots are over is given up.
workTooLate(n) ==
    /\ \/ getWorkStage(n) = "stage1" /\ clockSlot > Sma1End - 1
       \/ getWorkStage(n) = "stage2" /\ clockSlot > Sma2End - 1
    /\ Recover(n)
    /\ setWorkStage(n, "stage3")
    /\ UNCHANGED <<alpha, securityMsg, task2, errorRetry, sent, history>>

\* Deviation: the SMA is made one slot early.
InStage3Early(n) == getWorkStage(n) = "stage3" /\ clockSlot >= Sma3Start - 1

InStage3(n) == getWorkStage(n) = "stage3" /\ clockSlot >= Sma3Start

\* generateSecurityMsg, from the second-stage data at the head for the leaders
\* in memory; with no data at all it is tried again in the next slots.
workStage3(n) ==
    /\ InStage3(n)
    /\ Recover(n)
    /\ IF DOMAIN StageTwo(clockEpoch) # {} /\ leadersOf'[n] = clockEpoch
       THEN /\ securityMsg' = [securityMsg EXCEPT ![n][clockEpoch + 1] = StageTwo(clockEpoch)]
            /\ setWorkStage(n, "finished")
            /\ errorRetry' = [errorRetry EXCEPT ![n] = MaxRetry]
       ELSE /\ IF errorRetry[n] > 0
               THEN /\ errorRetry' = [errorRetry EXCEPT ![n] = @ - 1]
                    /\ UNCHANGED workStage
               ELSE /\ errorRetry' = [errorRetry EXCEPT ![n] = MaxRetry]
                    /\ setWorkStage(n, "finished")
            /\ UNCHANGED securityMsg
    /\ UNCHANGED <<alpha, task2, sent, history>>

\* The slots before a stage, and after the work is finished.
workWait(n) ==
    /\ \/ getWorkStage(n) = "stage1" /\ clockSlot < Sma1Start + 1
       \/ getWorkStage(n) = "stage2" /\ clockSlot < Sma2Start + 1
       \/ getWorkStage(n) = "stage3" /\ ~InStage3(n)
       \/ getWorkStage(n) = "finished"
    /\ Recover(n)
    /\ UNCHANGED <<workStage, alpha, securityMsg, task2, errorRetry, sent, history>>

\* Deviation: the random number of the epoch before is read.
getRandomPrev(n, e) ==
    IF RndCache[n][e] # None THEN RndCache[n][e]
    ELSE IF e - 1 \in delivered THEN "own" ELSE "default"

\* getRandom: from the cache, otherwise from the state.  Without a state it
\* would take the default; a node that imports or seals has one.
getRandom(n, e) ==
    IF RndCache[n][e] # None THEN RndCache[n][e]
    ELSE IF e \in delivered THEN "own" ELSE "default"

\* GetSlotLeader works with the random number, and caches it, when the node
\* is a leader of the epoch before and has its SMA.
AsksRandom(n, e) == MyIndexes(n, e - 1) # {} /\ securityMsg[n][e] # None

Cache(n, e) == RndCache' = [RndCache EXCEPT ![n][e] = getRandom(n, e)]

\* One turn of backendTimerLoop: the workflow, then the slot's leader.
Loop(n) ==
    /\ n \notin looped
    /\ looped' = looped \cup {n}
    /\ \/ workInit(n) \/ workStage1(n) \/ workStage2(n) \/ workStage3(n)
       \/ workTooLate(n) \/ workWait(n)
    /\ IF AsksRandom(n, clockEpoch) THEN Cache(n, clockEpoch) ELSE UNCHANGED RndCache
    /\ UNCHANGED <<chain, clock, hist>>

\* The array for one index, from the stored number.
buildStage2TxPayload(n, e, i) == Tx("stg2", e, i, n, alpha[n][e][i])

\* doStage2Work, whenever the goroutine gets to it: for the working epoch
\* and the leaders loaded by then, with the stored numbers.
doStage2Work(n) ==
    LET e == workingEpoch[n]
        mine == {i \in MyIndexes(n, leadersOf[n]) : alpha[n][e][i] # None}
    IN  /\ task2[n]
        /\ task2' = [task2 EXCEPT ![n] = FALSE]
        /\ sent' = sent \cup {buildStage2TxPayload(n, e, i) : i \in mine}
        /\ UNCHANGED <<chain, clock, hist, database, leadersOf, errorRetry, RndCache, looped, history>>

\* A user asks the node for a slot leader of an epoch to come.
GetSlotLeaderByEpochIDAndSlotID(n, e) ==
    /\ e > clockEpoch
    /\ AsksRandom(n, e) /\ RndCache[n][e] = None
    /\ Cache(n, e)
    /\ askedEarly' = askedEarly \cup {<<n, e>>}
    /\ UNCHANGED <<chain, clock, hist, database, leadersOf, task2, errorRetry, looped, sent,
                   drawn, crashed, torn>>

\* What a crash leaves of a node.
Restarted(n) ==
    /\ n \notin crashed /\ Cardinality(crashed) < MaxCrash
    /\ crashed' = crashed \cup {n}
    /\ leadersOf' = [leadersOf EXCEPT ![n] = 0]
    /\ task2' = [task2 EXCEPT ![n] = FALSE]
    /\ errorRetry' = [errorRetry EXCEPT ![n] = MaxRetry]
    /\ RndCache' = [RndCache EXCEPT ![n] = [e \in Epochs |-> None]]
    /\ looped' = looped \ {n}

\* A node crashes between two loops; the transactions in lost are not sent.
Crash(n, lost) ==
    /\ leadersOf[n] # 0
    /\ Restarted(n)
    /\ sent' = sent \ lost
    /\ UNCHANGED <<chain, clock, hist, database, drawn, torn, askedEarly>>

\* A node crashes in startStage1Work, after some of its indexes and before
\* the work stage advances; the commitments in lost are not sent.
CrashInStage1(n, lost) ==
    /\ n \notin looped
    /\ InStage1Work(n)
    /\ Restarted(n)
    /\ workingEpoch' = [workingEpoch EXCEPT ![n] = clockEpoch]
    /\ \E last \in MyIndexes(n, clockEpoch) : LET done == {i \in MyIndexes(n, clockEpoch) : i <= last} IN
          /\ Draw(done)
          /\ alpha' = PutAlpha(n, clockEpoch, done)
          /\ sent' = sent \cup {Tx("stg1", clockEpoch, i, n, drawn'[i]) : i \in done \ lost}
          /\ torn' = torn \cup {<<clockEpoch, i>> : i \in done}
    /\ UNCHANGED <<chain, clock, hist, workStage, securityMsg, askedEarly>>
-----------------------------------------------------------------------------
(***************************************************************************)
(* Slot proofs.                                                            *)
(***************************************************************************)

GenesisProof == [genesis |-> TRUE]

\* getSlotLeaderProof: without an SMA the genesis proof.
Proof(n, e) ==
    IF securityMsg[n][e] = None THEN GenesisProof
    ELSE [genesis |-> FALSE, sma |-> securityMsg[n][e], random |-> getRandom(n, e)]

verifySlotProofByGenesis(proof) == proof = GenesisProof

\* The arrays at the verifier's head.  APkiCache is left out: its key is the
\* hash of the epoch's last block, as long as the node has recorded one.
getStageTwoFromTrans(e) == StageTwo(e - 1)

\* A proof with the verifier's own arrays and random number, or a genesis
\* proof where there are no arrays.
VerifySlotProof(v, e, proof) ==
    IF DOMAIN getStageTwoFromTrans(e) = {} THEN verifySlotProofByGenesis(proof)
    ELSE proof = [genesis |-> FALSE, sma |-> getStageTwoFromTrans(e), random |-> getRandom(v, e)]

\* A node receives a block of the present block time and verifies it.
ReceiveBlock(v) ==
    /\ epoch - 1 \in LeaderEpochs
    /\ RndCache[v][epoch] = None
    /\ Cache(v, epoch)
    /\ UNCHANGED <<chain, clock, hist, database, leadersOf, task2, errorRetry, looped, sent, history>>
-----------------------------------------------------------------------------
(***************************************************************************)
(* The chain.  Its block time lags behind the clock only while a branch is *)
(* being replaced.                                                         *)
(***************************************************************************)
Snapshot == [epoch |-> epoch, slot |-> slot, stg1 |-> stg1, stg2 |-> stg2, delivered |-> delivered]

CaughtUp == epoch = clockEpoch /\ slot = clockSlot

Include(tx) ==
    /\ \/ tx.type = "stg1" /\ handleStgOne(tx.epoch, tx.index, tx.from, tx.data)
       \/ tx.type = "stg2" /\ handleStgTwo(tx.epoch, tx.index, tx.from, tx.data)
    /\ UNCHANGED <<delivered, clock, hist, nodeVars>>

\* The random beacon delivers the next epoch's random number in its signing
\* stage.
DeliverRandom ==
    /\ slot \in 8 * K + 1 .. 10 * K - 1
    /\ epoch + 1 \in Epochs \ delivered
    /\ delivered' = delivered \cup {epoch + 1}
    /\ UNCHANGED <<slvars, clock, hist, nodeVars>>

Remember(h) == SubSeq(h, 1, IF Len(h) < MaxReorg THEN Len(h) ELSE MaxReorg)

Tick ==
    /\ CaughtUp
    /\ NextSlot
    /\ clockEpoch' = epoch' /\ clockSlot' = slot'
    /\ UNCHANGED delivered
    /\ hist' = Remember(<<Snapshot'>> \o hist)
    /\ looped' = {}
    /\ UNCHANGED <<database, memory, sent, history>>

CatchUp ==
    /\ ~CaughtUp
    /\ NextSlot
    /\ UNCHANGED delivered
    /\ hist' = Remember(<<Snapshot'>> \o hist)
    /\ UNCHANGED <<clock, nodeVars>>

Reorg ==
    /\ CaughtUp
    /\ \E d \in 1 .. Len(hist) :
          LET h == hist[d]
          IN  /\ epoch' = h.epoch /\ slot' = h.slot
              /\ stg1' = h.stg1 /\ stg2' = h.stg2 /\ delivered' = h.delivered
              /\ hist' = SubSeq(hist, d, Len(hist))
    /\ UNCHANGED <<clock, nodeVars>>
-----------------------------------------------------------------------------
SLNInit ==
    /\ SLInit
    /\ clockEpoch = epoch /\ clockSlot = slot
    /\ delivered = {}
    /\ hist = <<>>
    /\ workingEpoch = [n \in Node |-> 0]
    /\ workStage = [n \in Node |-> [e \in Epochs |-> "init"]]
    /\ alpha = [n \in Node |-> [e \in Epochs |-> [i \in Index |-> None]]]
    /\ securityMsg = [n \in Node |-> [e \in Epochs |-> None]]
    /\ leadersOf = [n \in Node |-> 0]
    /\ task2 = [n \in Node |-> FALSE]
    /\ errorRetry = [n \in Node |-> MaxRetry]
    /\ RndCache = [n \in Node |-> [e \in Epochs |-> None]]
    /\ looped = {}
    /\ sent = {}
    /\ drawn = [i \in Index |-> 0]
    /\ crashed = {}
    /\ torn = {}
    /\ askedEarly = {}

SLNNext ==
    \/ \E n \in Node :
          \/ Loop(n) \/ doStage2Work(n) \/ ReceiveBlock(n)
          \/ \E e \in Epochs : GetSlotLeaderByEpochIDAndSlotID(n, e)
          \/ Crash(n, {}) \/ CrashInStage1(n, {})
    \/ \E tx \in sent : Include(tx)
    \/ DeliverRandom \/ Tick \/ CatchUp \/ Reorg

SLNSpec == SLNInit /\ [][SLNNext]_slnvars

(***************************************************************************)
(* A timely network: within a slot every node runs its loop and its        *)
(* goroutine, and every transaction the contract accepts is included.      *)
(* Nodes crash at any point, with transactions not yet sent, and restart   *)
(* within the slot.                                                        *)
(***************************************************************************)
Pending(tx) ==
    \/ tx.type = "stg1" /\ validStg1(tx.epoch, tx.index, tx.from, tx.data)
    \/ tx.type = "stg2" /\ validStg2(tx.epoch, tx.index, tx.from, tx.data)

Progress ==
    \/ \E n \in Node : Loop(n) \/ doStage2Work(n)
    \/ \E tx \in sent : Pending(tx) /\ Include(tx)
    \/ /\ looped = Node
       /\ \A n \in Node : ~task2[n]
       /\ \A tx \in sent : ~Pending(tx)
       /\ Tick

TimelyNext ==
    \/ Progress
    \/ \E n \in Node :
          \/ \E lost \in SUBSET {tx \in sent : tx.from = n /\ Pending(tx)} : Crash(n, lost)
          \/ \E lost \in SUBSET MyIndexes(n, clockEpoch) : CrashInStage1(n, lost)

TimelySpec == SLNInit /\ [][TimelyNext]_slnvars /\ WF_slnvars(Progress)
-----------------------------------------------------------------------------
(***************************************************************************)
(* Properties.                                                             *)
(***************************************************************************)

\* The database and the memory have the shape the workflow expects, and a
\* node that works past the first step has its leaders or will load them.
SLNTypeOK ==
    /\ workingEpoch \in [Node -> 0 .. LastEpochId]
    /\ workStage \in [Node -> [Epochs -> Stages]]
    /\ alpha \in [Node -> [Epochs -> [Index -> Alpha \cup {None}]]]
    /\ \A n \in Node, e \in Epochs :
          securityMsg[n][e] # None => securityMsg[n][e] \in UNION {[D -> Alpha] : D \in SUBSET Index}
    /\ leadersOf \in [Node -> LeaderEpochs \cup {0}]
    /\ errorRetry \in [Node -> 0 .. MaxRetry]
    /\ RndCache \in [Node -> [Epochs -> Randoms \cup {None}]]
    /\ delivered \subseteq Epochs
    /\ Len(hist) <= MaxReorg

\* The array a node publishes is the one it committed to: once the second
\* stage has begun on a branch, the commitment there, if any, is the one of
\* every second-stage transaction of that index, whatever crashes and
\* replaced branches came between, unless the node crashed in the middle of
\* its first stage.
ArraysFitCommitments ==
    \A tx \in {t \in sent : t.type = "stg2" /\ <<t.epoch, t.index>> \notin torn} :
        epoch = tx.epoch /\ slot >= Sma2Start
            => stg1[tx.epoch][tx.index] \in {None, tx.data}

\* The nodes' records have their types and what they sent fits the chain.
NodeRecordsFit == SLNTypeOK /\ ArraysFitCommitments

\* The SMA a node has stored is the one every branch yields that the chain
\* can still switch to: the 2 * K slots between the end of the second stage
\* and the third are as long as the longest branch that can be replaced.
SMAIsFinal ==
    \A n \in Node, e \in Epochs :
        securityMsg[n][e] # None =>
            /\ securityMsg[n][e] = StageTwo(e - 1)
            /\ \A d \in 1 .. Len(hist) : hist[d].stg2[e - 1] = stg2[e - 1]

\* The random number a node has cached for the present epoch is the chain's,
\* unless a user asked for a slot leader before the epoch had begun.
CachedRandomIsChains ==
    \A n \in Node :
        <<n, clockEpoch>> \notin askedEarly /\ RndCache[n][clockEpoch] # None
            => RndCache[n][clockEpoch] = IF clockEpoch \in delivered THEN "own" ELSE "default"

\* The proof with which a leader seals a block is accepted by every node, at
\* whatever moment each of them read the chain: when the leader has its SMA,
\* or when no leader published an array and all fall back to genesis.  Nodes
\* that were asked too early are excepted.
ProofsVerify ==
    \A n, v \in Node :
        LET e == clockEpoch
        IN  e - 1 \in LeaderEpochs /\ MyIndexes(n, e - 1) # {}
              /\ {<<n, e>>, <<v, e>>} \cap askedEarly = {}
              /\ (securityMsg[n][e] # None \/ DOMAIN StageTwo(e - 1) = {})
                => VerifySlotProof(v, e, Proof(n, e))

\* In a timely network every leader, the one that crashed too, ends the
\* epoch with an SMA, and every index has its number in it unless its own
\* node crashed.
EveryLeaderHasSMA ==
    <>(\A e \in LeaderEpochs, n \in Node :
          MyIndexes(n, e) # {} =>
              /\ securityMsg[n][e + 1] # None
              /\ \A m \in Node \ crashed : MyIndexes(m, e) \subseteq DOMAIN securityMsg[n][e + 1])
=============================================================================
