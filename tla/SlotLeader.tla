----------------------------- MODULE SlotLeader -----------------------------
(***************************************************************************)
(* The slot leader contract, core/vm/slot_leader_select_contracts.go.  The *)
(* leaders of an epoch commit to secret numbers alpha in a first stage and *)
(* publish alpha times the key of every leader in a second one; from the   *)
(* second-stage data each leader computes the secret message array (SMA)   *)
(* that decides the slot leaders of the next epoch.                        *)
(*                                                                         *)
(* A commitment and a second-stage array are both represented by their     *)
(* alpha, an array whose equality proof (DLEQ) fails by BadAlpha.  The     *)
(* bitmap of the indexes that have sent is the set of indexes with data.   *)
(* The number of contract calls that addSlotScCallTimes keeps in the local *)
(* database for a statistics interface is left out.                        *)
(***************************************************************************)
EXTENDS Integers, FiniteSets

CONSTANTS
    Index,          \* positions in the epoch leader group (EpochLeaderCount)
    Account,        \* senders of transactions
    Leaders,        \* Leaders[e][i]: the leader at position i in epoch e
    LeaderEpochs,   \* epochs with a complete leader group
    Alpha,          \* the numbers that may be drawn
    BadAlpha,       \* an array that fails its proof
    K,              \* slots per stage piece (posconfig.K)
    LastEpochId,    \* bound on the epochs
    LastSlot,       \* bound: the last slot of the last epoch
    None

Epochs == 1 .. LastEpochId

ASSUME SlotLeaderAssumption ==
    /\ K \in Nat \ {0}
    /\ Index \subseteq Nat
    /\ LastEpochId \in Nat \ {0}
    /\ LastSlot \in Nat /\ LastSlot < 12 * K
    /\ LeaderEpochs \subseteq Epochs
    /\ Leaders \in [LeaderEpochs -> [Index -> Account]]
    /\ BadAlpha \notin Alpha
    /\ None \notin Alpha \cup {BadAlpha}

VARIABLES
    epoch, slot,    \* the block time, CalEpochSlotID(evm.Time)
    stg1, stg2      \* stage data by epoch and index

slvars == <<epoch, slot, stg1, stg2>>

\* The stages of posconfig.
SlotCount == 12 * K
Sma1Start == 2 * K
Sma1End == 4 * K
Sma2Start == 6 * K
Sma2End == 8 * K
Sma3Start == 10 * K
-----------------------------------------------------------------------------
\* Deviation: the window ends one slot late.
isInValidStageLate(e, kStart, kEnd) ==
    e = epoch /\ kStart <= slot /\ slot <= kEnd + 1

\* The block time lies in the epoch of the transaction and in the window of
\* its stage, both ends included.
isInValidStage(e, kStart, kEnd) ==
    e = epoch /\ kStart <= slot /\ slot <= kEnd

\* The sender is the leader at that position of a complete group.
InEpochLeadersOrNotByAddress(e, i, from) ==
    e \in LeaderEpochs /\ Leaders[e][i] = from

\* A first-stage transaction is executed: no data for the index yet.
validStg1(e, i, from, a) ==
    /\ isInValidStage(e, Sma1Start, Sma1End)
    /\ stg1[e][i] = None
    /\ InEpochLeadersOrNotByAddress(e, i, from)

\* A second-stage transaction is executed: the commitment is there, equals
\* the sender's own element of the array, and the array's proof holds.
validStg2(e, i, from, a) ==
    /\ isInValidStage(e, Sma2Start, Sma2End)
    /\ stg2[e][i] = None
    /\ InEpochLeadersOrNotByAddress(e, i, from)
    /\ stg1[e][i] # None
    /\ stg1[e][i] = a
    /\ a # BadAlpha

handleStgOne(e, i, from, a) ==
    /\ validStg1(e, i, from, a)
    /\ stg1' = [stg1 EXCEPT ![e][i] = a]
    /\ UNCHANGED <<epoch, slot, stg2>>

handleStgTwo(e, i, from, a) ==
    /\ validStg2(e, i, from, a)
    /\ stg2' = [stg2 EXCEPT ![e][i] = a]
    /\ UNCHANGED <<epoch, slot, stg1>>

\* Deviation: positions that sent nothing are not left out.
StageTwoAll(e) == [i \in Index |-> stg2[e][i]]

\* The second-stage data on the chain, as it goes into the SMA.
StageTwo(e) == [i \in {j \in Index : stg2[e][j] # None} |-> stg2[e][i]]

\* Block time advances by a slot.
NextSlot ==
    /\ ~(epoch = LastEpochId /\ slot = LastSlot)
    /\ IF slot + 1 < SlotCount
       THEN slot' = slot + 1 /\ epoch' = epoch
       ELSE slot' = 0 /\ epoch' = epoch + 1
    /\ UNCHANGED <<stg1, stg2>>

SLInit ==
    /\ epoch = 1 /\ slot = 0
    /\ stg1 = [e \in Epochs |-> [i \in Index |-> None]]
    /\ stg2 = [e \in Epochs |-> [i \in Index |-> None]]
=============================================================================
