---------------------------- MODULE BlockConfirm -----------------------------
(***************************************************************************)
(* pos/cfm/block_confirm.go: the highest block that is stable, from the    *)
(* last K blocks, who made them and how many slots have passed.            *)
(*                                                                         *)
(* Block n is chain[n]: its slot, the second of the slot its leader dated  *)
(* it to, and whether its miner is on the white list.  Time is in seconds, *)
(* a slot has SlotTime of them.                                            *)
(***************************************************************************)
EXTENDS Integers, Sequences, FiniteSets, FiniteSetsExt

CONSTANTS
    K, SlotTime, SecBlkDiff,      \* of posconfig and cfm
    Pow2PosUpgradeBlockNumber,    \* the first proof-of-stake block
    MaxTime                       \* bound on the clock

ASSUME ConfirmAssumption ==
    /\ K \in Nat \ {0, 1} /\ SlotTime \in Nat \ {0} /\ SecBlkDiff \in Nat \ {0, 1}
    /\ Pow2PosUpgradeBlockNumber \in Nat

VARIABLES
    chain,
    now,
    nullBlk       \* whether one of the last K blocks cannot be read

cvars == <<chain, now, nullBlk>>
-----------------------------------------------------------------------------
TimeOf(slot, second) == slot * SlotTime + second
BlockTime(n) == TimeOf(chain[n].slot, chain[n].second)

getSlotsCount(start, stop) ==
    IF stop <= start THEN 0 ELSE (stop - start) \div SlotTime + 1

startNumber == Len(chain)

stopNumberBelow == IF startNumber > K + 1 THEN startNumber - K - 1 ELSE 0

stopNumber == IF startNumber > K THEN startNumber - K ELSE 0

Suffix(n, trusted) == {i \in n..startNumber : chain[i].trusted = trusted}

StableFromNext(n) ==
    2 * Cardinality(Suffix(n, TRUE)) + Cardinality(Suffix(n, FALSE))
        - getSlotsCount(BlockTime(n) + SlotTime, now) > SecBlkDiff

\* scanAllBlockStatus: the status of one block of the last K.
Stable(n) ==
    2 * Cardinality(Suffix(n, TRUE)) + Cardinality(Suffix(n, FALSE))
        - getSlotsCount(BlockTime(n), now) > SecBlkDiff

\* The block before the lowest that is not stable; the current block is not
\* looked at when all before it are.  After ErrNullBlk the lowest block.
getMaxStableBlkNumber ==
    IF startNumber = 0 THEN 0
    ELSE IF nullBlk THEN stopNumber
    ELSE Min({startNumber} \cup
             {n \in (stopNumber + 1)..startNumber : ~Stable(n)}) - 1

GetMaxStableBlkNumber ==
    Max({getMaxStableBlkNumber, Pow2PosUpgradeBlockNumber})
-----------------------------------------------------------------------------
\* A block on the current one, of a later slot and not ahead of the clock;
\* it may be late, and its leader may date it to any second of the slot.
NewBlock(slot, second, trusted) ==
    /\ TimeOf(slot, second) <= now
    /\ chain # <<>> => chain[Len(chain)].slot < slot
    /\ chain' = Append(chain, [slot |-> slot, second |-> second, trusted |-> trusted])
    /\ UNCHANGED <<now, nullBlk>>

Tick ==
    /\ now < MaxTime
    /\ now' = now + 1
    /\ UNCHANGED <<chain, nullBlk>>

\* GetBlock fails for one of the blocks, or does so no longer.
ReadBlocks ==
    /\ nullBlk' = ~nullBlk
    /\ UNCHANGED <<chain, now>>

CInit == chain = <<>> /\ now = 0 /\ nullBlk = FALSE

CNext ==
    \/ \E slot \in 0..(now \div SlotTime), second \in 0..(SlotTime - 1), trusted \in BOOLEAN :
          NewBlock(slot, second, trusted)
    \/ Tick \/ ReadBlocks

CSpec == CInit /\ [][CNext]_cvars
-----------------------------------------------------------------------------
Block == [slot : Nat, second : 0..(SlotTime - 1), trusted : BOOLEAN]

\* Type: slots grow along the chain and no block is ahead of the clock.
CTypeOK ==
    /\ chain \in Seq(Block) /\ nullBlk \in BOOLEAN
    /\ \A i, j \in DOMAIN chain : i < j => chain[i].slot < chain[j].slot
    /\ \A i \in DOMAIN chain : BlockTime(i) <= now

\* By how many blocks the main chain from block n on is ahead of all that
\* the leaders who are not on the white list could have made instead: a block
\* in each of their own slots since then and in each empty one.
Lead(n) ==
    LET slots == chain[n].slot..(now \div SlotTime)
        trusted == {chain[i].slot : i \in Suffix(n, TRUE)}
    IN  (startNumber - n + 1) - Cardinality(slots \ trusted)

\* A block of the last K that is reported as stable is more than SecBlkDiff
\* ahead ("security block difference between main block chain and side block
\* chain") whenever the clock is as far into its slot as the block was dated
\* into its own; before that the slots are counted short by the one under
\* way, and the block is exactly SecBlkDiff ahead or more.
StableIsAhead ==
    \A n \in (stopNumber + 1)..startNumber :
        n <= getMaxStableBlkNumber =>
            Lead(n) > IF now % SlotTime >= chain[n].second THEN SecBlkDiff ELSE SecBlkDiff - 1

\* The chain grows with the clock, and what is reported stable is.
StableIsSafe == CTypeOK /\ StableIsAhead

\* What is reported as stable is more than SecBlkDiff ahead at every second.
\* It is not when a leader dates its block late into the slot.
StableIsAlwaysAhead ==
    \A n \in (stopNumber + 1)..startNumber : n <= getMaxStableBlkNumber => Lead(n) > SecBlkDiff

\* The number reported is below the current block and at most K behind it,
\* also when a block could not be read.
ReportWithinK ==
    startNumber > Pow2PosUpgradeBlockNumber =>
        GetMaxStableBlkNumber \in (startNumber - K)..(startNumber - 1)
=============================================================================
