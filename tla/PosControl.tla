----------------------------- MODULE PosControl ------------------------------
(***************************************************************************)
(* core/vm/pos_control_contracts.go: the owner sets, some epochs ahead,    *)
(* which part of the white list sits among the epoch leaders from an epoch *)
(* on.  An entry is [EpochId, WlIndex, WlCount]; entries are stored under  *)
(* their epoch, the later one for the same epoch replaces the earlier.     *)
(***************************************************************************)
EXTENDS Integers, FiniteSets, FiniteSetsExt

CONSTANTS
    WhiteListLen,        \* len(posconfig.WhiteList)
    MinEpHold, MaxEpHold,  \* bounds on the places of the white list
    WlDefault,           \* places without any entry, 26 in the code
    PosUpgradeEpochID    \* epochs an entry must be ahead, 2 in the code

ASSUME PosControlAssumption ==
    /\ WhiteListLen \in Nat /\ MinEpHold \in Nat /\ MaxEpHold \in Nat
    /\ WlDefault \in Nat /\ PosUpgradeEpochID \in Nat

UpgradeWhiteEpochLeaderDefault ==
    [EpochId |-> 0, WlIndex |-> 0, WlCount |-> WlDefault]

posControlCheckEpochNext(epochId, eid) == eid + 1 <= epochId

\* eid is the epoch of the block's time.
posControlCheckEpoch(epochId, eid) == eid + PosUpgradeEpochID <= epochId

\* The arguments are taken as the natural numbers they stand for; the code
\* takes their low 64 bits, and adds index and count modulo 2^64.
upgradeWhiteEpochLeaderParseAndValid(info, eid) ==
    /\ info.WlIndex + info.WlCount < WhiteListLen
    /\ info.WlCount \in MinEpHold..MaxEpHold
    /\ posControlCheckEpoch(info.EpochId, eid)

\* The entries after the call.
upgradeWhiteEpochLeader(infos, info) ==
    {i \in infos : i.EpochId # info.EpochId} \cup {info}

\* The entry in force: the one with the greatest epoch not after this one.
GetEpochWLInfo(infos, epochId) ==
    LET all == infos \cup {UpgradeWhiteEpochLeaderDefault}
        at == Max({i.EpochId : i \in {j \in all : j.EpochId <= epochId}})
    IN  CHOOSE i \in all : i.EpochId = at
=============================================================================
