SPECIFICATION ISpec
CONSTANTS
    v1 = v1
    v2 = v2
    w1 = w1
    w2 = w2
    d1 = d1
    Validator = {v1, v2}
    Wallet = {w1, w2, d1}
    White = White
    Stakers <- MCStakers
    EpochLeaders <- MCEpochLeaders
    RandomProposers <- MCRandomProposers
    Work <- MCWork
    Tx <- MCTx
    FeeRate = 10
    Gas = 7
    SlotCount = 2
    IncentiveStartStage = 0
    FirstEpochId = 4
    subsidyReductionInterval = 3
    firstPeriodReward = 3000
    Scale = 100
    ActScale = 10
    FeeUnit = 100
    MaxEpoch = 8
    WhiteListLen = 5
    MinEpHold = 0
    MaxEpHold = 2
    WlDefault = 1
    PosUpgradeEpochID = 2
CHECK_DEADLOCK FALSE
INVARIANT PaymentsRight
INVARIANT Conserved
INVARIANT PaidOnTime
PROPERTY WlSettled
