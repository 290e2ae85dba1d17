CONSTANTS
    n1 = n1
    n2 = n2
    n3 = n3
    Index = {0, 1, 2}
    Account = {n1, n2, n3}
    Node = {n1, n2}
    Leaders <- MCLeaders
    LeaderEpochs = {1}
    Alpha = {1, 2}
    BadAlpha = BadAlpha
    K = 1
    LastEpochId = 2
    LastSlot = 0
    None = None
    MaxReorg = 2
    MaxCrash = 1
    MaxRetry = 1
SPECIFICATION SLNSpec
CHECK_DEADLOCK FALSE
INVARIANT NodeRecordsFit
INVARIANT SMAIsFinal
INVARIANT CachedRandomIsChains
INVARIANT ProofsVerify
