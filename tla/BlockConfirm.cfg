SPECIFICATION CSpec
CONSTANTS
    K = 4
    SlotTime = 2
    SecBlkDiff = 2
    Pow2PosUpgradeBlockNumber = 1
    MaxTime = 13
CHECK_DEADLOCK FALSE
INVARIANT StableIsSafe
INVARIANT ReportWithinK
