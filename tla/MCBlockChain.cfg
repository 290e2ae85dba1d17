SPECIFICATION Spec
CONSTANTS
    Tree <- GapTree
    Bad <- GapBad
    Own = {7}
    K = 2
    SlotCount = 2
    FirstEpochId = 1
    SelectSlot = 1
    RestartLag = 0
    SyncTarget = 0
    MaxNow = 8
    MaxReorgs = 1
    Crashes = {"idle", "written", "reorg"}
    MaxCrashes = 1
INVARIANT IndexIsHeads
INVARIANT KnownAncestors
INVARIANT SegmentStored
PROPERTY StablePrefix
CHECK_DEADLOCK FALSE
