SPECIFICATION ELSpec
CONSTANTS
    MaxStakers = 3
    MaxWeight = 2
    MaxDraw = 3
    EpochLeaderCount = 3
    RandomProperCount = 1
    White <- MCWhite
    MaxCrashes = 1
CHECK_DEADLOCK FALSE
INVARIANT FairDraw
INVARIANT ReadsRight
INVARIANT AgreeUnlessCrashed
