CONSTANTS
    Calls = {c1, c2}
    LoopEventCount = 2
    Updater = Updater
    None = None
SPECIFICATION FairMinerSpec
CHECK_DEADLOCK FALSE
INVARIANT OneOfEach
PROPERTY MinerSettles
