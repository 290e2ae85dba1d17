CONSTANTS
    a1 = a1
    a2 = a2
    v1 = v1
    v2 = v2
    Validator = {v1}
    Account = {a1, a2}
    Builtin = {}
    PowStakers = {}
    None = None
    FirstEpochId = 10
    LastEpochId = 16
    MaxMissed = 0
    Endowment = 2
    BuiltinStake = 1
    Value = {1}
    Lock = {4, 5}
    Rate = {0}
    PSMinEpochNum = 4
    PSMaxEpochNum = 5
    minStakeholderStake = 1
    MinValidatorStake = 1
    minDelegatorStake = 1
    minPartnerIn = 1
    maxTotalStake = 3
    MaxTimeDelegate = 1
    maxPartners = 1
    PSMaxFeeRate = 2
    PSFeeRateStep = 1
    ApolloEpochID = 1
    AugustEpochID = 1
    VenusEpochId = 13
    CleanEpochs = {}
SYMMETRY Symmetry
SPECIFICATION SSpec
CHECK_DEADLOCK FALSE
INVARIANT RecordsRight
INVARIANT StakesSafe
INVARIANT BondedWhileWorking
