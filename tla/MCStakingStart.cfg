CONSTANTS
    a1 = a1
    a2 = a2
    v1 = v1
    v2 = v2
    Validator = {v1, v2}
    Account = {a1}
    Builtin = {v2}
    PowStakers = {v1}
    None = None
    FirstEpochId = 10
    LastEpochId = 17
    MaxMissed = 1
    Endowment = 1
    BuiltinStake = 1
    Value = {1}
    Lock = {4}
    Rate = {0, 1}
    PSMinEpochNum = 4
    PSMaxEpochNum = 5
    minStakeholderStake = 1
    MinValidatorStake = 1
    minDelegatorStake = 1
    minPartnerIn = 2
    maxTotalStake = 2
    MaxTimeDelegate = 1
    maxPartners = 1
    PSMaxFeeRate = 2
    PSFeeRateStep = 1
    ApolloEpochID = 1
    AugustEpochID = 1
    VenusEpochId = 100
    CleanEpochs = {17}
SPECIFICATION SSpec
CHECK_DEADLOCK FALSE
INVARIANT StakesSafe
 
