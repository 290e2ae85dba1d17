CONSTANTS
    n1 = n1
    n2 = n2
    n3 = n3
    n4 = n4
    p1 = p1
    p2 = p2
    p3 = p3
    p4 = p4
    Pid = {p1, p2, p3, p4}
    Node = {n1, n2, n3}
    Address = {n1, n2, n3, n4}
    Group <- MCGroupLive
    GroupEpochs = {1}
    Poly = {1, 2}
    BadPoly = BadPoly
    BadShare = BadShare
    K = 2
    RBThres = 2
    PolymDegree = 1
    FirstEpochId = 1
    LastEpochId = 1
    MaxSignors = 3
    None = None
    GenesisR = GenesisR
    Faults = {}
    MaxReorg = 0
    MaxCrash = 1
    NoEpoch = NoEpoch
SPECIFICATION TimelySpec
PROPERTY BeaconDelivers
CHECK_DEADLOCK FALSE
