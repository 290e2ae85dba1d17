CONSTANTS
    n1 = n1
    n2 = n2
    n3 = n3
    n4 = n4
    p1 = p1
    p2 = p2
    p3 = p3
    p4 = p4
    Pid = {p1, p2, p3, p4}
    Node = {n1, n2}
    Address = {n1, n2, n3, n4}
    Group <- MCGroup
    GroupEpochs = {1}
    Poly = {1, 2}
    BadPoly = BadPoly
    BadShare = BadShare
    K = 2
    RBThres = 2
    PolymDegree = 1
    FirstEpochId = 1
    LastEpochId = 1
    MaxSignors = 2
    None = None
    GenesisR = GenesisR
    Faults = {}
    MaxReorg = 4
    MaxCrash = 1
    NoEpoch = NoEpoch
SYMMETRY Symmetry
SPECIFICATION NSpec
CHECK_DEADLOCK FALSE
INVARIANT NodeRecordsFit
INVARIANT SharesSentVerify
INVARIANT OneCommitment
