CONSTANTS
    p1 = p1
    p2 = p2
    p3 = p3
    p4 = p4
    f = f
    Pid = {p1, p2, p3, p4}
    Outsider = Outsider
    Address <- MCAddress
    Group <- MCGroup
    GroupEpochs <- MCGroupEpochs
    Poly = {f}
    BadPoly = BadPoly
    BadShare = BadShare
    K = 1
    RBThres = 2
    PolymDegree = 1
    FirstEpochId = 1
    LastEpochId = 2
    MaxSignors = 3
    None = None
    GenesisR = GenesisR
SYMMETRY Symmetry
SPECIFICATION Spec
CHECK_DEADLOCK FALSE
INVARIANT TypeOK
INVARIANT SharesAgree
INVARIANT RandomFromQuorum
INVARIANT QuorumYieldsRandom
INVARIANT ActiveTookPart
PROPERTY RandomSettled
PROPERTY KeyFixedBeforeSigning
PROPERTY ImplementsBeacon
