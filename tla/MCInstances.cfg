\* Two removals that fail or crashes in mid-operation, any number of other crashes.
SPECIFICATION FairSpec
CONSTANTS
    i1 = i1
    i2 = i2
    Ids <- TwoIds
    Cids <- SevenCids
    NoCid = NoCid
    Absent = Absent
    Missing = Missing
    Subnets = 2
    FaultKinds <- AllFaults
    MaxFaults = 2
INVARIANTS
    TypeOK
    SubnetsDistinct
    RunningHasContainer
    DiskAgrees
    NoLeftovers
PROPERTY
    ComesUp
