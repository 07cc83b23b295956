\* A crash between creating a container and saving its ID; Docker does as told.
SPECIFICATION Spec
CONSTANTS
    i1 = i1
    i2 = i2
    Ids <- TwoIds
    Cids <- SevenCids
    NoCid = NoCid
    Absent = Absent
    Missing = Missing
    Subnets = 2
    FaultKinds <- CrashesOnly
    MaxFaults = 1
INVARIANT
    RestartIsClean
