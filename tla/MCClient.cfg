\* Two runs of the client, three signals or kills.
SPECIFICATION FairSpec
CONSTANTS
    r1 = r1
    r2 = r2
    Nobody = Nobody
    Runs <- TwoRuns
    Ports <- SomePorts
    Files <- SomeFiles
    CommandLines <- Typed
    Tried <- Some
    OvpnPort <- OwnFile
    MaxSignals = 3
INVARIANTS
    OwnTunnel
    NoKeyLeft
    NoOrphan
    OrderIsFree
PROPERTY
    Finishes
CHECK_DEADLOCK FALSE
