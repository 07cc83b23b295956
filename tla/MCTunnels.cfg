\* Two requests for one instance, with limits 1 and 2, ports used once at a time.
SPECIFICATION FairSpec
CONSTANTS
    h1 = h1
    h2 = h2
    i1 = i1
    i2 = i2
    p1 = p1
    p2 = p2
    NoPort = NoPort
    NoHandler = NoHandler
    NoInstance = NoInstance
    Handlers <- TwoHandlers
    Instances <- OneInstance
    Ports <- TwoPorts
    MaxInputs <- ZeroOrTwo
    GlobalMax = 1
    PortReuse = FALSE
INVARIANTS
    NoStaleEntry
    PortIdentifiesTunnel
    OvershootBounded
PROPERTIES
    TunnelEnds
    DeletedDrains
    LockQuiesces
