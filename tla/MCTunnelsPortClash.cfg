\* The claim that a source port identifies a tunnel, with two instances.
SPECIFICATION Spec
CONSTANTS
    h1 = h1
    h2 = h2
    i1 = i1
    i2 = i2
    p1 = p1
    p2 = p2
    NoPort = NoPort
    NoHandler = NoHandler
    NoInstance = NoInstance
    Handlers <- TwoHandlers
    Instances <- TwoInstances
    Ports <- TwoPorts
    MaxInputs <- NoInputs
    GlobalMax = 1
    PortReuse = TRUE
SYMMETRY Interchangeable
INVARIANT
    PortIdentifiesTunnel
