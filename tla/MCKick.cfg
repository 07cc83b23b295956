\* A request and the enforcer, two clients that come and go.
SPECIFICATION FairSpec
CONSTANTS
    c1 = c1
    c2 = c2
    i1 = i1
    a1 = a1
    a2 = a2
    p1 = p1
    p2 = p2
    r1 = r1
    NoPort = NoPort
    NoClient = NoClient
    Enforcer = Enforcer
    Clients <- TwoClients
    Instances <- OneInstance
    Server <- SameServer
    Addresses <- TwoAddresses
    Address <- OwnAddress
    Ports <- TwoPorts
    Requests <- OneRequest
INVARIANTS
    KilledStayOut
PROPERTIES
    DisabledFirst
    TimeoutEnforced
