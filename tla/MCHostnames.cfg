\* Two clients that come and go, polls, names that are set, and crashes.
SPECIFICATION FairSpec
CONSTANTS
    c1 = c1
    c2 = c2
    a1 = a1
    Clients <- TwoClients
    Addresses <- OneAddress
    Gone = Gone
    NoAddress = NoAddress
    NoName = NoName
    MaxLabel = 3
    RawNames <- AllTexts
    Tried <- TwoTexts
    Friendly <- OneFriendly
    Fallbacks <- OneFallback
INVARIANTS
    NamesKept
    AutoNamesDistinct
    HostsAreLabels
    TextsBecomeLabels
PROPERTY
    HostsConverge
