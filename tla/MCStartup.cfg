\* Crashes at any point of a start, and TLS files that change.
SPECIFICATION StartupFairSpec
CONSTANT
    MaxFaults = 3
INVARIANTS
    OneCA
PROPERTY
    Recovers
