\* Requests one at a time and two at a time, deletions and crashes.
SPECIFICATION FairSpec
CONSTANTS
    t1 = t1
    t2 = t2
    ip1 = ip1
    ip2 = ip2
    Threads <- TwoThreads
    IPs <- TwoIPs
    Threshold = 3
    MayDelete = TRUE
    MayCrash = TRUE
INVARIANT
    TypeOK
PROPERTIES
    ActsAsList
    CacheSettles
