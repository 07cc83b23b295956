\* Two requests at a time: an update is lost.
SPECIFICATION Spec
CONSTANTS
    t1 = t1
    t2 = t2
    ip1 = ip1
    ip2 = ip2
    Threads <- TwoThreads
    IPs <- TwoIPs
    Threshold = 3
    MayDelete = FALSE
    MayCrash = FALSE
PROPERTY
    BlocksAreKept
