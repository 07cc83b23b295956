\* Two chunks one way, one the other way, and every way to end.
SPECIFICATION FairSpec
CONSTANTS
    MaxSend <- TwoUpOneDown
    Capacity = 1
INVARIANT
    EofComplete
PROPERTIES
    ActsAsPipe
    Delivered
    BridgesEnd
CHECK_DEADLOCK FALSE
