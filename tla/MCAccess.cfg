\* A dashboard and a backend that may be restarted.
SPECIFICATION FairSpec
CONSTANTS
    d1 = d1
    Dashboards <- OneDashboard
    MaxRestarts = 1
    MaxTokens = 3
    MaxLoads = 2
    MaxCalls = 1
INVARIANTS
    AdminOnly
    RoleShown
PROPERTIES
    OwnCallsKeepSession
    NoGhost
CHECK_DEADLOCK FALSE
