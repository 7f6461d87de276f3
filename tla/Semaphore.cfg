SPECIFICATION FairSpec
CONSTANTS
    Threads = {t1, t2, t3}
    NoThread = NoThread
    DebugBuild = TRUE
    Platform = "generic"
    MaxReleases = 2
INVARIANTS TokensConserved WaiterIsRegistered NoLostWakeup
PROPERTIES PingRunsHandler PingReturns ImplementsCounting
CHECK_DEADLOCK FALSE
