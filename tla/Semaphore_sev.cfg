SPECIFICATION Spec
CONSTANTS
    Threads = {t1, t2}
    NoThread = NoThread
    DebugBuild = TRUE
    Platform = "sev"
    MaxReleases = 1
PROPERTY
    PingRunsHandler
CHECK_DEADLOCK FALSE
