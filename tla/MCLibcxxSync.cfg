SPECIFICATION MCSpec
CONSTANTS
    Threads = {t1, t2, t3}
    NoThread = NoThread
    Recursive = FALSE
    MaxDepth = 1
    MaxCalls = 2
INVARIANTS MutualExclusion OneWakeupPerSleep FreeMutexIsNoticed
PROPERTY CallsReturn
CHECK_DEADLOCK FALSE
