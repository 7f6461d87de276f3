SPECIFICATION Spec
CONSTANTS
    Threads = {t1, t2}
    NoThread = NoThread
    Recursive = TRUE
    MaxDepth = 2
    MaxCalls = 3
INVARIANTS MutualExclusion
CHECK_DEADLOCK FALSE
