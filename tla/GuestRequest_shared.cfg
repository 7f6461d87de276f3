SPECIFICATION Spec
CONSTANTS
    Threads = {t1, t2}
    MaxCalls = 1
    UserSizes = {64}
    HostFails = FALSE
INVARIANTS PopulatesResponse
