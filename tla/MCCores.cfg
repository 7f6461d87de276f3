CONSTANTS
    NumCores = 3
    Jobs = {j1, j2, j3}
    Null = Null
    Initializer = Initializer
    SerialAdds = TRUE
    OtherCores = 3
    PingedCores = 3
    Flushers = {0, 1}
    MaxFlushes = 1
    Kernel = "kernel"
    Comp = "compartment"
SPECIFICATION MCSpec
INVARIANTS
    EveryJobRunsOnce JoinWaitsForTheJob ShutdownIsQuiescent
    CoresComeUp FlushReachesAllCores FirmwareIsRead BootIsSound
PROPERTIES
    DispatchEnds BringUpEnds ResumesInterrupted
