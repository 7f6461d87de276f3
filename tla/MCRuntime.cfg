CONSTANTS
    Threads = {t1, t2, t3}
    InitSteps = 2
    Compartments = {c1}
    Values = {v}
    Null = Null
    None = None
    SlotThreads = {t1, t2}
    GLOBAL_DYNAMIC_TLS_SIZE = 3
    COMPARTMENT_DYNAMIC_TLS_SIZE = 3
    UINT16_MAX = 7
    MaxStored = 2
    \* Sections of every length up to more than the alignment, at every placement.
    BlockThreads = {t1}
    TBSS_ALIGNMENT = 4
    TdataAlignment = 2
    MaxTdata = 5
    MaxTbss = 5
    TcbSize = 2
    Addresses = {1, 7, 18, 22}
SPECIFICATION MCSpec
INVARIANTS RoutineRanOnce TlsIsKept ClockIsExact OutputIsWhole
