CONSTANTS
    None = None
    Runs = 2
    PerHost = 2
    \* Sizes and addresses around the bounds that the code compares with, and
    \* ones whose sums wrap around.
    WordSize = 64
    SHMEM_SIZE = 30
    SHMEM_START = 17
    TupleSizes = {6, 30}
    BufferSizes = {0, 1, 2, 6, 7, 8, 9, 22, 23, 24, 51, 57, 58, 63}
    OffsetsSizes = {2, 6, 8}
    Alignments = {1, 2, 8}
    OtherStarts = {0, 16, 17, 46, 47, 63}
    OtherSizes = {0, 1, 29, 30, 31, 46, 47, 63}
SPECIFICATION MCSpec
INVARIANTS HostCleansUp SharedObjectsAgree
PROPERTY JoinReturns
CHECK_DEADLOCK FALSE
