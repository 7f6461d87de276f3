CONSTANTS
    Cores = {k1, k2}
    Compartments = {c1, c2}
    Null = Null
    ChunkCount = 3
    Sizes = {1, 2}
    MIN_OWNERSHIP_SIZE = 2
    StackChunk = 2
    Addresses = {c1, c2}
    Kernel = Kernel
    MaxCallbacks = 2
    MaxDepth = 2
    MaxInstances = 3
    Objects = {o1, o2, o3}
    SizeOfT = 3
    MIN_CHUNK_SIZE = 8
    MaxCount = 4
    MaxBlocks = 3
SPECIFICATION MCSpec
INVARIANTS OwnershipIsTracked ListsAreExact InvocationsNest BlocksHaveOneOwner
PROPERTY DestructorReturns
