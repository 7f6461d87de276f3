CONSTANTS
    Threads = {t1, t2}
    MaxCalls = 2
    UserSizes = {64, 65}
    HostFails = TRUE
    NoPage = NoPage
    FrameCount = 9
    PageFrames = 4
    BlockSizes = {1, 3, 5}
    MaxBlocks = 4
    Reps = 3
    MaxHypercalls = 3
    Layout <- MCLayout
SPECIFICATION MCSpec
INVARIANTS
    AnswersItsRequest SequenceInStep SerialCallsAreAnswered VisibleIsShared HostSeesTheCall
    HeapIsUsable PagesAreProtected
PROPERTY ImplementsAddressSpace
