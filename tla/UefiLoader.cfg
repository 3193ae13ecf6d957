SPECIFICATION LoaderFairSpec
CONSTANTS
    Levels = 3
    Entries = 4
    NoFrame = NoFrame
    Frames <- MCFrames
    Executables <- MCExecutables
    Memories <- MCMemories
    MaxFrames = 9
    StackPages = 1
    IdentityPages = 5
    TextStart = 48
    PAGE_SIZE = 2
    MapSizes = {2, 3}
    MapBuffer = 2
    MaxMapChanges = 2
INVARIANTS
    RemapAgrees
    ImageLoaded
    EarlyMemory
    MemoryApart
PROPERTIES
    KernelStarts
CHECK_DEADLOCK FALSE
