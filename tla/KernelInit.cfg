SPECIFICATION Spec
CONSTANTS
    EarlyCapacity = 17
    MapLengths = {1, 3}
    RootTables <- MCRootTables
    RedirectionEntries = {1, 2}
    Initrds <- MCInitrds
    Files <- MCFiles
    MaxInterrupts = 1
    FileSizes = {3, 64}
INVARIANTS
    OutputInOrder
    NothingUsedEarly
    MadtRead
    ReadsRightFile
PROPERTIES
    BootEnds
CHECK_DEADLOCK FALSE
