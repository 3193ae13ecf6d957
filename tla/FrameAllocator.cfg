SPECIFICATION Spec
CONSTANTS
    MaxPage = 8
    BootInfos <- MCBootInfos
    NoFrame = NoFrame
INVARIANTS
    KernelNeverHandedOut
    LowNeverHandedOut
PROPERTIES
    RefinesFramePool
