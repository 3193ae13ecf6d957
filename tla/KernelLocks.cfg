SPECIFICATION LocksSpec
CONSTANTS
    UserThreads = {program}
    KernelThreads = {init, test}
    NoThread = NoThread
    InitThread = init
    TestThread = test
    Program = program
    Handler = handler
INVARIANTS
    GsRight
    SysretOwnStack
    LocksFree
    ControllersFree
    FrameKept
PROPERTIES
    InitThreadEnds
CHECK_DEADLOCK FALSE
