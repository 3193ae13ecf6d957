SPECIFICATION Spec
CONSTANTS
    Levels = 3
    Entries = 5
    NoFrame = NoFrame
    Frames <- MCFrames
    PAGE_SIZE = 3
    KernelStart = 0
    KernelPages = 2
    HighestFrame = 12
    PhysP4 = 1
    TextP4 = 4
    VmallocStartP4 = 2
    VmallocEndP4 = 4
    VmSizes = {3}
    Devices <- MCDevices
    Segments <- MCSegments
    Processes = {p, q}
    NoSpace = NoSpace
SYMMETRY ProcessSymmetry
INVARIANTS
    KernelShared
    PhysicalReachable
    RegionsBacked
    SegmentsBacked
    FramesHaveOneUse
    FaultResolves
CHECK_DEADLOCK FALSE
