SPECIFICATION TableSpec
CONSTANTS
    Levels = 4
    Entries = 2
    NoFrame = NoFrame
    PAGE_SIZE = 1
    Frames = {0, 1, 2, 3, 4, 5, 6, 7, 8, 9, 10, 11, 12}
    Pages4K = {0, 1, 5, 15}
    Areas2M = {4, 8}
    DeviceFrame = 100
INVARIANTS
    TranslatesAsMapped
    TablesProtected
CHECK_DEADLOCK FALSE
