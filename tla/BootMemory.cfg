SPECIFICATION Spec
CONSTANTS
    MaxPage = 5
    MaxLength = 2
    Types = {"ConventionalMemory", "LoaderCode", "RuntimeServicesData",
             "ACPIReclaimMemory", "Unknown"}
    EfiDescriptors <- MCDescriptors
    MaxMemoryMapEntries = 3
    NoEntry = NoEntry
    NoFrame = NoFrame
INVARIANTS
    FullyMerged
    PagesPreserved
    OnlyAvailableHandedOut
    HandsOverWellFormed
CHECK_DEADLOCK FALSE
