SPECIFICATION Spec
CONSTANTS
    MaxPage = 5
    MaxLength = 2
    Types = {"ConventionalMemory", "LoaderCode", "RuntimeServicesData", "Unknown"}
    EfiDescriptors <- MCDescriptors
    MaxMemoryMapEntries = 2
    NoEntry = NoEntry
    NoFrame = NoFrame
INVARIANTS
    BootDataNeverHandedOut
CHECK_DEADLOCK FALSE
