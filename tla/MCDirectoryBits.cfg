SPECIFICATION Spec
CHECK_DEADLOCK FALSE
CONSTANTS
    PrimParts = 4
    LogicParts = 2
    SECTOR_SIZE = 1
    MAX_FILES_PER_PART = 2
    InodeSize = 1
    NDirect = 2
    EntriesPerSec = 3
    NIndirect = 2
    InitDisks <- FullDisk
    MaxNames = 9
    MaxCrashes = 0
INVARIANT BlocksInside
