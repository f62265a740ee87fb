SPECIFICATION FairSpec
CHECK_DEADLOCK FALSE
CONSTANTS
    PrimParts = 4
    LogicParts = 2
    SECTOR_SIZE = 1
    MAX_FILES_PER_PART = 2
    InodeSize = 1
    NDirect = 2
    EntriesPerSec = 3
    NIndirect = 2
    InitDisks <- MCDisks
    MaxNames = 6
    MaxCrashes = 2
INVARIANTS
    ScanExact
    MountedSound
    EntryFound
    EntryKept
 
