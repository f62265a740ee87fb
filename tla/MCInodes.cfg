SPECIFICATION FairSpec
CHECK_DEADLOCK FALSE
CONSTANTS
    ListHead = ListHead
    ListTail = ListTail
    NULL = NULL
    Tasks = {a, b}
    Addrs = {x, y}
    Inodes = 3
    InodeSize = 3
    SECTOR_SIZE = 4
    ByteRange = 2
    MaxSize = 1
INVARIANTS
    ListWhole
    OpenExact
    DiskExact
 
