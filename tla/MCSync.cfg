CONSTANTS
    Main = main
    Idle = idle
    a = a
    b = b
    NoThread = NoThread
    Threads = {main, idle, a, b}
    Priority <- MCPriority
    MaxDepth = 2
SPECIFICATION FairSpec
INVARIANTS
    NoPanic
    ListsConsistent
    LockConsistent
    NoLostWakeup
PROPERTIES
    LockIsMutex
    ReadyRuns
    LockProgress
