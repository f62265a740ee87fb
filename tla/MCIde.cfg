CONSTANTS
    Main = main
    Idle = idle
    a = a
    Threads = {main, idle, a}
    Priority <- MCPriority
    TimeLimit = 3
    MaxCmds = 2
SPECIFICATION Spec
CHECK_DEADLOCK FALSE
INVARIANTS
    UnitWindow
    
    SleeperExpected
