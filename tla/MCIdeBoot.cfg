CONSTANTS
    Main = main
    Idle = idle
    a = a
    Threads = {main, idle}
    Priority <- MCPriority
    TimeLimit = 3
    MaxCmds = 2
SPECIFICATION FairSpec
CHECK_DEADLOCK FALSE
PROPERTY CallReturns
