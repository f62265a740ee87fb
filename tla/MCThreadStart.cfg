SPECIFICATION StartSpec
CHECK_DEADLOCK FALSE
CONSTANTS
    a = a
    b = b
    c = c
    d = d
    Main = main
    Idle = idle
    Threads = {main, idle, a, b, c, d}
    Priority <- MCPriority
    MaxDepth = 1
    NoThread = NoThread
 
INVARIANT ListsExact
INVARIANT PidsCounted
INVARIANT PidsUnique
SYMMETRY PcbSymmetry
