SPECIFICATION Spec
CHECK_DEADLOCK FALSE
CONSTANTS
    Kernel = kernel
    k = k
    l = l
    p = p
    q = q
    Threads = {k, l}
    First = p
    Procs = {p, q}
    NoTask = NoTask
    NKernel = 10
    NUser = 3
    UPages = 2
    TablePages = 1
    BitmapPages = 2
    MaxPages = 2
    MaxCalls = 1
INVARIANTS
    
    LockInCall
    
    OverlapKernel
SYMMETRY ThreadSymmetry
PROPERTIES
    PagesAllocated
