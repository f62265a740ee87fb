CONSTANTS
    NPages = 3
    PageUnits = 7
    Sizes = {2, 3}
    MaxPages = 4
SPECIFICATION Spec
CHECK_DEADLOCK FALSE
INVARIANTS
    
    HeapSound
PROPERTY HeapIsAllocator
