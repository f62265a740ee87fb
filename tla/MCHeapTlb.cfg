CONSTANTS
    NPages = 4
    PageUnits = 4
    Sizes = {3}
    MaxPages = 2
SPECIFICATION Spec
CHECK_DEADLOCK FALSE
INVARIANT NoStaleMapping
