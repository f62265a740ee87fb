SPECIFICATION FairSpec
CONSTANTS
    a = a
    b = b
    Main = main
    Idle = idle
    Threads = {main, idle, a, b}
    Priority <- MCPriority
    Uses <- MCUses
    Keys <- MCKeys
    bufsize = 3
    Chars <- MCChars
    NoThread = NoThread
    NoChar = NoChar
INVARIANT ConsumerSleepsOnEmpty
INVARIANT QueueSound
PROPERTY QueueIsFifo
PROPERTY TypedAsHeld
 
