SPECIFICATION ConsoleSpec
CHECK_DEADLOCK FALSE
CONSTANTS
    Main = main
    Idle = idle
    a = a
    Threads = {main, idle, a}
    Users = {a}
    Priority <- MCPriority
    NoThread = NoThread
    MaxDepth = 1
    Width = 3
    Height = 5
    Nibbles = 2
    BootText <- MCBootText
    Strings <- MCStrings
    Numbers <- MCNumbers
    Formats <- MCFormats
    Echoes <- MCEchoes
    NameAt = 4
    Begin <- MCBegin
    Name <- MCName
    PageFault <- MCPageFault
    End <- MCEnd
    MaxCalls = 2
INVARIANTS
    TextMeant
    
    
PROPERTIES
    TextsWhole
