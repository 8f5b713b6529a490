CONSTANTS
    Byte <- MCByte
    CR = "r"
    LF = "n"
    Known <- MCKnown
    MaxLine = 3
    BufSize = 2
    MaxInput = 7
SPECIFICATION ReadSpec
INVARIANT ReadTypeOK
PROPERTIES
    ImplementsFeed
    EveryLineHandled
CHECK_DEADLOCK FALSE
