CONSTANTS
    Configs <- Programs
    Space = 40
    Page = 4
    ShortLoop = 1
    LongLoop = 2
    DownLoop = 3
    Jmp = 1
    StackPage = 2
    StackLimit = 5
    LowMem = 6
    Placeholder = 32
    Passes = 4
SPECIFICATION BootSpec
INVARIANTS
    RunsOwnCode
    StreamReady
    DataMoved
CHECK_DEADLOCK FALSE
