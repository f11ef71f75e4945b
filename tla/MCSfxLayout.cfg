CONSTANTS
    Configs <- AllLayouts
    Space = 65536
    Page = 256
    ShortLoop = 13
    LongLoop = 22
    DownLoop = 23
    Jmp = 3
    StackPage = 256
    StackLimit = 500
    LowMem = 512
    Placeholder = 49152
    Passes = 4
SPECIFICATION Spec
INVARIANTS
    TypeOK
    StaleOnlyInWindow
    BulkInPlace
PROPERTY
    BuildReturns
CHECK_DEADLOCK FALSE
