CONSTANTS
    Sources <- TableSources
    AddressSpace = 64
    Reach = 6
    ZeroPage = 4
SPECIFICATION Spec
CHECK_DEADLOCK FALSE
INVARIANT NamesData
