CONSTANTS
    Sources <- TrialSources
    AddressSpace = 64
    Reach = 6
    ZeroPage = 4
SPECIFICATION Spec
CHECK_DEADLOCK FALSE
INVARIANTS
    TypeOK
    RunsAlike
    ReservedClear
    Converges
    NoNeedlessJump
