CONSTANTS
    W = 2
    MaxOps = 5
SPECIFICATION Spec
INVARIANTS
    TypeOK
    ReadBack
    Lockstep
    FullyConsumed
PROPERTY ImplementsFifo
CHECK_DEADLOCK FALSE
