CONSTANT
    Trials <- AllTrials
SPECIFICATION Spec
INVARIANTS
    TypeOK
    PoolExact
    Exact
    Faithful
CHECK_DEADLOCK FALSE
