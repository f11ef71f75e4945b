CONSTANT Trials <- AllTrials
SPECIFICATION Spec
INVARIANTS
    Covers
    Optimal
    Structured
CHECK_DEADLOCK FALSE
