CONSTANTS
    Trials <- AllTrials
    ByteBits = 4
    LsbBits = 1
    IntervalBits = 15
    Cap = 4
SPECIFICATION Spec
INVARIANTS
    TypeOK
    RoundTrip
    InStep
    CostExact
    GapEnough
PROPERTY DecoderReturns
CHECK_DEADLOCK FALSE
