CONSTANTS
    Configs <- AllConfigs
    LsbBits = 1
    EOF_MSB = 2
SPECIFICATION Spec
INVARIANTS
    TypeOK
    RoundTrip
    Mirrored
    CostExact
PROPERTY DecoderReturns
CHECK_DEADLOCK FALSE
