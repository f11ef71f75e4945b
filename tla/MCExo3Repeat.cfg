CONSTANTS
    Trials <- RepeatTrials
    ByteBits = 4
    LsbBits = 1
    IntervalBits = 15
    Cap = 4
SPECIFICATION Spec
INVARIANT RoundTrip
CHECK_DEADLOCK FALSE
