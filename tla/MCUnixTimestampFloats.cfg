SPECIFICATION Spec
CONSTANTS
    Step = 10
    Minute = 3
    Limit = 8192
    UnsignedLimit = 4295
    AutoLimit = 5
    DoubleDigits = 5
    LastSecond = 8000
    Timestamps <- MCTimestamps
    Times <- MCTimes
    Clocks <- MCClocks
    Builds <- MCBuilds
    Options <- MCOptions
CHECK_DEADLOCK FALSE
INVARIANT FloatsExact
