SPECIFICATION FairSpec
CONSTANTS
    c1 = c1
    c2 = c2
    b1 = b1
    Calls = {c1, c2}
    Bases = {b1}
    BaseOf <- MCBaseOf
    Files = 2
    Modes <- MCModes
    NoMode = NoMode
    OutCap = 1
    ErrCap = 1
INVARIANTS NothingOutlives ResponsesAreWhole LimitsAreReported
PROPERTIES EveryCallEnds
CHECK_DEADLOCK FALSE
