SPECIFICATION TimeframeSpec
CONSTANTS
    f1 = f1
    f2 = f2
    d1 = d1
    Null = Null
    NotSupplied = NotSupplied
    Feeds <- MCFeeds
    Span <- MCSpan
    PrimaryMin = 2
    PrimaryMax = 3
    ReferenceMax = 2
    Precision = 13
    Doctrine <- MCDoctrine
    Responses <- MCResponses
    Horizon = 6
INVARIANTS NothingPastTheCutoff PlansAvoidGaps
CHECK_DEADLOCK FALSE
