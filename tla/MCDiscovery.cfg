CONSTANTS
    Window = 2
    LegSpan = 3
    PivotArm = 1
    Lookback = 2
    MinHistory = 6
    FullContext = 8
    Ttl = 1
    Cooldown = 2
    MaxBars = 10
    Supplied = {5, 6, 8}
    NoCandidate = NoCandidate
    History <- MCHistory
    Shapes <- MCShapes
SPECIFICATION Spec
INVARIANTS ThreadsStayQuiet FailureIsReported RepeatsAgree AdmissionsDoNotOverlap SidesMirror
CHECK_DEADLOCK FALSE
