SPECIFICATION PreparedSpec
CONSTANTS
    u1 = u1
    r1 = r1
    c1 = c1
    c2 = c2
    Units <- MCUnit
    AllowedUnits <- MCUnit
    PilotUnits <- MCUnit
    Attempts = {0, 1}
    Qualities = {"passed"}
    Reasons <- MCReasons
    NoReason = NoReason
    MaxSequence = 3
    Connections = 2
    Cases <- MCCases
INVARIANTS OneVerdictPerActivation
PROPERTIES TerminalsFollowAuthority IneligibleEndsAssembly PayloadsFollowTerminals
SYMMETRY Symmetry
CHECK_DEADLOCK FALSE
