SPECIFICATION Spec
CONSTANTS
    u1 = u1
    u2 = u2
    r1 = r1
    r2 = r2
    Units <- MCUnits
    AllowedUnits <- MCUnits
    PilotUnits <- MCPilot
    Attempts = {0, 1}
    Qualities = {"passed"}
    Reasons <- MCReasons
    NoReason = NoReason
    MaxSequence = 5
    Connections = 3
INVARIANTS RollbackCausality RollbacksDoNotFork RollbackRetriesCollapse
PROPERTIES AuthorityAdvancesEligibly
CHECK_DEADLOCK FALSE
