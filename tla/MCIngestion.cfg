SPECIFICATION Spec
CONSTANTS
    u1 = u1
    u2 = u2
    u3 = u3
    c1 = c1
    c2 = c2
    Units <- MCUnits
    AllowedUnits <- MCAllowed
    PilotUnits <- MCPilot
    Sessions <- MCSessions
    Attempts = {0}
    Qualities = {"passed", "unpassed"}
    NoRun = NoRun
SYMMETRY Symmetry
INVARIANTS SuccessRepliesAreStored
PROPERTIES ImplementsLedger
