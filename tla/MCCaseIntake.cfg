CONSTANTS
    c1 = c1
    c2 = c2
    s1 = s1
    s2 = s2
    d1 = d1
    d2 = d2
    Null = Null
    ContextBars = 3
    DetailBars = 2
    Clients = {c1, c2}
    Fixtures <- MCFixtures
    Authorized <- MCAuthorized
    MaxCommands = 3
    MaxStops = 1
SPECIFICATION Spec
INVARIANTS StoredChartsAreServable ReportsAreTrue RefusalsAreExplained
SYMMETRY Symmetry
CHECK_DEADLOCK FALSE
