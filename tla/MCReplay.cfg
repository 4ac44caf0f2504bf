SPECIFICATION ReplaySpec
CONSTANTS
    s1 = s1
    s2 = s2
    x1 = x1
    m1 = m1
    m2 = m2
    d1 = d1
    b1 = b1
    b2 = b2
    b3 = b3
    b4 = b4
    Null = Null
    NoBar = NoBar
    ContextBars = 3
    DetailBars = 2
    Market <- MCMarket
    Live = s1
    CaseIds <- MCCaseIds
    Candidates <- MCCandidates
    Response <- MCResponse
    Doctrine <- MCDoctrine
    Datasets <- MCDatasets
    Policies <- MCPolicies
    MaxCalls = 3
INVARIANTS PlansQuoteTheMarket NoFutureReachesTheModel ReplayIsCausal
PROPERTIES CallsFollowTheStream
CHECK_DEADLOCK FALSE
