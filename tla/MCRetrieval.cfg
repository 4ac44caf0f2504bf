SPECIFICATION FairRetrieval
CONSTANTS
    u1 = u1
    q1 = q1
    q2 = q2
    r1 = r1
    k1 = k1
    k2 = k2
    Units <- MCUnits
    AllowedUnits <- MCUnits
    PilotUnits <- MCUnits
    Attempts = {0, 1}
    Qualities = {"passed"}
    Reasons <- MCReasons
    NoReason = NoReason
    MaxSequence = 2
    Connections = 1
    Requests <- MCRequests
    Questions <- MCQuestions
    LexicalMatch <- MCMatch
    MaxRepeat = 0
    Unnamed = Unnamed
    NoCommand = NoCommand
INVARIANTS AnswersAreAudited
PROPERTIES EvidenceBindsLatest RequestsAreAnswered
CHECK_DEADLOCK FALSE
