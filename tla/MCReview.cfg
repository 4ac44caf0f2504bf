SPECIFICATION Spec
CONSTANTS
    c1 = c1
    long = long
    short = short
    agree = agree
    disagree = disagree
    h1 = h1
    h2 = h2
    None = None
    Cases <- MCCases
    Verdicts <- MCVerdicts
    Finals <- MCFinals
    Handlers <- MCHandlers
    BrooksVerdict <- MCBrooks
    Agree = agree
SYMMETRY Symmetry
INVARIANTS CommittedRevealsAreNeverRefused
PROPERTIES BlindUntilFrozen ImplementsStages
