SPECIFICATION Spec
CONSTANTS
    VocabSize = 4
    Values <- MCValues
    Bad = Bad
    Params <- MCParams
    Recents <- MCRecents
    Depth = 10
    Exp <- MCExp
INVARIANTS
    PenaltyOnce
    Nucleus
PROPERTY
    SampleEnds
CHECK_DEADLOCK FALSE
