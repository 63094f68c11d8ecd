SPECIFICATION Spec
CONSTANTS
    Inputs <- PlainInputs
    InitialBase = 4
    Estimate = 2
    CmsLengths = {4, 7}
    Before = 5
    After = 2
    Piece = 3
CHECK_DEADLOCK FALSE
INVARIANT AlwaysCovered
