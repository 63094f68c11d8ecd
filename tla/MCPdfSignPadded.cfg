SPECIFICATION Spec
CONSTANTS
    Inputs <- PaddedInputs
    InitialBase = 4
    Estimate = 2
    CmsLengths = {4}
    Before = 5
    After = 2
    Piece = 3
CHECK_DEADLOCK FALSE
INVARIANT GapIsContents
