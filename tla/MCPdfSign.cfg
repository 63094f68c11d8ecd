SPECIFICATION Spec
CONSTANTS
    Inputs <- PlainInputs
    InitialBase = 4
    Estimate = 2
    CmsLengths = {4, 6, 7, 9, 12}
    Before = 5
    After = 2
    Piece = 3
CHECK_DEADLOCK FALSE
INVARIANTS
    TypeOK
    SignatureIsReachable
    SizeCoversIDs
    GapIsContents
    FirstFitIsCovered
    AttemptsAreBounded
