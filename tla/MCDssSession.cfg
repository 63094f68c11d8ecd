SPECIFICATION ClientSpec
CONSTANTS
    Docs = {small, large}
    BigDocs = {large}
    MaxStrays = 2
    None = None
    Stray = Stray
    Partial = Partial
INVARIANTS TypeOK SignsWhatItReturned SignedAsAsked HelperIsReaped
PROPERTIES ImplementsCall CancelEnds ConversationEnds
CHECK_DEADLOCK FALSE
