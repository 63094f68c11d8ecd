SPECIFICATION Spec
CONSTANTS
    s1 = s1
    s2 = s2
    t1 = t1
    t2 = t2
    p1 = p1
    p2 = p2
    Slots = {s1, s2}
    Tokens = {t1, t2}
    Pins = {p1, p2}
    PinOf <- MCPinOf
    MaxTries = 2
    NoPin = NoPin
    NoToken = NoToken
    NoFilter = NoFilter
CHECK_DEADLOCK FALSE
INVARIANTS
    TypeOK
    FailuresAreReported
    OneLoginPerToken
    NothingIsSkipped
