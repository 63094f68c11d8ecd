SPECIFICATION FairSpec
CONSTANTS
    r1 = r1
    r2 = r2
    l1 = l1
    t1 = t1
    t2 = t2
    k1 = k1
    k2 = k2
    p1 = p1
    p2 = p2
    pdf = pdf
    challenge = challenge
    text = text
    empty = empty
    u1 = u1
    u2 = u2
    Requests = {r1, r2}
    Listers = {l1}
    Tokens = {t1}
    Keys = {k1, k2}
    Pins = {p1}
    Docs = {pdf, challenge, text, empty}
    UUIDs = {u1, u2}
    KeysOn <- OneTokenKeys
    PinOf <- OneTokenPin
    Shape <- MCShape
    Bodies <- TwoBodies
    MaxTries = 1
    MaxResigns = 0
    Nobody = Nobody
    NoSession = NoSession
    NoKey = NoKey
    NoPin = NoPin
    NoSig = NoSig
    NoUUID = NoUUID
    NoJob = NoJob
PROPERTIES
    EveryRequestEnds
    AbandonedUnprompted
    DisconnectFreesTheToken
