SPECIFICATION RunSpec
CONSTANTS
    first = first
    second = second
    Daemons = {first, second}
    Requests = {r1, r2}
    a = a
    b = b
    wildcard = wildcard
    Addrs = {a, b, wildcard}
    Loopback = {a, b}
    Configs <- MCConfigs
    None = None
INVARIANTS TypeOK CutOnlyLate ListenersOwnAddresses ExitsForAReason
PROPERTIES StopsWhenTold
CHECK_DEADLOCK FALSE
