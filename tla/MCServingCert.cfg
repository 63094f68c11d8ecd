SPECIFICATION Spec
CONSTANTS
    a = a
    b = b
    c = c
    x = x
    y = y
    z = z
    h1 = h1
    h2 = h2
    Procs = {a, b, c}
    Hostnames = {h1, h2}
    Hostname <- MCHostname
    Leaves = {x, y, z}
    Covers <- MCCovers
    NoFile = NoFile
    Torn = Torn
    NoLeaf = NoLeaf
    NoReport = NoReport
SYMMETRY Symmetry
CHECK_DEADLOCK FALSE
INVARIANTS
    TypeOK
    SoloServeHeals
    SoloInstallTrusts
PROPERTIES
    ReadPairIsKept
