SPECIFICATION Spec
CONSTANTS
    Req = {r1, r2, r3, r4}
    Addr = {a1}
    Proxies = {}
    Email = {}
    Path <- WindowPaths
    Limit <- TwoOrOne
    Window <- OneTick
    MaxRetries = 0
    MaxRestarts = 1
    MaxTime = 2
    None = None
    a1 = a1
    r1 = r1
    r2 = r2
    r3 = r3
    r4 = r4
SYMMETRY Symmetry
INVARIANTS
    TypeOK
    WindowAdmitsAtMostLimit
    BurstIsBounded
    WindowsEnd
