SPECIFICATION Spec
CONSTANTS
    Req = {r1, r2, r3}
    Addr = {a1, a2}
    Proxies = {a2}
    Email = {e1}
    Path <- KeyPaths
    Limit <- TwoEach
    Window <- OneTick
    MaxRetries = 1
    MaxRestarts = 0
    MaxTime = 0
    None = None
    a1 = a1
    a2 = a2
    e1 = e1
    r1 = r1
    r2 = r2
    r3 = r3
SYMMETRY Symmetry
INVARIANTS
    RefusedOnlyWhenUsedUp
    WindowAdmitsAtMostLimit
