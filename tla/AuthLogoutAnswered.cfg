SPECIFICATION Spec
CONSTANTS
    Req = {r1, r2, r3}
    User = {u1}
    ExtraOrg = {}
    Password = {p1}
    Strong = {p1}
    Ops <- LogoutOps
    MayFail = TRUE
    MaxExpiries = 0
    None = None
    p1 = p1
    r1 = r1
    r2 = r2
    r3 = r3
    u1 = u1
SYMMETRY Symmetry
INVARIANT
    LogoutAnsweredMeansRevoked
