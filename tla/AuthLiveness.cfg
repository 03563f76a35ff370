SPECIFICATION FairSpec
CONSTANTS
    Req = {r1, r2, r3, r4}
    User = {u1}
    ExtraOrg = {}
    Password = {p1}
    Strong = {p1}
    Ops <- AllEndpoints
    MayFail = FALSE
    MaxExpiries = 0
    None = None
    p1 = p1
    r1 = r1
    r2 = r2
    r3 = r3
    r4 = r4
    u1 = u1
PROPERTY
    EveryRequestAnswered
