SPECIFICATION Spec
CONSTANTS
    Req = {r1, r2, r3, r4}
    User = {u1, u2}
    ExtraOrg = {o1}
    Password = {p1, p2}
    Strong = {p1}
    Ops <- AllEndpoints
    MayFail = TRUE
    MaxExpiries = 1
    None = None
    o1 = o1
    p1 = p1
    p2 = p2
    r1 = r1
    r2 = r2
    r3 = r3
    r4 = r4
    u1 = u1
    u2 = u2
SYMMETRY Symmetry
INVARIANTS
    SessionInv
    ResetLinkIsSingleUse
    SessionKeepsOrg
    AccountHasOneOwner
PROPERTIES
    KeepsTheBook
    ResetLinkExpires
