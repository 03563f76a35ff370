SPECIFICATION Spec
CONSTANTS
    Req = {r1, r2, r3, r4, r5}
    User = {u1}
    ExtraOrg = {}
    Password = {p1, p2, w1}
    Strong = {p1, p2}
    Ops <- PasswordOps
    MayFail = FALSE
    MaxExpiries = 0
    None = None
    p1 = p1
    p2 = p2
    r1 = r1
    r2 = r2
    r3 = r3
    r4 = r4
    r5 = r5
    u1 = u1
    w1 = w1
SYMMETRY Symmetry
INVARIANTS
    AccessTokenMatchesPassword
    RevocationCoversEarlierSessions
PROPERTY
    AccountsOnlyMoveForward
