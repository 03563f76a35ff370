SPECIFICATION Spec
CONSTANTS
    Req = {r1, r2, r3, r4, r5}
    User = {u1}
    ExtraOrg = {}
    Password = {p1}
    Strong = {p1}
    Ops <- SessionOps
    MayFail = TRUE
    MaxExpiries = 1
    None = None
    p1 = p1
    r1 = r1
    r2 = r2
    r3 = r3
    r4 = r4
    r5 = r5
    u1 = u1
SYMMETRY Symmetry
INVARIANTS
    TypeOK
    RotationIsLinear
    RotationInv
    RevokedOnlyByCommitted
    RevocationCoversEarlierSessions
