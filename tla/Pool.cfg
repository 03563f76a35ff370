\* Every shape of request, one connection fewer than requests.
SPECIFICATION FairSpec
CONSTANTS
    Req = {r1, r2, r3}
    User = {u1}
    MaxConns = 2
    Ops <- Shapes
    MayCancel = TRUE
    None = None
    r1 = r1
    r2 = r2
    r3 = r3
    u1 = u1
INVARIANTS
    PoolInv
PROPERTIES
    EveryRequestAnswered
    ReadyzAnswers
