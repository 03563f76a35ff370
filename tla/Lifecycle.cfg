SPECIFICATION FairSpec
CONSTANTS
    Conn = {c1, c2, c3}
    MaxRequests = 2
    c1 = c1
    c2 = c2
    c3 = c3
INVARIANTS
    LifecycleInv
    CleanExitCutsNothing
    ResourcesOutliveHandlers
    ListenerErrorIsReported
PROPERTIES
    SignalEndsProcess
    FailureEndsProcess
