SPECIFICATION FairSpec
CONSTANTS
    Projects = {p1}
    Versions = {v1}
    r1 = r1
    r2 = r2
    Requests = {r1, r2}
    Jobs = {j1}
    CallsOf <- LifecycleCalls
    Restarts = TRUE
    None = None
    Torn = Torn
INVARIANTS
    TypeOK
    LockHasOneOwner
PROPERTIES
    RowKeptUnderJob
    OneOwnerAtWork
    LockIsFreed
    JobEnds
