SPECIFICATION FairSpec
CONSTANTS
    c1 = c1
    c2 = c2
    Clients = {c1, c2}
    OpsOf <- MCOpsOf
    None = None
    MaxCommands = 1
    MaxJobs = 2
    MaxFaults = 3
INVARIANTS
    TypeOK
    OneJobPerCommand
    OkIsDeleted
    FirstFailureIsTold
PROPERTIES
    OkIsOwnJob
    CommandEnds
CHECK_DEADLOCK FALSE
