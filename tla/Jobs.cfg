SPECIFICATION FairSpec
CONSTANTS
    j1 = j1
    j2 = j2
    j3 = j3
    Jobs = {j1, j2, j3}
    Followers = {f1}
    Chunks = {c1, c2}
    None = None
    MaxFinished = 1
    MaxLog <- MCMaxLog
INVARIANTS
    TypeOK
PROPERTIES
    FollowIsStream
    FollowEnds
    EvictsOldest
CHECK_DEADLOCK FALSE
