SPECIFICATION DiagnosisSpec
CONSTANTS
    Projects = {p1}
    Versions = {v1, v2}
    r1 = r1
    r2 = r2
    Requests = {r1, r2}
    Jobs = {j1, j2}
    CallsOf <- MCCallsOf
    Restarts = TRUE
    None = None
    Torn = Torn
SYMMETRY Slots
INVARIANTS
    LockHasOneOwner
    OverlayIsOwn
    DiagnosisIsOfLastUp
PROPERTIES
    FilesKeptUnderJob
