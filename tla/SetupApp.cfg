SPECIFICATION Spec
CONSTANTS
    Size = 2
    MaxFaults = 3
    Platforms = {"mac", "windows"}
INVARIANTS
    TypeOK
    InPlaceIsVerified
    FailedRunKeepsLima
    OneRunAtATime
    ExitTellsLastRun
PROPERTIES
    LogIsWhole
    BarNeverFalls
    RunEnds
    SetupSucceeds
