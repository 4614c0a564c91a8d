SPECIFICATION FairSpec
CONSTANTS
    Scripts = {s1, s2}
    MaxRef = 1
    MaxFaults = 3
    Platforms = {"wsl", "lima"}
    OldVm = TRUE
    None = None
INVARIANTS
    TypeOK
    RememberedIsFact
    RestartIsDue
    MarkerMeansServing
PROPERTIES
    TokenKept
    SetupSucceeds
