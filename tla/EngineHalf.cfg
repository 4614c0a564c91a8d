SPECIFICATION EngineSpec
CONSTANTS
    Scripts = {s1}
    MaxRef = 1
    MaxFaults = 1
INVARIANTS
    FailedLooksUninstalled
