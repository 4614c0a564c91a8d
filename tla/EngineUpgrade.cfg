SPECIFICATION UpgradeSpec
CONSTANTS
    Scripts = {s1}
    MaxRef = 2
    MaxFaults = 3
    MaxVersion = 3
    Columns = {"projects", "problem_code", "problem_message", "backfill"}
    Added <- MCAdded
    Legacy <- MCLegacy
    Knows <- MCKnows
INVARIANTS
    UpgradeTypeOK
    AppliedOnce
    ServesItsSchema
    MarkerMeansServing
PROPERTIES
    TooNewUntouched
