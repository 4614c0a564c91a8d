SPECIFICATION Spec
CONSTANTS
    Scripts = {s1}
    MaxRef = 1
    MaxFaults = 1
    Platforms = {"wsl"}
    OldVm = FALSE
    None = None
INVARIANTS
    SystemdIsOn
