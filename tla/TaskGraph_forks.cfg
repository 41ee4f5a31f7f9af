SPECIFICATION Spec
CONSTANTS
    MaxTask = 3
    MaxVersion = 4
    MaxCuts = 1
    MaxDeps = 1
    Sha = {"c1"}
    StatusInput = {"in_progress", "passed"}
    Draft <- TwoDrafts
    Faults = {}
INVARIANTS LostNumberNeverReused ReplayUntouched ForkSound
CHECK_DEADLOCK FALSE
