SPECIFICATION Spec
CONSTANTS
    MaxTask = 3
    MaxVersion = 4
    MaxCuts = 1
    MaxDeps = 1
    Sha = {}
    StatusInput = {"in_progress", "passed", "failed", "obsolete"}
    Draft <- OneDraft
    Faults = {"node", "entry", "torn"}
INVARIANTS TypeOK MemoryIsDisk TreeConsistent VersionsIncrease DepsAcyclic
PROPERTY EndsAreFinal
CHECK_DEADLOCK FALSE
