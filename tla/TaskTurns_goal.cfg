SPECIFICATION Spec
CONSTANTS
    MaxTask = 3
    MaxDeps = 1
    MaxCalls = 1
    MaxQueue = 1
    FinishPatience = 1
    Patience = 0
    ModelStatus = {"passed", "failed", "skipped", "in_progress"}
    Interactive = TRUE
INVARIANTS OneGoal
CHECK_DEADLOCK FALSE
