SPECIFICATION Spec
CONSTANTS
    Machine <- WorkMachine
    Start = "plan"
    Value = {"good"}
    Bad = "bad"
    MaxTransitions = 4
    MaxUsd = 1
    MaxTurns = 1
    MaxPokes = 0
    MaxCrashes = 2
    MaxTime = 2
INVARIANTS ReplayAccepts MemoryIsReplay SpendBookedOnce
PROPERTY FollowsPath
CHECK_DEADLOCK FALSE
