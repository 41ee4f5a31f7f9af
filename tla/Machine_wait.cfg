SPECIFICATION FairSpec
CONSTANTS
    Machine <- WaitMachine
    Start = "park"
    Value = {"good"}
    Bad = "bad"
    MaxTransitions = 3
    MaxUsd = 2
    MaxTurns = 1
    MaxPokes = 2
    MaxCrashes = 2
    MaxTime = 3
INVARIANTS PokeKept PokeFileDurable WaitsItsTime
PROPERTIES WakeFixed WaitListens
CHECK_DEADLOCK FALSE
