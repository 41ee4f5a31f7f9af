SPECIFICATION FairSpec
CONSTANTS
    MaxTurns = 1
    MaxCalls = 1
    MaxQuestion = 2
    MaxExecutions = 2
    MaxStops = 1
    MaxFaults = 1
    CallKind = {"work", "ask", "queue"}
INVARIANT ToldWhatRan
PROPERTY StopEnds
CHECK_DEADLOCK FALSE
