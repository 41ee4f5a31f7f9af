SPECIFICATION Spec
CONSTANTS
    MaxTurns = 1
    MaxCalls = 2
    MaxQuestion = 1
    MaxExecutions = 3
    MaxStops = 0
    MaxFaults = 0
    CallKind = {"queue", "finish"}
INVARIANTS CallsPaired FinishHearsAnswers IdsRunOn LateToldOnce
PROPERTIES AnswersKept
CHECK_DEADLOCK FALSE
