SPECIFICATION Spec
CONSTANTS
    Proc = {p1, p2}
    None = none
    MaxSeq = 0
    MaxStops = 0
    MaxPrunes = 0
    Outsiders = {}
INVARIANTS LiveIffWorker

CHECK_DEADLOCK FALSE
