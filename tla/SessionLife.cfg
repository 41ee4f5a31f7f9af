SPECIFICATION FairSpec
CONSTANTS
    Proc = {p1, p2}
    None = none
    MaxSeq = 2
    MaxStops = 2
    MaxPrunes = 2
    Outsiders = {other}
  
PROPERTIES  SequencesRunOn PruneMeetsNobody StopTakes
CHECK_DEADLOCK FALSE
