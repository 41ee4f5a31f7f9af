SPECIFICATION FairSpec
CONSTANTS
  Tasks = 2
  Width = 1
  MaxTrouble = 2
  MaxGroups = 1
  MaxCommits = 2
  MaxDeaths = 1
  MaxStops = 1
  MaxFaults = 1
  MaxSweeps = 1
  MaxMerges = 1
CHECK_DEADLOCK FALSE
INVARIANTS WorkHasAHome 
PROPERTIES NamesUsedOnce TakenAtRest NowEndsTheWait
