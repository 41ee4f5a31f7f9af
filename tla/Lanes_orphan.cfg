SPECIFICATION Spec
CONSTANTS
  Tasks = 1
  Width = 1
  MaxTrouble = 1
  MaxGroups = 1
  MaxCommits = 1
  MaxDeaths = 1
  MaxStops = 0
  MaxFaults = 0
  MaxSweeps = 0
  MaxMerges = 0
CHECK_DEADLOCK FALSE
INVARIANT DeathLeavesTheLink
