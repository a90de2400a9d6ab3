\* Four tasks, the timer never stops.
SPECIFICATION FairSpec
CONSTANTS
  NTasks = 4
  MaxMasked = 4
PROPERTY EveryoneRuns
CHECK_DEADLOCK FALSE
