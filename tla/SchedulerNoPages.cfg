\* The scheduler with the pages of three tasks; copy_process may find none.
SPECIFICATION KSpec
CONSTANTS
  NTasks = 3
  MaxClock = 16
  MaxNest = 1
  MaxLeak = 1
  PagesRunOut = TRUE
  NPages = 24
  MaxMounts = 1
INVARIANT PagesHeldOnce
PROPERTY FailedForkPins
