\* The comment at fair.c:145 against the swap of task_fork_fair.
SPECIFICATION Spec
CONSTANTS
  NTasks = 3
  MaxClock = 40
  MaxNest = 1
  MaxLeak = 1
  PagesRunOut = FALSE
PROPERTY ForkedSelectedNext
