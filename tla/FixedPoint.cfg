\* Every weight of the table; some execution times; up to twelve equal tasks.
SPECIFICATION Spec
CONSTANTS
  NTasks = 1
  Deltas = {1, 4, 8, 52, 64, 100, 512, 1000, 1656}
  MaxTasks = 12
INVARIANTS
  ClosedForms
  NeverOvercharges
CHECK_DEADLOCK FALSE
