SPECIFICATION Spec
CONSTANTS
  Inputs <- SlowFirst
  OS_AVAIL_TASKS = 4
  MAX = 8
  TASK_SIZE = 1
  USR_START_ADDR = 2
  USR_END_ADDR = 6
  Hyper = 60
  bound_table <- FirstBounds
INVARIANT
  DeadlinesMet
CHECK_DEADLOCK FALSE
