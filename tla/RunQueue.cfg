SPECIFICATION Spec
CONSTANTS
  OS_MAX_TASKS = 4
  NUM_RUN_GROUP = 2
  Tcb = {t1, t2}
  NULL = NULL
  IrqCalls <- HarmlessCalls
INVARIANTS
  SummaryExact
  HighestIsLeast
PROPERTY
  Refines
CHECK_DEADLOCK FALSE
