SPECIFICATION Spec
CONSTANTS
  OS_MAX_TASKS = 4
  NUM_RUN_GROUP = 2
  Tcb = {t1, t2}
  NULL = NULL
  IrqCalls <- HarmlessCalls
INVARIANTS
  EmptyIsIdle
CHECK_DEADLOCK FALSE
