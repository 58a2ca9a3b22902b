SPECIFICATION Spec
CONSTANTS
  OS_MAX_TASKS = 5
  NUM_DEVICES = 2
  dev_freq <- TwoDevices
  OS_NUM_MUTEX = 0
  IrqWindows <- BeforeSleep
  CreateWhileHolding = FALSE
  MaxCreates = 1
INVARIANTS
  NoneForgotten
CHECK_DEADLOCK FALSE
