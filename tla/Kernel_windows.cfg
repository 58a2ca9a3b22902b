SPECIFICATION Spec
CONSTANTS
  OS_MAX_TASKS = 4
  NUM_DEVICES = 1
  dev_freq <- OneDevice
  OS_NUM_MUTEX = 1
  IrqWindows <- AllWindows
  CreateWhileHolding = FALSE
  MaxCreates = 2
INVARIANTS
  HighestLocker
CHECK_DEADLOCK FALSE
