SPECIFICATION Spec
CONSTANTS
  OS_MAX_TASKS = 5
  NUM_DEVICES = 1
  dev_freq <- OneDevice
  OS_NUM_MUTEX = 2
  IrqWindows <- LockWindows
  CreateWhileHolding = TRUE
  MaxCreates = 2
INVARIANTS
  HandedOver
PROPERTIES
  HeadBecomesHolder
