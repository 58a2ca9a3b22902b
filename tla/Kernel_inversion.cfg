SPECIFICATION FairSpec
CONSTANTS
  OS_MAX_TASKS = 4
  NUM_DEVICES = 1
  dev_freq <- OneDevice
  OS_NUM_MUTEX = 1
  IrqWindows <- NoWindows
  CreateWhileHolding = FALSE
  MaxCreates = 1
PROPERTIES
  OutrankerRuns
