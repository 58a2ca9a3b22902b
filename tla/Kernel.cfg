SPECIFICATION FairSpec
CONSTANTS
  OS_MAX_TASKS = 5
  NUM_DEVICES = 2
  dev_freq <- TwoDevices
  OS_NUM_MUTEX = 2
  IrqWindows <- HarmlessWindows
  CreateWhileHolding = FALSE
  MaxCreates = 2
INVARIANTS
  TypeOK
  NoLostTask
  HoldsLockCounts
  RunsAsItself
  HighestLocker
  RateMonotonic
PROPERTIES
  EventDelivered
  FirstTaskRuns
  KeepsPromise
