SPECIFICATION ProgramSpec
CONSTANTS
  OS_MAX_TASKS = 8
  NUM_DEVICES = 4
  dev_freq <- FourDevices
  OS_NUM_MUTEX = 6
  IrqWindows <- HarmlessWindows
  CreateWhileHolding = FALSE
  MaxCreates = 5
  Shipped <- AllShipped
  ITE = 4
  MaxBurst = 2
INVARIANTS
  ChecksSucceed
  NumbersChased
  NeverReturns
PROPERTY
  EndsAsItDoes
