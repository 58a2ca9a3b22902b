SPECIFICATION SequentialSpec
CONSTANTS
  Inputs <- AllInputs
  OS_AVAIL_TASKS = 4
  MAX = 8
  TASK_SIZE = 1
  USR_START_ADDR = 2
  USR_END_ADDR = 6
  Hyper = 60
  bound_table <- FirstBounds
  SIZE_T = 3
  LONG = 8
  PRINTF_BUFMAX = 4
  Strings <- StringSet
  Letter <- LetterSet
  Memories <- MemorySet
  Number <- NumberSet
  Registers <- RegisterSet
  Tids <- TidSet
  Words <- WordSet
  MaxWidth = 9
INVARIANTS
  FrontIsFastest
  FaultsExactly
  MeetsIfInOrder
  StringsAgree
  CopiesExactly
  TextArrives
  ReadsBack
  ArithmeticRight
PROPERTY
  TurnsRunOut
CHECK_DEADLOCK FALSE
