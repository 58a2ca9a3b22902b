SPECIFICATION Spec
CONSTANTS
  OSCR_MOD = 8
  UINT_MOD = 256
  TIME_RESOLUTION = 5
  MATCH = 3
  Soonest = 1
  Latest = 2
  Overflow = {"wrap", "saturate"}
  NUM_DEVICES = 2
  dev_freq <- TwoDevices
  Millis = {3, 10}
  Horizon = 24
INVARIANTS
  TypeOK
  ClockKept
  DevicePeriod
PROPERTY
  SleepsItsTicks
