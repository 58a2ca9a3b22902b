SPECIFICATION Spec
CONSTANTS
  OSCR_MOD = 8
  UINT_MOD = 32
  TIME_RESOLUTION = 5
  MATCH = 3
  Soonest = 1
  Latest = 2
  Overflow = {"wrap"}
  NUM_DEVICES = 2
  dev_freq <- TwoDevices
  Millis = {}
  Horizon = 40
INVARIANT DevicePeriod
