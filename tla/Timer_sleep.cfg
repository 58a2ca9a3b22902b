SPECIFICATION Spec
CONSTANTS
  OSCR_MOD = 8
  UINT_MOD = 128
  TIME_RESOLUTION = 5
  MATCH = 3
  Soonest = 1
  Latest = 2
  Overflow = {"wrap"}
  NUM_DEVICES = 0
  dev_freq <- NoDevices
  Millis = {5, 10}
  Horizon = 36
PROPERTY SleepAtLeast
