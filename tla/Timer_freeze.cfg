SPECIFICATION Spec
CONSTANTS
  OSCR_MOD = 8
  UINT_MOD = 128
  TIME_RESOLUTION = 5
  MATCH = 3
  Soonest = 1
  Latest = 2
  Overflow = {"wrap", "saturate"}
  NUM_DEVICES = 0
  dev_freq <- NoDevices
  Millis = {}
  Horizon = 60
INVARIANT NeverStalls
