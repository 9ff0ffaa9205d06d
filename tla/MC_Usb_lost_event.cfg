SPECIFICATION FairSpec
CONSTANTS
  Devices <- OneDevice
  Garbage <- NoGarbage
  MaxNaks = 0
  MaxPlugs = 1
  MAX_PIPES = 10
  URB_MAX_COUNT = 2
PROPERTY PluggedIsEnumerated
CHECK_DEADLOCK FALSE
