SPECIFICATION FairSpec
CONSTANTS
  Devices <- MCDevices
  Garbage <- MCGarbage
  MaxNaks = 1
  MaxPlugs = 2
  MAX_PIPES = 2
  URB_MAX_COUNT = 2
INVARIANTS AddressesAgree QueueMoves EnumeratedRight
PROPERTY EnumerationFinishes
CHECK_DEADLOCK FALSE
