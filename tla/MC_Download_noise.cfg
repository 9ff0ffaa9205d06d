SPECIFICATION NoisySpec
CONSTANTS
  FlashPages = 8
  BlockPages = 2
  ImageBase = 2
  FcrPages = 8
  InfoPages = {10, 20}
  TornSizes = {0, 1, 7}
  OldImage <- Old
  NewImage <- New
  AppBinary <- App
  MaxFaults = 0
  MaxAppRuns = 1
  Noise = 1
INVARIANTS
  BootsWholeImage
CHECK_DEADLOCK FALSE
