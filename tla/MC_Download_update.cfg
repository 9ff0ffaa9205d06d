SPECIFICATION FairSpec
CONSTANTS
  FlashPages = 8
  BlockPages = 2
  ImageBase = 2
  FcrPages = 8
  InfoPages = {10, 20}
  TornSizes = {0, 1, 7}
  OldImage <- Old
  NewImage <- New
  AppBinary <- App
  MaxFaults = 3
  MaxAppRuns = 2
  Noise = 0
INVARIANTS
  HostWaits
  BootsWholeImage
  AppIntact
PROPERTY
  UpdateCompletes
CHECK_DEADLOCK FALSE
