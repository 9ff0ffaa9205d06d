SPECIFICATION Spec
CONSTANTS
  Disk <- OddDisk
  Bpb <- MCBpb
  Partition <- MCPartition
  SectorSize = 2
  FatPerSector = 4
  DirPerSector = 4
  FragLen = 3
  FreeMask = 128
  Paths <- GoodPaths
  Binaries <- BinPaths
  MaxCount = 3
  Files <- OddFiles
  Listings <- MCListings
  Names <- MCNames
INVARIANTS ReadsRight OpensNamedFile DirListed BinaryLoaded
CHECK_DEADLOCK FALSE
