SPECIFICATION Spec
CONSTANTS
  Disk <- EvenDisk
  Bpb <- MCBpb
  Partition <- MCPartition
  SectorSize = 2
  FatPerSector = 4
  DirPerSector = 4
  FragLen = 3
  FreeMask = 128
  Paths <- BinPaths
  Binaries <- BinPaths
  MaxCount = 3
  Files <- EvenFiles
  Listings <- MCListings
  Names <- MCNames
INVARIANT BinaryLoaded
CHECK_DEADLOCK FALSE
