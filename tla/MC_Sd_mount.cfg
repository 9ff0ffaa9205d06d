SPECIFICATION FairSpec
CONSTANTS
  Letters = 32
  Cards <- MCCards
  MaxInserts = 3
  BusyPolls = 2
  MountTries = 3
INVARIANTS AddressRight BusAgrees VolumesRight
PROPERTY CardIsMounted
CHECK_DEADLOCK FALSE
