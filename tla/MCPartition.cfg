CONSTANTS
  SectorWord = 8
  RawSize = 5
  DiskImages <- ExtendedImages
  MaxCalls = 4
  MaxAccesses = 3
SPECIFICATION PartitionSpec
INVARIANT GivenTableRead
CHECK_DEADLOCK FALSE
