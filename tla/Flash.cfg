CONSTANTS
  CompactSegs = 2
  AvailCompactSegs = 1
  Disks <- AllDisks
SPECIFICATION LiveSpec
CHECK_DEADLOCK FALSE
INVARIANTS
  DiskConsistent
  ReadsLatest
  WritesSucceed
PROPERTIES
  RequestsEnd
