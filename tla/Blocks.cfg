CONSTANTS
  c1 = c1
  c2 = c2
  u1 = u1
  u2 = u2
  u3 = u3
  v1 = v1
  v2 = v2
  w1 = w1
  Swapper = Swapper
  ReadAhead = ReadAhead
  Nobody = Nobody
  Setups <- AllSetups
SYMMETRY ClientSymmetry
SPECIFICATION FairSpec
CHECK_DEADLOCK FALSE
INVARIANTS
  CacheConsistent
  ReadsLatest
  SyncWaits
  NoLostWakeup
PROPERTIES
  SyncEnds
