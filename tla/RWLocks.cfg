CONSTANTS
  Thread = {t1, t2, t3, t4}
  Nobody = Nobody
SPECIFICATION FairSpec
INVARIANTS
  LockSafe
PROPERTIES
  WritersNotPassed
  WaitEnds
