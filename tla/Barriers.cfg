CONSTANTS
  Thread = {t1, t2, t3, t4}
  Nobody = Nobody
  Automatic = TRUE
  MaximumCount = 3
SPECIFICATION BarrierFairSpec
INVARIANTS
  BarrierSafe
PROPERTIES
  PassesTogether
  BarrierWaitEnds
