CONSTANTS
  t1 = t1
  t2 = t2
  Thread = {t1, t2}
  Idle = Idle
  TickIsr = TickIsr
  DevIsr = DevIsr
  NoThread = NoThread
  Priority <- Unequals
  Fifo = FALSE
  Nesting = FALSE
  MaxTimeout = 1
  InitialCount = 1
  MaximumCount = 1
SPECIFICATION FairSpec
PROPERTIES
  TimedWaitEnds
  DispatchPerformed
