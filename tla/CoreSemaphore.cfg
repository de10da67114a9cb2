CONSTANTS
  t1 = t1
  t2 = t2
  Thread = {t1, t2}
  Idle = Idle
  TickIsr = TickIsr
  DevIsr = DevIsr
  NoThread = NoThread
  Priority <- Equals
  Fifo = FALSE
  Nesting = TRUE
  MaxTimeout = 1
  InitialCount = 1
  MaximumCount = 1
SPECIFICATION Spec
INVARIANTS
  SemaphoreInv
  UnitConservation
  NoStrandedThread
  PendingDispatch
PROPERTIES
  ImplementsAbstract
  QueueOrder
