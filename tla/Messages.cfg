CONSTANTS
  x1 = x1
  Thread = {t1, t2, t3}
  Message = {x1, x2, x3}
  NoMessage = NoMessage
  Nobody = Nobody
  SendRequest = 3
  UrgentRequest <- MinusThree
  Queues <- MCQueues
SPECIFICATION Spec
INVARIANTS
  QueueConsistent
  DeliveredOnce
PROPERTIES
  FifoWithinPriority
