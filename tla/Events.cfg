CONSTANTS
  Class = {"event", "system"}
  Event = {e1, e2}
  TaskSender = {"task"}
  IsrSender = {"isr"}
  MaxTicks = 2
SPECIFICATION FairSpec
INVARIANTS
  EventInv
PROPERTIES
  ImplementsAbstract
  ReceiveEnds
