CONSTANTS
  high = high
  middle = middle
  low = low
  m1 = m1
  m2 = m2
  NoThread = NoThread
  NoMutex = NoMutex
  Systems <- MCSystems
SPECIFICATION Spec
INVARIANTS
  MutexConsistent
  PriorityRestored
  NoInversion
PROPERTIES
  LoweredWithLast
