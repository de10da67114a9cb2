CONSTANTS
  Timer = {m1, m2}
  None = None
  System = System
  MaxInterval = 2
  Scenarios <- AllScenarios
SYMMETRY TimerSymmetry
SPECIFICATION Spec
INVARIANTS
  TimersConsistent
  ServerServes
PROPERTIES
  NotEarly
