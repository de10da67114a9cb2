CONSTANTS
  Watchdog = {w1, w2, w3}
  ChainHead = ChainHead
  MaxInterval = 3
  MaxDelta = 3
  Handlers <- AllHandlers
SPECIFICATION FairSpec
INVARIANTS
  ChainConsistent
PROPERTIES
  TicksNeverEarly
  Fires
  InsertEnds
