CONSTANTS
  Watchdog = {w1, w2, w3}
  ChainHead = ChainHead
  MaxInterval = 3
  MaxDelta = 4
  Handlers = {{"remove"}}
SPECIFICATION Spec
PROPERTIES
  NeverEarly
