CONSTANTS
  Reactable = {r1}
  Client = {c1}
  Loop = loop
  Foreign = FALSE
  MaxStops = 2
  MaxIdles = 2
SPECIFICATION Spec
INVARIANTS StopIsObeyed PromiseIsNeverMissed
CHECK_DEADLOCK FALSE
