CONSTANTS
  Reactable = {r1, r2}
  Client = {c1}
  Loop = loop
  Foreign = TRUE
  MaxStops = 0
  MaxIdles = 0
SPECIFICATION PromptSpec
INVARIANTS UnregisterIsThreadSafe
PROPERTIES WaitEndsWithCallback
CHECK_DEADLOCK FALSE
