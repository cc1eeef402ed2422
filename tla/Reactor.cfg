CONSTANTS
  Reactable = {r1, r2}
  Client = {c1}
  Loop = loop
  Foreign = TRUE
  MaxStops = 1
  MaxIdles = 1
SPECIFICATION LiveSpec
INVARIANTS ReactablesAreSafe TrueMeansFinished IdlePromiseIsThere
PROPERTIES StopStops EveryRemovalCompletes
CHECK_DEADLOCK FALSE
