CONSTANTS
  c1 = c1
  c2 = c2
  Cmd = {c1, c2}
  StatusCmd = {c2}
  Reset = Reset
  DebugInfo = DebugInfo
  NONE = NONE
  OpOf <- MCOpOf
  MaxNum = 1
  MaxTasks = 2
SPECIFICATION HostSpec
INVARIANTS CommandSafety
PROPERTIES SendsOnlyWithRoom ImplementsChannel NeverHangs EveryCommandAnswered
CHECK_DEADLOCK FALSE
