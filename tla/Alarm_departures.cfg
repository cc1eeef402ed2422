SPECIFICATION Spec
CONSTANTS
  SingleShot = {a}
  Repeating = {r}
  MaxTasks = 2
  MaxTicks = 2
INVARIANTS CancelIsHarmless DestructionIsSafe
