SPECIFICATION Spec
CONSTANTS
  SingleShot = {a}
  Repeating = {r}
  MaxTasks = 3
  MaxTicks = 2
INVARIANTS OnFireIsSafe OnlyDueTasksRun
PROPERTIES EveryTaskRuns
