SPECIFICATION Spec
CONSTANTS
  Address = {a}
  Handle = {h}
  ReusesHandles = FALSE
  MaxInputs = 2
INVARIANTS FailureUnblocks
CHECK_DEADLOCK FALSE
