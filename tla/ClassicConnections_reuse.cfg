SPECIFICATION Spec
CONSTANTS
  Address = {a, b}
  Handle = {h}
  ReusesHandles = TRUE
  MaxInputs = 4
INVARIANTS NoAssertionFails
CHECK_DEADLOCK FALSE
