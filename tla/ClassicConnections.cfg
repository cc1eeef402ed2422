SPECIFICATION Spec
CONSTANTS
  Address = {a, b}
  Handle = {h, k}
  ReusesHandles = FALSE
  MaxInputs = 4
SYMMETRY Symmetry
INVARIANTS Consistent Settled OneAttempt
CHECK_DEADLOCK FALSE
