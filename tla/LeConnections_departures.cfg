SPECIFICATION Spec
CONSTANTS
  Address = {a}
  MaxInputs = 3
  ClientOrder <- LeFirst
INVARIANTS NoneForgotten TriggeredAgain PauseHolds
CHECK_DEADLOCK FALSE
