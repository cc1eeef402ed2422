CONSTANTS
  Handle = {1, 2}
  TypeOf <- MCTypeOf
  MaxCredits <- MCMaxCredits
  MaxFragments = 3
  MaxPackets = 1
  Endless = FALSE
  Prioritized = {}
  HciQueueSize = 1
  LateTraffic = FALSE
SPECIFICATION Spec
INVARIANTS
  WaitsOnlyForCredits
CHECK_DEADLOCK FALSE
