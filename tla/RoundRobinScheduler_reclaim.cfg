CONSTANTS
  Handle = {1, 2}
  TypeOf <- MCTypeOf
  MaxCredits <- MCMaxCredits
  MaxFragments = 3
  MaxPackets = 1
  Endless = FALSE
  Prioritized = {1}
  HciQueueSize = 1
  LateTraffic = TRUE
SPECIFICATION Spec
INVARIANTS
  ReclaimsOnlyOutstanding
CHECK_DEADLOCK FALSE
