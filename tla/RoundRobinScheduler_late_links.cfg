CONSTANTS
  Handle = {1, 3}
  TypeOf <- MCTypeOf
  MaxCredits <- MCMaxCredits
  MaxFragments = 3
  MaxPackets = 2
  Endless = FALSE
  Prioritized = {1, 3}
  HciQueueSize = 1
  LateTraffic = TRUE
SPECIFICATION Spec
INVARIANTS TypeOK SendsWithCredit OnePacketAtATime
CHECK_DEADLOCK FALSE
