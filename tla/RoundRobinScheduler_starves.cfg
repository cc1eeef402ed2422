CONSTANTS
  Handle = {1, 2}
  TypeOf <- MCTypeOf
  MaxCredits <- MCMaxCredits
  MaxFragments = 1
  MaxPackets = 2
  Endless = TRUE
  Prioritized = {}
  HciQueueSize = 1
  LateTraffic = FALSE
SPECIFICATION LiveSpec
PROPERTIES
  NoLinkStarves
CHECK_DEADLOCK FALSE
