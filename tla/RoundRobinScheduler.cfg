CONSTANTS
  Handle = {1, 2, 3}
  TypeOf <- MCTypeOf
  MaxCredits <- MCMaxCredits
  MaxFragments = 2
  MaxPackets = 3
  Endless = FALSE
  Prioritized = {}
  HciQueueSize = 1
  LateTraffic = FALSE
SPECIFICATION LiveSpec
INVARIANTS
  CreditsConserved
PROPERTIES
  EveryPacketTaken
CHECK_DEADLOCK FALSE
