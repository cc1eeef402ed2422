SPECIFICATION Spec
CONSTANTS
  kMaxTxWin = 7
  local_tx_window = 2
  remote_tx_window = 2
  max_transmit = 2
  BusyThreshold = 2
  MaxSegments <- OneOne
  MaxSdus <- ThreeNone
  MaxInFlight = 2
INVARIANTS BusyStrandsNothing
CHECK_DEADLOCK FALSE
