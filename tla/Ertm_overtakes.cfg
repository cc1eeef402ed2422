SPECIFICATION Spec
CONSTANTS
  kMaxTxWin = 7
  local_tx_window = 2
  remote_tx_window = 2
  max_transmit = 2
  BusyThreshold = 9
  MaxSegments <- OneOne
  MaxSdus <- ThreeThree
  MaxInFlight = 4
INVARIANTS DeliveredAsSent
CHECK_DEADLOCK FALSE
