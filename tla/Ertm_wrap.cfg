SPECIFICATION Spec
CONSTANTS
  kMaxTxWin = 4
  local_tx_window = 2
  remote_tx_window = 2
  max_transmit = 2
  BusyThreshold = 9
  MaxSegments <- OneOne
  MaxSdus <- EightNone
  MaxInFlight = 2
INVARIANTS ClosesOnlyAfterRetries DeliveredAsSent
CHECK_DEADLOCK FALSE
