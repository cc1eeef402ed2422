SPECIFICATION Spec
CONSTANTS
  kMaxTxWin = 4
  local_tx_window = 2
  remote_tx_window = 2
  max_transmit = 2
  BusyThreshold = 2
  MaxSegments <- TwoOne
  MaxSdus <- TwoOne
  MaxInFlight = 2
INVARIANTS Consistent NothingStranded
PROPERTIES ImplementsChannel FaultOnlyAcrossTheWrap
CHECK_DEADLOCK FALSE
