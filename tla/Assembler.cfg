SPECIFICATION Spec
CONSTANTS
  kMaxQueuedPacketsPerConnection = 0
  kL2capBasicFrameHeaderSize = 2
  QueueSize = 1
  MaxLength = 2
  MaxPdus = 3
  EmptyFragments = FALSE
INVARIANTS Consistent PdusArriveWhole
PROPERTIES EveryPduTaken
