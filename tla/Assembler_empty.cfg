SPECIFICATION Spec
CONSTANTS
  kMaxQueuedPacketsPerConnection = 1
  kL2capBasicFrameHeaderSize = 2
  QueueSize = 1
  MaxLength = 2
  MaxPdus = 2
  EmptyFragments = TRUE
INVARIANTS WholePdusInOrder
