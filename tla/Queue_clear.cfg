SPECIFICATION QueueSpec
CONSTANTS
  Capacity = 1
  MaxItems = 2
INVARIANTS BufferIsNotEmpty
