SPECIFICATION QueueSpec
CONSTANTS
  Capacity = 2
  MaxItems = 4
INVARIANTS Consistent
PROPERTIES ImplementsChannel EveryItemMoves
CHECK_DEADLOCK FALSE
