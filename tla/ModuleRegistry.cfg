CONSTANTS
  hal = hal
  storage = storage
  hci = hci
  controller = controller
  StackThread = stack
  Management = management
  Handle = {hal, storage, hci, controller}
  Poster = {stack, management, hal}
  Roots = {controller}
  Deps <- MCDeps
  MaxPosts = 3
SPECIFICATION LiveSpec
INVARIANTS WorkIsThere LifetimesHold NotifyFindsHandler
PROPERTIES EveryTaskRuns ShutdownEnds
CHECK_DEADLOCK FALSE
