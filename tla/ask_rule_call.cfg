CONSTANTS
  h1 = h1
  h2 = h2
  h3 = h3
  NoCall = NoCall
  Calls <- HandlerSet
  MayCancel = TRUE
  MayStop = TRUE
SPECIFICATION FairSpec
CHECK_DEADLOCK FALSE
INVARIANTS TypeOK GuiObjectsAreLive NoDanglingTag
PROPERTIES NoFinishAfterShutdown ImplementsAskRule EveryCallFreed
