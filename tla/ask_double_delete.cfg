CONSTANTS
  h1 = h1
  h2 = h2
  h3 = h3
  NoCall = NoCall
  Calls <- HandlerSet
  MayCancel = FALSE
  MayStop = FALSE
SPECIFICATION Spec
CHECK_DEADLOCK FALSE
INVARIANT DeletedOnce
