\* Input on a channel that does not read it.
SPECIFICATION Spec
CONSTANTS
  Setups <- FullSetups
  Stray = "none"
  MaxSend = 3
INVARIANT NoAbort
CHECK_DEADLOCK FALSE
