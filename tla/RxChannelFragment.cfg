\* TCP delivers any number of bytes at a time.
SPECIFICATION Spec
CONSTANTS
  Setups <- FragmentSetups
  Stray = "none"
  MaxSend = 3
INVARIANT StreamIntact
CHECK_DEADLOCK FALSE
