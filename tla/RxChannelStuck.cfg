\* A client event that get_size_by_type does not know.
SPECIFICATION FairSpec
CONSTANTS
  Setups <- StuckSetups
  Stray = "none"
  MaxSend = 3
PROPERTY ParseEnds
CHECK_DEADLOCK FALSE
