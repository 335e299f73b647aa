\* Clients of three manners, each with a ring of its own size.
SPECIFICATION FairSpec
CONSTANTS
  Setups <- MCSetups
  Stray = "none"
  MaxSend = 6
INVARIANTS
  TypeOK
  BytesCounted
  WholeMessages
  AbortNeedsFlood
  OverrunNeedsLongStream
PROPERTIES
  DamageNeedsLeftovers
  EventsHandled
CHECK_DEADLOCK FALSE
