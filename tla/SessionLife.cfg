\* Three clients that come and go, on channels with and without broadcasts; three
\* addresses for sessions.
SPECIFICATION Spec
CONSTANTS
  Client = {c1, c2, c3}
  ChannelType = {"MASTER", "EVENT"}
  Node = {n1, n2, n3}
  Anchor = Anchor
  Poison = Poison
  Junk = Junk
  Unset = Unset
  MaxRequests = 1
  MaxOut = 2
INVARIANTS
  TypeOK
  NoDanglingChannel
PROPERTIES
  UndefinedNeedsSilentLeaver
  ImplementsRegistry
