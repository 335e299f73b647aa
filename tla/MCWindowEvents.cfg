\* Two windows, one of them older than the server; two clients that come and go.
SPECIFICATION Spec
CONSTANTS
  w1 = w1
  w2 = w2
  c1 = c1
  c2 = c2
  p1 = p1
  p2 = p2
  s1 = s1
  s2 = s2
  Window = {w1, w2}
  Pos = {p1}
  Size = {s1}
  Channel = {c1, c2}
  Preexisting = {w2}
  MaxRequests = 3
  None = None
  Freed = Freed
SYMMETRY ChannelSymmetry
INVARIANTS
  TypeOK
  NoLostWakeup
  ClientMirrorsLife
  MappedIsShown
PROPERTIES
  ForgetsOnlyUnlinked
  KeepsPromise
