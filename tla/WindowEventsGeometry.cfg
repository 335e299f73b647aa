\* A client that joins while a window is being reconfigured, and nobody asked
\* to move or resize it.
SPECIFICATION UnaskedSpec
CONSTANTS
  w1 = w1
  w2 = w2
  c1 = c1
  c2 = c2
  p1 = p1
  p2 = p2
  s1 = s1
  s2 = s2
  Window = {w1}
  Pos = {p1}
  Size = {s1, s2}
  Channel = {c1}
  Preexisting = {}
  MaxRequests = 2
  None = None
  Freed = Freed
INVARIANT GeometrySettles
