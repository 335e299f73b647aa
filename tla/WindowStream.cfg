\* One window; sizes that are too small, odd, even and too large for a stream;
\* room in the queue for the death of a window and the birth of the next.
SPECIFICATION StreamSpec
CONSTANTS
  Window = {w1}
  Pos = {p1, p2}
  Size = {3, 5, 6, 8}
  Channel = {}
  Preexisting = {}
  MaxRequests = 2
  None = None
  Freed = Freed
  TooLarge = {8}
  MaxInput = 1
  MaxFrames = 1
  MaxNals = 2
SYMMETRY PosSymmetry
INVARIANTS
  StreamTypeOK
  LockFollowsUse
  StreamFitsNode
  MisuseIsExplained
  FramesAreWhole
  NoLostFrame
  PositionSettles
  SpinHasMaker
