\* Four nodes, allocated and freed again and again.
SPECIFICATION FairSpec
CONSTANTS
  Node = {n1,n2,n3,n4}
  Anchor = Anchor
  Poison = Poison
  Junk = Junk
  None = None
  Freed = Freed
INVARIANTS
  TypeOK
  WellFormed
PROPERTIES
  ImplementsListWalk
  WalkEnds
