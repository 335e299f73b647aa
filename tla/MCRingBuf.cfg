\* Two rings of capacity 2 and 1; counts larger than the whole buffer.
SPECIFICATION FairSpec
CONSTANTS
  r1 = r1
  r2 = r2
  a = a
  b = b
  Ring = {r1, r2}
  Cap <- MCCap
  Byte = {a, b}
  MaxCount = 4
  NoCall = NoCall
INVARIANTS
  TypeOK
  BytesAccountedFor
  ReadsInOrder
  FindChrFinds
PROPERTIES
  OverflowLeavesFull
  ImplementsFifo
  CallsReturn
