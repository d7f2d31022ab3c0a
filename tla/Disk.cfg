SPECIFICATION Spec
INVARIANTS BuffersExact DescExact SleepersAwaited
PROPERTIES BlockStoreSpec
CONSTANTS
  p1 = p1
  p2 = p2
  b1 = b1
  b2 = b2
  b3 = b3
  v0 = v0
  None = None
  Proc = {p1, p2}
  Block = {b1, b2, b3}
  Value = {v0, v1}
  Uses <- MCUses
  Image <- MCImage
  Writer = {p1, p2}
  NBUF = 2
  Nums = {5, 7}
