SPECIFICATION Spec
CONSTANTS
  Proc = {p1, p2, p3}
  None = None
  NFILE = 2
  NOFILE = 2
  PIPESIZE = 2
  UINT = 4
  Byte = {a, b}
  MaxKilled = 1
  Count = {2}
PROPERTY ChannelSpec
INVARIANTS LifetimesExact SleepersServed
SYMMETRY Symmetry
