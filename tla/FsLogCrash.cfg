SPECIFICATION Spec
CONSTANTS
  p1 = p1
  p2 = p2
  b1 = b1
  b2 = b2
  b3 = b3
  old = old
  new = new
  Procs = {p1, p2}
  Blocks = {b1, b2, b3}
  Values = {old, new}
  MAXOPBLOCKS = 3
  OpBlocks = 2
  LOGSIZE = 6
  LogBlocks = 6
  Torn = torn
  Absent = absent
  Nobody = nobody
INVARIANTS PinsExact SleepersAwaited
PROPERTIES AllOrNothing
SYMMETRY Symmetry
