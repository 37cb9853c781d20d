SPECIFICATION Spec
CONSTANTS
  p1 = p1
  p2 = p2
  p3 = p3
  Procs = {p1, p2, p3}
  InitProc = p1
  NumFrames = 4
  MaxPages = 2
  InitSize = 2
  TextPages <- TextLow
  Values = {a}
  Zero = zero
  Junk = junk
  CPUS = 1
  Calls <- SafeCall
INVARIANTS WritableIsPrivate
PROPERTIES Isolation
CHECK_DEADLOCK FALSE
