SPECIFICATION Spec
CONSTANTS
  p1 = p1
  p2 = p2
  p3 = p3
  Procs = {p1, p2, p3}
  InitProc = p1
  NumFrames = 4
  MaxPages = 2
  InitSize = 2
  TextPages <- TextLow
  Values = {zero}
  Zero = zero
  Junk = zero
  CPUS = 3
  Calls <- AnyCall
INVARIANTS RefCountExact NoLeak NoPagingPanic FreeUnreferenced
CHECK_DEADLOCK FALSE
CONSTRAINT Apart
SYMMETRY Symmetry
