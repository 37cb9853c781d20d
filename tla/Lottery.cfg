SPECIFICATION Spec
CONSTANTS
  NPROC = 4
  Pages = {1, 2}
  Works <- MCWorks
INVARIANTS
  OneHart
  TimesAdd
  CountsExact
  SavedExact
  TestsPass
