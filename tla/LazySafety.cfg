SPECIFICATION Spec
CONSTANTS
  a = a
  b = b
  c = c
  Requests = {a, b, c}
  Reading = 1
  Writing = 1
  Deleting = 1
  Capacity = 2
  Patience = 3
  LastRequestTime = 1
  MaxTime = 4
  Nobody = nobody
INVARIANTS NoUseAfterDelete DequeuesItself DeadEntriesExpire CrashesOnlyOverdue
PROPERTIES DeleteWaitsItsTurn
SYMMETRY Symmetry
